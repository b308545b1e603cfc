--------------------------- MODULE SyncStoreProofs ---------------------------
(***************************************************************************)
(* What SyncStore promises for every number of accounts, handlers and      *)
(* mutations: its types, the density of the feed, and that a page holds    *)
(* every change between its two cursors.                                   *)
(*                                                                         *)
(* Density is not inductive: COMMIT adds whatever number is staged.  It    *)
(* needs that a staged number is the next one when it becomes visible      *)
(* (StagedIsNext), which holds because the row lock of the sequence is     *)
(* held from the draw to COMMIT (LockHeld), and that nobody works for an   *)
(* account whose creation has yet to fill the feed (AccountsFirst).        *)
(***************************************************************************)
EXTENDS SyncStore, FiniteSetTheorems, FunctionTheorems, TLAPS

\* Devices and handlers belong to accounts that exist; the others are untouched.
AccountsFirst ==
  /\ \A x \in devices : x[1] \in accounts
  /\ \A w \in Worker : pc[w] # "idle" => Current(w).account \in accounts
  /\ \A a \in Account : a \notin accounts => feed[a] = {} /\ seqRow[a] = 0

\* A handler that has read what it decides upon holds the lock of its account.
LockHeld ==
  \A w \in Worker :
    pc[w] \in {"locked", "checked", "staged"} => seqLock[Current(w).account] = w

\* An open transaction leaves the sequence as it is, or draws the next number
\* and stages one change with it.
StagedIsNext ==
  \A w \in Worker :
    IF pc[w] # "staged" THEN staged[w] = None
    ELSE LET s == staged[w]
             n == seqRow[Current(w).account]
         IN /\ s \in Staged
            /\ s.change = None => s.seq = n /\ s.row = None
            /\ s.change # None => s.seq = n + 1 /\ s.change.seq = n + 1 /\ s.row \in Row

IInv == TypeOK /\ DenseFeed /\ AccountsFirst /\ LockHeld /\ StagedIsNext

-----------------------------------------------------------------------------
(* What a handler works on *)

\* A busy handler stands at a mutation of its batch.
LEMMA CurrentType ==
  ASSUME TypeOK, NEW w \in Worker, pc[w] # "idle"
  PROVE  /\ job[w] \in Batch /\ job[w] \in Seq(Mutation)
         /\ at[w] \in 1 .. Len(job[w])
         /\ Current(w) \in Mutation /\ Current(w) \in MutationShape
         /\ Current(w).account \in Account /\ Current(w).account = job[w][1].account
         /\ Current(w).id \in Id /\ Current(w).body \in Body
<1>1. job[w] \in Batch \union {<<>>} /\ at[w] \in 1 .. Len(job[w])
  BY DEF TypeOK
<1>2. job[w] # <<>>
  BY <1>1
<1>3. job[w] \in Batch /\ job[w] \in Seq(Mutation)
  BY <1>1, <1>2, BatchAssumption
<1>4. Current(w) \in Mutation /\ Current(w).account = job[w][1].account
  BY <1>1, <1>3, BatchAssumption DEF Current
<1> QED BY <1>1, <1>3, <1>4, MutationAssumption DEF MutationShape

\* Answer and GiveUp move handler w on within its batch, or end it.
MovesOn(w) ==
  /\ pc' \in [Worker -> {"idle", "ready", "locked", "checked", "staged"}]
  /\ job' \in [Worker -> Batch \union {<<>>}]
  /\ at' \in [Worker -> Nat]
  /\ \A v \in Worker : pc'[v] = "idle" \/ at'[v] \in 1 .. Len(job'[v])
  /\ \A v \in Worker \ {w} : pc'[v] = pc[v] /\ job'[v] = job[v] /\ at'[v] = at[v]
  /\ pc'[w] = "idle" \/ (pc'[w] = "ready" /\ job'[w] = job[w])
  /\ replies' \in SUBSET Reply

LEMMA AnswerMovesOn ==
  ASSUME TypeOK, NEW w \in Worker, pc[w] # "idle", NEW ok \in BOOLEAN, NEW seq \in Nat,
         Answer(w, ok, seq)
  PROVE  MovesOn(w)
<1>1. Current(w) \in Mutation /\ job[w] \in Seq(Mutation) /\ at[w] \in 1 .. Len(job[w])
  BY CurrentType
<1>2. [m |-> Current(w), ok |-> ok, seq |-> seq] \in Reply
  BY <1>1 DEF Reply
<1>3. replies' \in SUBSET Reply
  BY <1>2 DEF TypeOK, Answer
<1>4. CASE ok /\ at[w] < Len(job[w])
  <2>1. /\ pc' = [pc EXCEPT ![w] = "ready"]
        /\ at' = [at EXCEPT ![w] = @ + 1]
        /\ job' = job
    BY <1>4 DEF Answer
  <2>2. at'[w] \in 1 .. Len(job'[w])
    BY <1>1, <1>4, <2>1 DEF TypeOK
  <2> QED BY <1>3, <2>1, <2>2 DEF TypeOK, MovesOn
<1>5. CASE ~(ok /\ at[w] < Len(job[w]))
  <2>1. /\ pc' = [pc EXCEPT ![w] = "idle"]
        /\ at' = [at EXCEPT ![w] = 0]
        /\ job' = [job EXCEPT ![w] = <<>>]
    BY <1>5 DEF Answer
  <2> QED BY <1>3, <2>1 DEF TypeOK, MovesOn
<1> QED BY <1>4, <1>5

LEMMA GiveUpMovesOn ==
  ASSUME TypeOK, NEW w \in Worker, pc[w] # "idle", GiveUp(w)
  PROVE  MovesOn(w)
BY DEF TypeOK, GiveUp, MovesOn

-----------------------------------------------------------------------------
(* The inductive invariant *)

\* A step of handler w that touches no feed and no sequence keeps the invariant
\* if it keeps the locks of the others and its own obligations.
LEMMA OneHandler ==
  ASSUME IInv, NEW w \in Worker,
         UNCHANGED <<accounts, devices, seqRow, feed>>,
         \A v \in Worker \ {w} : /\ pc'[v] = pc[v] /\ job'[v] = job[v] /\ at'[v] = at[v]
                                 /\ staged'[v] = staged[v]
                                 /\ \A a \in Account : seqLock[a] = v => seqLock'[a] = v,
         pc'[w] # "idle" => Current(w)'.account \in accounts,
         pc'[w] \in {"locked", "checked", "staged"} => seqLock'[Current(w)'.account] = w,
         IF pc'[w] # "staged" THEN staged'[w] = None
         ELSE LET s == staged'[w]
                  n == seqRow[Current(w)'.account]
              IN /\ s \in Staged
                 /\ s.change = None => s.seq = n /\ s.row = None
                 /\ s.change # None => s.seq = n + 1 /\ s.change.seq = n + 1 /\ s.row \in Row
  PROVE  DenseFeed' /\ AccountsFirst' /\ LockHeld' /\ StagedIsNext'
<1>1. \A v \in Worker \ {w} : Current(v)' = Current(v)
  BY DEF Current
<1>2. DenseFeed'
  BY DEF IInv, DenseFeed
<1>3. AccountsFirst'
  BY <1>1 DEF IInv, AccountsFirst
<1>4. LockHeld'
  <2> SUFFICES ASSUME NEW v \in Worker, pc'[v] \in {"locked", "checked", "staged"}
               PROVE  seqLock'[Current(v)'.account] = v
    BY DEF LockHeld
  <2>1. CASE v = w
    BY <2>1
  <2>2. CASE v # w
    <3>1. pc[v] # "idle" /\ seqLock[Current(v).account] = v
      BY <2>2 DEF IInv, LockHeld
    <3>2. Current(v).account \in Account
      BY <3>1, CurrentType DEF IInv
    <3> QED BY <1>1, <2>2, <3>1, <3>2
  <2> QED BY <2>1, <2>2
<1>5. StagedIsNext'
  <2> SUFFICES ASSUME NEW v \in Worker
               PROVE  IF pc'[v] # "staged" THEN staged'[v] = None
                      ELSE LET s == staged'[v]
                               n == seqRow'[Current(v)'.account]
                           IN /\ s \in Staged
                              /\ s.change = None => s.seq = n /\ s.row = None
                              /\ s.change # None => s.seq = n + 1 /\ s.change.seq = n + 1 /\ s.row \in Row
    BY DEF StagedIsNext
  <2>1. CASE v = w
    BY <2>1
  <2>2. CASE v # w
    BY <1>1, <2>2 DEF IInv, StagedIsNext
  <2> QED BY <2>1, <2>2
<1> QED BY <1>2, <1>3, <1>4, <1>5

\* Unlocked(w) frees the locks of w and no other.
LEMMA UnlockedType ==
  ASSUME TypeOK, NEW w \in Worker
  PROVE  /\ Unlocked(w) \in [Account -> Worker \union {None}]
         /\ \A v \in Worker \ {w} : \A a \in Account : seqLock[a] = v => Unlocked(w)[a] = v
BY DEF TypeOK, Unlocked

LEMMA InitIInv == Init => IInv
<1> SUFFICES ASSUME Init PROVE IInv
  OBVIOUS
<1>1. TypeOK
  BY DEF Init, TypeOK
<1>2. DenseFeed
  <2> SUFFICES ASSUME NEW a \in Account
               PROVE  /\ {c.seq : c \in feed[a]} = 1 .. seqRow[a]
                      /\ \A c, d \in feed[a] : c.seq = d.seq => c = d
    BY DEF DenseFeed
  <2> QED BY DEF Init
<1>3. AccountsFirst /\ LockHeld /\ StagedIsNext
  BY DEF Init, AccountsFirst, LockHeld, StagedIsNext
<1> QED BY <1>1, <1>2, <1>3 DEF IInv

LEMMA PushIInv ==
  ASSUME IInv, NEW w \in Worker, NEW b \in Batch, Push(w, b)
  PROVE  IInv'
<1>1. b \in Seq(Mutation) /\ Len(b) > 0 /\ b[1] \in Mutation
  BY BatchAssumption
<1>2. /\ pc' = [pc EXCEPT ![w] = "ready"] /\ job' = [job EXCEPT ![w] = b]
      /\ at' = [at EXCEPT ![w] = 1] /\ UNCHANGED <<dbVars, staged, replies, pullVars>>
      /\ <<b[1].account, b[1].device>> \in devices
  BY DEF Push
<1>3. TypeOK'
  <2>1. \A v \in Worker : pc'[v] = "idle" \/ at'[v] \in 1 .. Len(job'[v])
    BY <1>1, <1>2 DEF IInv, TypeOK
  <2> QED BY <1>2, <2>1 DEF IInv, TypeOK, dbVars, pullVars
<1>4. Current(w)' = b[1] /\ b[1].account \in accounts
  <2>1. Current(w)' = b[1]
    BY <1>2 DEF IInv, TypeOK, Current
  <2>2. <<b[1].account, b[1].device>>[1] \in accounts
    BY <1>2 DEF IInv, AccountsFirst
  <2> QED BY <2>1, <2>2
<1>5. pc'[w] = "ready" /\ staged'[w] = None
  BY <1>2 DEF IInv, TypeOK, StagedIsNext, Push
<1>6. DenseFeed' /\ AccountsFirst' /\ LockHeld' /\ StagedIsNext'
  BY <1>2, <1>4, <1>5, OneHandler DEF IInv, TypeOK, dbVars
<1> QED BY <1>3, <1>6 DEF IInv

\* A handler leaves its mutation without writing, and with or without its locks.
LEMMA LeavesQuietly ==
  ASSUME IInv, NEW w \in Worker, pc[w] # "idle", MovesOn(w),
         UNCHANGED <<accounts, devices, seqRow, rows, feed, processed, pullVars>>,
         seqLock' = seqLock \/ seqLock' = Unlocked(w),
         staged' = [staged EXCEPT ![w] = None]
  PROVE  IInv'
<1>1. seqLock' \in [Account -> Worker \union {None}]
  BY UnlockedType DEF IInv, TypeOK
<1>2. TypeOK'
  BY <1>1 DEF IInv, TypeOK, MovesOn, pullVars
<1>3. pc'[w] # "idle" => Current(w)'.account \in accounts
  <2> SUFFICES ASSUME pc'[w] # "idle" PROVE Current(w)'.account \in accounts
    OBVIOUS
  <2>1. job'[w] = job[w] /\ at'[w] \in 1 .. Len(job[w])
    BY DEF MovesOn
  <2>2. Current(w)'.account = job[w][1].account
    BY <2>1, CurrentType, BatchAssumption DEF IInv, Current
  <2> QED BY <2>2, CurrentType DEF IInv, AccountsFirst
<1>4. pc'[w] \notin {"locked", "checked", "staged"} /\ staged'[w] = None
  BY DEF MovesOn, IInv, TypeOK
<1>5. \A v \in Worker \ {w} : /\ pc'[v] = pc[v] /\ job'[v] = job[v] /\ at'[v] = at[v]
                              /\ staged'[v] = staged[v]
                              /\ \A a \in Account : seqLock[a] = v => seqLock'[a] = v
  BY UnlockedType DEF MovesOn, IInv, TypeOK
<1>6. DenseFeed' /\ AccountsFirst' /\ LockHeld' /\ StagedIsNext'
  BY <1>3, <1>4, <1>5, OneHandler DEF pullVars
<1> QED BY <1>2, <1>6 DEF IInv

LEMMA RejectInvalidIInv ==
  ASSUME IInv, NEW w \in Worker, RejectInvalid(w)
  PROVE  IInv'
<1>1. pc[w] = "ready" /\ Answer(w, FALSE, 0) /\ UNCHANGED <<dbVars, staged, pullVars>>
  BY DEF RejectInvalid
<1>2. MovesOn(w)
  BY <1>1, AnswerMovesOn DEF IInv
<1>3. staged' = [staged EXCEPT ![w] = None]
  BY <1>1 DEF IInv, TypeOK, StagedIsNext
<1> QED BY <1>1, <1>2, <1>3, LeavesQuietly DEF dbVars

LEMMA findProcessedResultIInv ==
  ASSUME IInv, NEW w \in Worker, findProcessedResult(w)
  PROVE  IInv'
<1>1. /\ pc[w] = "locked" /\ processed[Current(w)] # None
      /\ Answer(w, processed[Current(w)].status # "rejected", processed[Current(w)].seq)
      /\ seqLock' = Unlocked(w)
      /\ UNCHANGED <<accounts, devices, seqRow, rows, feed, processed, staged, pullVars>>
  BY DEF findProcessedResult
<1>2. processed[Current(w)] \in Ack
  BY <1>1, CurrentType DEF IInv, TypeOK
<1>3. MovesOn(w)
  BY <1>1, <1>2, AnswerMovesOn DEF IInv, Ack
<1>4. staged' = [staged EXCEPT ![w] = None]
  BY <1>1 DEF IInv, TypeOK, StagedIsNext
<1> QED BY <1>1, <1>3, <1>4, LeavesQuietly

LEMMA rejectConstraintIInv ==
  ASSUME IInv, NEW w \in Worker, rejectConstraint(w)
  PROVE  IInv'
<1>1. /\ pc[w] = "checked" /\ Answer(w, FALSE, 0) /\ seqLock' = Unlocked(w)
      /\ UNCHANGED <<accounts, devices, seqRow, rows, feed, processed, staged, pullVars>>
  BY DEF rejectConstraint
<1>2. MovesOn(w)
  BY <1>1, AnswerMovesOn DEF IInv
<1>3. staged' = [staged EXCEPT ![w] = None]
  BY <1>1 DEF IInv, TypeOK, StagedIsNext
<1> QED BY <1>1, <1>2, <1>3, LeavesQuietly

LEMMA AbortIInv ==
  ASSUME IInv, NEW w \in Worker, Abort(w)
  PROVE  IInv'
<1>1. /\ pc[w] # "idle" /\ GiveUp(w) /\ seqLock' = Unlocked(w)
      /\ staged' = [staged EXCEPT ![w] = None]
      /\ UNCHANGED <<accounts, devices, seqRow, rows, feed, processed, pullVars>>
  BY DEF Abort
<1>2. MovesOn(w)
  BY <1>1, GiveUpMovesOn DEF IInv
<1> QED BY <1>1, <1>2, LeavesQuietly

LEMMA LockIInv ==
  ASSUME IInv, NEW w \in Worker, LockAccountSequenceForUpdate(w)
  PROVE  IInv'
<1> DEFINE a == Current(w).account
<1>1. /\ pc[w] = "ready" /\ seqLock[a] \in {None, w}
      /\ seqLock' = [seqLock EXCEPT ![a] = w] /\ pc' = [pc EXCEPT ![w] = "locked"]
      /\ UNCHANGED <<accounts, devices, seqRow, rows, feed, processed, job, at, staged,
                     replies, pullVars>>
  BY DEF LockAccountSequenceForUpdate, LockFree
<1>2. a \in Account /\ a \in accounts
  BY <1>1, CurrentType DEF IInv, AccountsFirst
<1>3. TypeOK'
  BY <1>1, <1>2 DEF IInv, TypeOK, pullVars
<1>4. Current(w)' = Current(w)
  BY <1>1 DEF Current
<1>5. pc'[w] = "locked" /\ seqLock'[a] = w /\ staged'[w] = None
  BY <1>1, <1>2 DEF IInv, TypeOK, StagedIsNext
<1>6. \A v \in Worker \ {w} : \A b \in Account : seqLock[b] = v => seqLock'[b] = v
  BY <1>1, <1>2, NoneAssumption DEF IInv, TypeOK
<1>7. \A v \in Worker \ {w} : /\ pc'[v] = pc[v] /\ job'[v] = job[v] /\ at'[v] = at[v]
                              /\ staged'[v] = staged[v]
  BY <1>1 DEF IInv, TypeOK
<1>8. DenseFeed' /\ AccountsFirst' /\ LockHeld' /\ StagedIsNext'
  <2>1. Current(w)'.account = a
    BY <1>4
  <2> HIDE DEF a
  <2> QED BY <1>1, <1>2, <1>5, <1>6, <1>7, <2>1, OneHandler
<1> QED BY <1>3, <1>8 DEF IInv

\* A handler that holds its lock decides: it goes on to write, or it stages.
LEMMA StaysOpen ==
  ASSUME IInv, NEW w \in Worker, pc[w] \in {"locked", "checked"},
         NEW p \in {"checked", "staged"}, NEW s,
         pc' = [pc EXCEPT ![w] = p], staged' = [staged EXCEPT ![w] = s],
         p = "checked" => s = None,
         p = "staged" => /\ s \in Staged
                         /\ s.change = None => s.seq = seqRow[Current(w).account] /\ s.row = None
                         /\ s.change # None => /\ s.seq = seqRow[Current(w).account] + 1
                                               /\ s.change.seq = s.seq /\ s.row \in Row,
         seqLock' = seqLock \/ seqLock' = [seqLock EXCEPT ![Current(w).account] = w],
         UNCHANGED <<accounts, devices, seqRow, rows, feed, processed, job, at, replies, pullVars>>
  PROVE  IInv'
<1> DEFINE a == Current(w).account
<1>1. a \in Account /\ a \in accounts /\ seqLock[a] = w
  BY CurrentType DEF IInv, AccountsFirst, LockHeld
<1>2. seqLock' = seqLock
  BY <1>1 DEF IInv, TypeOK
<1>3. TypeOK'
  BY <1>2 DEF IInv, TypeOK, pullVars
<1>4. Current(w)' = Current(w)
  BY DEF Current
<1>5. pc'[w] = p /\ staged'[w] = s
  BY DEF IInv, TypeOK
<1>6. \A v \in Worker \ {w} : /\ pc'[v] = pc[v] /\ job'[v] = job[v] /\ at'[v] = at[v]
                              /\ staged'[v] = staged[v]
                              /\ \A b \in Account : seqLock[b] = v => seqLock'[b] = v
  BY <1>2 DEF IInv, TypeOK
<1>7. Current(w)'.account = a
  BY <1>4
<1>8. DenseFeed' /\ AccountsFirst' /\ LockHeld' /\ StagedIsNext'
  <2> HIDE DEF a
  <2> QED BY <1>1, <1>2, <1>5, <1>6, <1>7, OneHandler DEF a
<1> QED BY <1>3, <1>8 DEF IInv

\* An answer without a write is a Staged record that leaves the sequence alone.
LEMMA StageAnswerType ==
  ASSUME TypeOK, NEW w \in Worker, pc[w] # "idle", NEW ack \in Ack
  PROVE  [seq |-> seqRow[Current(w).account], row |-> None, change |-> None, ack |-> ack] \in Staged
BY CurrentType DEF TypeOK, Staged

LEMMA checkCurrentStateIInv ==
  ASSUME IInv, NEW w \in Worker, checkCurrentState(w)
  PROVE  IInv'
<1>1. /\ pc[w] = "locked"
      /\ UNCHANGED <<accounts, devices, seqRow, seqLock, rows, feed, processed, job, at, replies,
                     pullVars>>
  BY DEF checkCurrentState, dbVars
<1>2. CASE validateCurrentState(Current(w))
  <2>1. pc' = [pc EXCEPT ![w] = "checked"] /\ staged' = staged
    BY <1>2 DEF checkCurrentState
  <2>2. staged' = [staged EXCEPT ![w] = None]
    BY <1>1, <2>1 DEF IInv, TypeOK, StagedIsNext
  <2> QED BY <1>1, <2>1, <2>2, StaysOpen
<1>3. CASE ~validateCurrentState(Current(w))
  <2>1. StageAnswer(w, Rejected) /\ Rejected \in Ack
    BY <1>3 DEF checkCurrentState, Rejected, Ack
  <2> DEFINE s == [seq |-> seqRow[Current(w).account], row |-> None, change |-> None,
                   ack |-> Rejected]
  <2>2. s \in Staged /\ s.change = None /\ s.seq = seqRow[Current(w).account] /\ s.row = None
    BY <1>1, <2>1, StageAnswerType DEF IInv
  <2>3. pc' = [pc EXCEPT ![w] = "staged"] /\ staged' = [staged EXCEPT ![w] = s]
    BY <2>1 DEF StageAnswer
  <2> HIDE DEF s
  <2> QED BY <1>1, <2>2, <2>3, StaysOpen
<1> QED BY <1>2, <1>3

LEMMA rejectAtWriteIInv ==
  ASSUME IInv, NEW w \in Worker, rejectAtWrite(w)
  PROVE  IInv'
<1>1. /\ pc[w] = "checked" /\ StageAnswer(w, Rejected)
      /\ seqLock' = [seqLock EXCEPT ![Current(w).account] = w]
      /\ UNCHANGED <<accounts, devices, seqRow, rows, feed, processed, job, at, replies, pullVars>>
  BY DEF rejectAtWrite
<1> DEFINE s == [seq |-> seqRow[Current(w).account], row |-> None, change |-> None,
                 ack |-> Rejected]
<1>2. s \in Staged /\ s.change = None /\ s.seq = seqRow[Current(w).account] /\ s.row = None
  BY <1>1, StageAnswerType DEF IInv, Rejected, Ack
<1>3. pc' = [pc EXCEPT ![w] = "staged"] /\ staged' = [staged EXCEPT ![w] = s]
  BY <1>1 DEF StageAnswer
<1> HIDE DEF s
<1> QED BY <1>1, <1>2, <1>3, StaysOpen

\* What the upsert leaves in the row is a payload, and its number is the drawn one.
LEMMA WriteType ==
  ASSUME TypeOK, NEW w \in Worker, pc[w] # "idle", NEW n \in Nat
  PROVE  writeSnapshot(Current(w), n) \in Row
<1> DEFINE m == Current(w)
<1>1. m.account \in Account /\ m.id \in Id /\ m.body \in Body
  BY CurrentType
<1>2. CASE m.body.type = "part_type" /\ Exists(m.account, m.id, "part_type")
  <2>1. rows[m.account][m.id] \in Row
    BY <1>1, <1>2 DEF TypeOK, Exists
  <2>2. [m.body EXCEPT !.code = rows[m.account][m.id].body.code] \in Body
    BY <1>1, <2>1 DEF Row, Body
  <2> QED BY <1>2, <2>2 DEF writeSnapshot, Row
<1>3. CASE ~(m.body.type = "part_type" /\ Exists(m.account, m.id, "part_type"))
  BY <1>1, <1>3 DEF writeSnapshot, Row
<1> QED BY <1>2, <1>3

LEMMA StageAppliedIInv ==
  ASSUME IInv, NEW w \in Worker, pc[w] = "checked", StageApplied(w),
         UNCHANGED <<accounts, devices, seqRow, rows, feed, processed, job, at, replies, pullVars>>
  PROVE  IInv'
<1> DEFINE m == Current(w)
           n == seqRow[m.account] + 1
           r == writeSnapshot(m, n)
           c == [seq |-> n, id |-> m.id, body |-> canonicalPayload(m, r)]
           s == [seq |-> n, row |-> r, change |-> c, ack |-> [status |-> "applied", seq |-> n]]
<1>1. m.account \in Account /\ m.id \in Id /\ n \in Nat
  BY CurrentType DEF IInv, TypeOK
<1>2. r \in Row
  BY <1>1, WriteType DEF IInv
<1>3. c \in Change /\ c.seq = n /\ c # None
  <2>1. r.body \in Body
    BY <1>2 DEF Row
  <2>2. c \in Change
    BY <1>1, <2>1 DEF Change, canonicalPayload
  <2> QED BY <2>2, NoneAssumption
<1>4. [status |-> "applied", seq |-> n] \in Ack
  BY <1>1 DEF Ack
<1>5. s \in Staged /\ s.change = c /\ s.seq = n /\ s.row = r
  <2> HIDE DEF n, r, c
  <2> QED BY <1>1, <1>2, <1>3, <1>4 DEF Staged
<1>6. /\ pc' = [pc EXCEPT ![w] = "staged"] /\ staged' = [staged EXCEPT ![w] = s]
      /\ seqLock' = [seqLock EXCEPT ![Current(w).account] = w]
  BY DEF StageApplied
<1>7. n = seqRow[Current(w).account] + 1
  OBVIOUS
<1> HIDE DEF s, c, r, n, m
<1> QED BY <1>2, <1>3, <1>5, <1>6, <1>7, StaysOpen

LEMMA applyAppendOnlyMutationIInv ==
  ASSUME IInv, NEW w \in Worker, applyAppendOnlyMutation(w)
  PROVE  IInv'
<1> DEFINE m == Current(w)
<1>1. /\ pc[w] = "checked"
      /\ UNCHANGED <<accounts, devices, seqRow, rows, feed, processed, job, at, replies, pullVars>>
  BY DEF applyAppendOnlyMutation
<1>2. CASE Exists(m.account, m.id, "odometer_log")
  <2> DEFINE ack == [status |-> "duplicate", seq |-> rows[m.account][m.id].seq]
             s == [seq |-> seqRow[m.account], row |-> None, change |-> None, ack |-> ack]
  <2>1. rows[m.account][m.id] \in Row
    BY <1>1, <1>2, CurrentType DEF IInv, TypeOK, Exists
  <2>2. ack \in Ack
    BY <2>1 DEF Ack, Row
  <2>3. s \in Staged /\ s.change = None /\ s.seq = seqRow[Current(w).account] /\ s.row = None
    BY <1>1, <2>2, StageAnswerType DEF IInv
  <2>4. StageAnswer(w, ack) /\ seqLock' = seqLock
    BY <1>2 DEF applyAppendOnlyMutation
  <2>5. pc' = [pc EXCEPT ![w] = "staged"] /\ staged' = [staged EXCEPT ![w] = s]
    BY <2>4 DEF StageAnswer
  <2> HIDE DEF s
  <2> QED BY <1>1, <2>3, <2>4, <2>5, StaysOpen
<1>3. CASE ~Exists(m.account, m.id, "odometer_log")
  <2>1. StageApplied(w)
    BY <1>3 DEF applyAppendOnlyMutation
  <2> QED BY <1>1, <2>1, StageAppliedIInv
<1> QED BY <1>2, <1>3

LEMMA applyMutableMutationIInv ==
  ASSUME IInv, NEW w \in Worker, applyMutableMutation(w)
  PROVE  IInv'
<1>1. /\ pc[w] = "checked" /\ StageApplied(w)
      /\ UNCHANGED <<accounts, devices, seqRow, rows, feed, processed, job, at, replies, pullVars>>
  BY DEF applyMutableMutation
<1> QED BY <1>1, StageAppliedIInv

-----------------------------------------------------------------------------
(* COMMIT *)

\* Dense numbering of one account; the next number keeps it.
Dense(S, n) == {c.seq : c \in S} = 1 .. n /\ \A c, d \in S : c.seq = d.seq => c = d

LEMMA DenseNext ==
  ASSUME NEW S, NEW n \in Nat, Dense(S, n), NEW x, x.seq = n + 1
  PROVE  Dense(S \union {x}, n + 1)
<1>1. \A c \in S : c.seq \in 1 .. n
  BY DEF Dense
<1>2. {c.seq : c \in S \union {x}} = {c.seq : c \in S} \union {n + 1}
  OBVIOUS
<1>3. {c.seq : c \in S \union {x}} = 1 .. n + 1
  BY <1>2 DEF Dense
<1>4. \A c, d \in S \union {x} : c.seq = d.seq => c = d
  BY <1>1 DEF Dense
<1> QED BY <1>3, <1>4 DEF Dense

LEMMA PublishIInv ==
  ASSUME IInv, NEW w \in Worker, Publish(w), MovesOn(w)
  PROVE  IInv'
<1> DEFINE m == Current(w)
           a == m.account
           s == staged[w]
<1>1. pc[w] = "staged"
  BY DEF Publish
<1>2. /\ m \in Mutation /\ a \in Account /\ m.id \in Id /\ a \in accounts
      /\ seqLock[a] = w /\ seqRow[a] \in Nat
  BY <1>1, CurrentType DEF IInv, AccountsFirst, LockHeld, TypeOK
<1>3. /\ s \in Staged
      /\ s.change = None => s.seq = seqRow[a] /\ s.row = None
      /\ s.change # None => s.seq = seqRow[a] + 1 /\ s.change.seq = seqRow[a] + 1 /\ s.row \in Row
  BY <1>1 DEF IInv, StagedIsNext
<1>4. /\ processed' = [processed EXCEPT ![m] = s.ack]
      /\ seqRow' = [seqRow EXCEPT ![a] = s.seq]
      /\ seqLock' = Unlocked(w)
      /\ staged' = [staged EXCEPT ![w] = None]
      /\ UNCHANGED <<accounts, devices, pullVars>>
  BY DEF Publish
<1>5. s.change = None => rows' = rows /\ feed' = feed
  BY DEF Publish
<1>6. s.change # None => /\ feed' = [feed EXCEPT ![a] = @ \union {s.change}]
                         /\ rows' = [rows EXCEPT ![a][m.id] = s.row]
  BY DEF Publish
<1>7. s.ack \in Ack /\ s.seq \in Nat /\ (s.change # None => s.change \in Change)
  BY <1>3 DEF Staged
<1> HIDE DEF s
<1>8. TypeOK'
  <2>1. feed' \in [Account -> SUBSET Change] /\ rows' \in [Account -> [Id -> Row \union {None}]]
    <3>1. feed \in [Account -> SUBSET Change] /\ rows \in [Account -> [Id -> Row \union {None}]]
      BY DEF IInv, TypeOK
    <3>2. CASE s.change = None
      BY <1>5, <3>1, <3>2
    <3>3. CASE s.change # None
      <4> DEFINE A == feed[a] \union {s.change}
                 B == [rows[a] EXCEPT ![m.id] = s.row]
      <4>1. A \in SUBSET Change
        BY <1>2, <1>7, <3>1, <3>3
      <4>2. B \in [Id -> Row \union {None}]
        BY <1>2, <1>3, <3>1, <3>3
      <4>3. feed' = [feed EXCEPT ![a] = A] /\ rows' = [rows EXCEPT ![a] = B]
        BY <1>6, <3>3
      <4> HIDE DEF A, B
      <4> QED BY <1>2, <3>1, <4>1, <4>2, <4>3
    <3> QED BY <3>2, <3>3
  <2>3. seqRow' \in [Account -> Nat] /\ processed' \in [Mutation -> Ack \union {None}]
    BY <1>2, <1>4, <1>7 DEF IInv, TypeOK
  <2>4. seqLock' \in [Account -> Worker \union {None}]
    BY <1>4, UnlockedType DEF IInv
  <2>5. staged' \in [Worker -> Staged \union {None}]
    BY <1>4 DEF IInv, TypeOK
  <2> QED BY <1>4, <2>1, <2>3, <2>4, <2>5 DEF IInv, TypeOK, MovesOn, pullVars
<1>9. \A b \in Account \ {a} : feed'[b] = feed[b] /\ seqRow'[b] = seqRow[b]
  BY <1>2, <1>4, <1>5, <1>6 DEF IInv, TypeOK
<1>10. DenseFeed'
  <2> SUFFICES ASSUME NEW b \in Account PROVE Dense(feed'[b], seqRow'[b])
    BY DEF DenseFeed, Dense
  <2>1. Dense(feed[b], seqRow[b])
    BY DEF IInv, DenseFeed, Dense
  <2>2. CASE b # a
    BY <1>9, <2>1, <2>2
  <2>3. CASE b = a /\ s.change = None
    BY <1>2, <1>3, <1>4, <1>5, <2>1, <2>3 DEF IInv, TypeOK
  <2>4. CASE b = a /\ s.change # None
    <3>1. feed'[a] = feed[a] \union {s.change} /\ seqRow'[a] = seqRow[a] + 1
      BY <1>2, <1>3, <1>4, <1>6, <2>4 DEF IInv, TypeOK
    <3>2. s.change.seq = seqRow[a] + 1
      BY <1>3, <2>4
    <3> HIDE DEF a
    <3> QED BY <1>2, <2>1, <2>4, <3>1, <3>2, DenseNext
  <2> QED BY <2>2, <2>3, <2>4
<1>11. \A v \in Worker \ {w} : /\ pc'[v] = pc[v] /\ Current(v)' = Current(v)
                               /\ staged'[v] = staged[v]
  BY <1>4 DEF MovesOn, Current, IInv, TypeOK
<1>12. pc'[w] \notin {"locked", "checked", "staged"} /\ staged'[w] = None
  BY <1>4 DEF MovesOn, IInv, TypeOK
<1>13. pc'[w] # "idle" => Current(w)'.account \in accounts
  <2> SUFFICES ASSUME pc'[w] # "idle" PROVE Current(w)'.account \in accounts
    OBVIOUS
  <2>1. job'[w] = job[w] /\ at'[w] \in 1 .. Len(job[w])
    BY DEF MovesOn
  <2>2. Current(w)'.account = job[w][1].account
    BY <1>1, <2>1, CurrentType, BatchAssumption DEF IInv, Current
  <2>3. a = job[w][1].account
    BY <1>1, CurrentType DEF IInv
  <2> QED BY <1>2, <2>2, <2>3
<1>14. AccountsFirst'
  <2>1. \A v \in Worker : pc'[v] # "idle" => Current(v)'.account \in accounts
    BY <1>11, <1>13 DEF IInv, AccountsFirst
  <2>2. \A b \in Account : b \notin accounts => feed'[b] = {} /\ seqRow'[b] = 0
    BY <1>2, <1>9 DEF IInv, AccountsFirst
  <2> QED BY <1>4, <2>1, <2>2 DEF IInv, AccountsFirst
<1>15. \A v \in Worker \ {w} : pc[v] \in {"locked", "checked", "staged"} =>
          Current(v).account \in Account \ {a} /\ seqLock[Current(v).account] = v
  <2> SUFFICES ASSUME NEW v \in Worker \ {w}, pc[v] \in {"locked", "checked", "staged"}
               PROVE  Current(v).account \in Account \ {a} /\ seqLock[Current(v).account] = v
    OBVIOUS
  <2>1. Current(v).account \in Account /\ seqLock[Current(v).account] = v
    BY CurrentType DEF IInv, LockHeld
  <2> QED BY <1>2, <2>1
<1>16. LockHeld'
  <2> SUFFICES ASSUME NEW v \in Worker, pc'[v] \in {"locked", "checked", "staged"}
               PROVE  seqLock'[Current(v)'.account] = v
    BY DEF LockHeld
  <2>1. v # w
    BY <1>12
  <2> QED BY <1>4, <1>11, <1>15, <2>1, UnlockedType DEF IInv
<1>17. StagedIsNext'
  <2> SUFFICES ASSUME NEW v \in Worker
               PROVE  IF pc'[v] # "staged" THEN staged'[v] = None
                      ELSE LET t == staged'[v]
                               n == seqRow'[Current(v)'.account]
                           IN /\ t \in Staged
                              /\ t.change = None => t.seq = n /\ t.row = None
                              /\ t.change # None => t.seq = n + 1 /\ t.change.seq = n + 1 /\ t.row \in Row
    BY DEF StagedIsNext
  <2>1. CASE v = w
    BY <1>12, <2>1
  <2>2. CASE v # w
    <3>1. pc[v] = "staged" => seqRow'[Current(v)'.account] = seqRow[Current(v).account]
      BY <1>9, <1>11, <1>15, <2>2
    <3> HIDE DEF a, m
    <3> QED BY <1>11, <2>2, <3>1 DEF IInv, StagedIsNext
  <2> QED BY <2>1, <2>2
<1> QED BY <1>8, <1>10, <1>14, <1>16, <1>17 DEF IInv

LEMMA CommitIInv ==
  ASSUME IInv, NEW w \in Worker, Commit(w)
  PROVE  IInv'
<1>1. Publish(w) /\ Answer(w, staged[w].ack.status # "rejected", staged[w].ack.seq)
  BY DEF Commit
<1>2. pc[w] = "staged" /\ staged[w] \in Staged
  BY <1>1 DEF Publish, IInv, StagedIsNext
<1>3. staged[w].ack.seq \in Nat
  BY <1>2 DEF Staged, Ack
<1>4. MovesOn(w)
  BY <1>1, <1>2, <1>3, AnswerMovesOn DEF IInv
<1> QED BY <1>1, <1>4, PublishIInv

LEMMA CommitUnheardIInv ==
  ASSUME IInv, NEW w \in Worker, CommitUnheard(w)
  PROVE  IInv'
<1>1. Publish(w) /\ GiveUp(w) /\ pc[w] # "idle"
  BY DEF CommitUnheard, Publish
<1>2. MovesOn(w)
  BY <1>1, GiveUpMovesOn DEF IInv
<1> QED BY <1>1, <1>2, PublishIInv

-----------------------------------------------------------------------------
(* Accounts and devices *)

LEMMA RegisterDeviceIInv ==
  ASSUME IInv, NEW a \in Account, NEW d \in Device, RegisterDevice(a, d)
  PROVE  IInv'
<1>1. /\ a \in accounts /\ devices' = devices \union {<<a, d>>}
      /\ UNCHANGED <<accounts, seqRow, seqLock, rows, feed, processed, pc, job, at, staged,
                     replies, pullVars>>
  BY DEF RegisterDevice, pushVars
<1>2. TypeOK'
  BY <1>1 DEF IInv, TypeOK, pullVars
<1>3. \A v \in Worker : Current(v)' = Current(v)
  BY <1>1 DEF Current
<1>4. AccountsFirst'
  BY <1>1, <1>3 DEF IInv, AccountsFirst
<1>5. DenseFeed' /\ LockHeld' /\ StagedIsNext'
  BY <1>1, <1>3 DEF IInv, DenseFeed, LockHeld, StagedIsNext
<1> QED BY <1>2, <1>4, <1>5 DEF IInv

LEMMA CreateAccountIInv ==
  ASSUME IInv, NEW a \in Account, CreateAccount(a)
  PROVE  IInv'
<1> DEFINE n == Len(Seed[a])
           S == {[seq |-> i, id |-> Seed[a][i], body |-> SeedBody(a, i)] : i \in 1 .. n}
           R == [x \in Id |-> IF \E i \in 1 .. n : Seed[a][i] = x
                              THEN LET i == CHOOSE j \in 1 .. n : Seed[a][j] = x
                                   IN [body |-> SeedBody(a, i), seq |-> i]
                              ELSE None]
<1>1. /\ a \notin accounts /\ accounts' = accounts \union {a}
      /\ seqRow' = [seqRow EXCEPT ![a] = n] /\ feed' = [feed EXCEPT ![a] = S]
      /\ rows' = [rows EXCEPT ![a] = R]
      /\ UNCHANGED <<devices, seqLock, processed, pc, job, at, staged, replies, pullVars>>
  BY DEF CreateAccount, pushVars
<1>2. n \in Nat /\ \A i \in 1 .. n : Seed[a][i] \in Id
  BY SeedAssumption
<1>3. \A i \in 1 .. n : SeedBody(a, i) \in Body
  BY <1>2, ValueAssumption DEF SeedBody, Body, EntityType, MaybeId
<1>4. S \subseteq Change
  BY <1>2, <1>3 DEF Change
<1>5. R \in [Id -> Row \union {None}]
  <2> SUFFICES ASSUME NEW x \in Id PROVE R[x] \in Row \union {None}
    OBVIOUS
  <2>1. CASE \E i \in 1 .. n : Seed[a][i] = x
    <3> DEFINE k == CHOOSE j \in 1 .. n : Seed[a][j] = x
    <3>1. k \in 1 .. n
      BY <2>1
    <3>2. R[x] = [body |-> SeedBody(a, k), seq |-> k]
      BY <2>1
    <3>3. SeedBody(a, k) \in Body /\ k \in Nat
      BY <1>2, <1>3, <3>1
    <3> HIDE DEF k, R
    <3> QED BY <3>2, <3>3 DEF Row
  <2>2. CASE ~\E i \in 1 .. n : Seed[a][i] = x
    BY <2>2
  <2> QED BY <2>1, <2>2
<1>6. Dense(S, n)
  <2> DEFINE F(i) == [seq |-> i, id |-> Seed[a][i], body |-> SeedBody(a, i)]
  <2>1. \A i \in 1 .. n : F(i).seq = i /\ F(i) \in S
    OBVIOUS
  <2>2. \A c \in S : \E i \in 1 .. n : c = F(i)
    OBVIOUS
  <2> HIDE DEF F, S
  <2>3. \A c \in S : c.seq \in 1 .. n /\ c = F(c.seq)
    BY <2>1, <2>2
  <2>4. {c.seq : c \in S} = 1 .. n
    BY <2>1, <2>3
  <2> QED BY <2>3, <2>4 DEF Dense
<1> HIDE DEF S, R, n
<1>7. TypeOK'
  BY <1>1, <1>2, <1>4, <1>5 DEF IInv, TypeOK, pullVars
<1>8. DenseFeed'
  <2> SUFFICES ASSUME NEW b \in Account PROVE Dense(feed'[b], seqRow'[b])
    BY DEF DenseFeed, Dense
  <2>1. Dense(feed[b], seqRow[b])
    BY DEF IInv, DenseFeed, Dense
  <2> QED BY <1>1, <1>6, <2>1 DEF IInv, TypeOK
<1>9. \A v \in Worker : Current(v)' = Current(v)
  BY <1>1 DEF Current
<1>10. AccountsFirst'
  BY <1>1, <1>9 DEF IInv, AccountsFirst, TypeOK
<1>11. LockHeld'
  BY <1>1, <1>9 DEF IInv, LockHeld
<1>12. StagedIsNext'
  <2> SUFFICES ASSUME NEW v \in Worker
               PROVE  IF pc'[v] # "staged" THEN staged'[v] = None
                      ELSE LET t == staged'[v]
                               k == seqRow'[Current(v)'.account]
                           IN /\ t \in Staged
                              /\ t.change = None => t.seq = k /\ t.row = None
                              /\ t.change # None => t.seq = k + 1 /\ t.change.seq = k + 1 /\ t.row \in Row
    BY DEF StagedIsNext
  <2>1. pc[v] = "staged" => Current(v).account \in Account \ {a}
    BY <1>1, CurrentType DEF IInv, AccountsFirst
  <2>2. pc[v] = "staged" => seqRow'[Current(v)'.account] = seqRow[Current(v).account]
    BY <1>1, <1>9, <2>1 DEF IInv, TypeOK
  <2> QED BY <1>1, <1>9, <2>2 DEF IInv, StagedIsNext
<1> QED BY <1>7, <1>8, <1>10, <1>11, <1>12 DEF IInv

-----------------------------------------------------------------------------
(* Pulls *)

\* In a densely numbered set the first L changes between two cursors are those
\* up to a number that is known beforehand.
LEMMA FirstOfDense ==
  ASSUME NEW S, NEW n \in Nat, Dense(S, n), NEW after \in Nat, NEW bound \in Nat,
         after <= bound, bound <= n, NEW L \in Nat \ {0}
  PROVE  FirstChanges({c \in S : after < c.seq /\ c.seq <= bound}, L)
           = {c \in S : after < c.seq /\ c.seq <= SmallerOf(bound, after + L)}
<1> DEFINE found == {c \in S : after < c.seq /\ c.seq <= bound}
<1>1. \A c \in S : c.seq \in 1 .. n
  BY DEF Dense
<1>2. \A k \in 1 .. n : \E c \in S : c.seq = k
  BY DEF Dense
<1>3. \A c, d \in S : c.seq = d.seq => c = d
  BY DEF Dense
<1>4. ASSUME NEW c \in found
      PROVE  Cardinality({d \in found : d.seq < c.seq}) = c.seq - after - 1
  <2> DEFINE D == {d \in found : d.seq < c.seq}
             I == after + 1 .. c.seq - 1
             f == [d \in D |-> d.seq]
  <2>1. c.seq \in Nat /\ after < c.seq /\ c.seq <= bound
    BY <1>1
  <2>2. \A d \in D : d.seq \in I /\ d \in S
    BY <1>1, <2>1
  <2>3. \A k \in I : \E d \in D : d.seq = k
    <3> SUFFICES ASSUME NEW k \in I PROVE \E d \in D : d.seq = k
      OBVIOUS
    <3>1. k \in 1 .. n /\ after < k /\ k <= bound /\ k < c.seq
      BY <2>1
    <3>2. PICK d \in S : d.seq = k
      BY <1>2, <3>1
    <3> QED BY <3>1, <3>2
  <2> HIDE DEF D
  <2>4. f \in [D -> I]
    BY <2>2
  <2>5. \A d, e \in D : f[d] = f[e] => d = e
    BY <1>3, <2>2
  <2>6. \A k \in I : \E d \in D : f[d] = k
    BY <2>3
  <2> HIDE DEF f, I
  <2>7. f \in Bijection(D, I)
    BY <2>4, <2>5, <2>6, Fun_IsBij
  <2>8. ExistsBijection(I, D)
    BY <2>7, Fun_ExistsBijSymmetric DEF ExistsBijection
  <2>9. IsFiniteSet(I) /\ Cardinality(I) = c.seq - after - 1
    <3> DEFINE x == after + 1
               y == c.seq - 1
    <3>1. x \in Int /\ y \in Int /\ (IF x > y THEN 0 ELSE y - x + 1) = c.seq - after - 1
      BY <2>1
    <3>2. I = x .. y
      BY DEF I
    <3> HIDE DEF x, y
    <3> QED BY <3>1, <3>2, FS_Interval
  <2> QED BY <2>8, <2>9, FS_Bijection DEF D
<1>5. \A c \in found : c.seq \in Nat /\ after < c.seq /\ c.seq <= bound /\ c \in S
  BY <1>1
<1>6. \A c \in S : after < c.seq /\ c.seq <= SmallerOf(bound, after + L)
                     <=> c \in found /\ c.seq <= after + L
  BY <1>1 DEF SmallerOf
<1>7. \A c \in found : Cardinality({d \in found : d.seq < c.seq}) < L <=> c.seq <= after + L
  BY <1>4, <1>5
<1>8. FirstChanges(found, L) = {c \in found : c.seq <= after + L}
  <2> HIDE DEF found
  <2> QED BY <1>7 DEF FirstChanges
<1> HIDE DEF found
<1>9. FirstChanges(found, L) = {c \in S : after < c.seq /\ c.seq <= SmallerOf(bound, after + L)}
  BY <1>5, <1>6, <1>8
<1> QED BY <1>9 DEF found

\* Every cursor a pull handler holds is at or before the committed sequence.
PullsBehind ==
  /\ \A p \in Puller : pulling[p] # None =>
        /\ pulling[p].after <= pulling[p].bound
        /\ pulling[p].bound <= seqRow[pulling[p].account]
  /\ \A p \in Puller : page[p] # None => page[p].next <= seqRow[page[p].account]

\* A step that only adds to the feed and leaves the pulls alone.
LEMMA PullsStay ==
  ASSUME IInv, IInv', PullsBehind, PagesAreExact, UNCHANGED pullVars,
         \A a \in Account : feed[a] \subseteq feed'[a] /\ seqRow[a] <= seqRow'[a]
  PROVE  PullsBehind' /\ PagesAreExact'
<1>1. pulling' = pulling /\ page' = page
  BY DEF pullVars
<1>2. /\ \A p \in Puller : pulling[p] # None => /\ pulling[p].account \in Account
                                                /\ pulling[p].bound \in Nat
      /\ \A p \in Puller : page[p] # None => /\ page[p].account \in Account
                                             /\ page[p].next \in Nat
      /\ \A a \in Account : seqRow[a] \in Nat /\ seqRow'[a] \in Nat
  BY DEF IInv, TypeOK, Query, Page
<1>3. PullsBehind'
  BY <1>1, <1>2 DEF PullsBehind
<1>4. ASSUME NEW a \in Account, NEW n \in Nat, n <= seqRow[a], NEW k
      PROVE  {c \in feed'[a] : k < c.seq /\ c.seq <= n} = {c \in feed[a] : k < c.seq /\ c.seq <= n}
  <2>1. Dense(feed[a], seqRow[a]) /\ Dense(feed'[a], seqRow'[a])
    BY DEF IInv, DenseFeed, Dense
  <2>2. ASSUME NEW c \in feed'[a], c.seq <= n
        PROVE  c \in feed[a]
    <3>1. c.seq \in 1 .. seqRow'[a]
      BY <2>1 DEF Dense
    <3>2. c.seq \in 1 .. seqRow[a]
      BY <1>2, <1>4, <2>2, <3>1
    <3>3. PICK d \in feed[a] : d.seq = c.seq
      BY <2>1, <3>2 DEF Dense
    <3> QED BY <2>1, <3>3 DEF Dense
  <2> QED BY <2>2
<1>5. PagesAreExact'
  <2> SUFFICES ASSUME NEW p \in Puller, page[p] # None
               PROVE  LET g == page[p]
                      IN /\ g.changes = {c \in feed'[g.account] : g.after < c.seq /\ c.seq <= g.next}
                         /\ {c.seq : c \in g.changes} = g.after + 1 .. g.next
                         /\ g.more <=> g.next < g.bound
    BY <1>1 DEF PagesAreExact
  <2> QED BY <1>2, <1>4 DEF PagesAreExact, PullsBehind
<1> QED BY <1>3, <1>5

\* A step of a pull handler keeps the rest.
LEMMA OnlyPulls ==
  ASSUME IInv, UNCHANGED <<dbVars, pushVars, replies>>,
         pulling' \in [Puller -> Query \union {None}], page' \in [Puller -> Page \union {None}]
  PROVE  IInv'
<1>1. /\ accounts' = accounts /\ devices' = devices /\ seqRow' = seqRow /\ seqLock' = seqLock
      /\ rows' = rows /\ feed' = feed /\ processed' = processed /\ pc' = pc /\ job' = job
      /\ at' = at /\ staged' = staged /\ replies' = replies
  BY DEF dbVars, pushVars
<1>2. TypeOK' /\ DenseFeed'
  BY <1>1 DEF IInv, TypeOK, DenseFeed
<1>3. \A w \in Worker : Current(w)' = Current(w)
  BY <1>1 DEF Current
<1>4. AccountsFirst' /\ LockHeld' /\ StagedIsNext'
  BY <1>1, <1>3 DEF IInv, AccountsFirst, LockHeld, StagedIsNext
<1> QED BY <1>2, <1>4 DEF IInv

LEMMA PullReadBoundInv ==
  ASSUME IInv, PullsBehind, PagesAreExact, NEW p \in Puller, NEW a \in Account,
         NEW after \in 0 .. seqRow[a], NEW until \in 0 .. seqRow[a] + 1,
         PullReadBound(p, a, after, until)
  PROVE  IInv' /\ PullsBehind' /\ PagesAreExact'
<1> DEFINE q == [account |-> a, after |-> after, bound |-> SmallerOf(until, seqRow[a])]
<1>1. /\ after <= until /\ pulling' = [pulling EXCEPT ![p] = q]
      /\ UNCHANGED <<dbVars, pushVars, replies, page>>
  BY DEF PullReadBound
<1>2. /\ seqRow[a] \in Nat /\ q \in Query /\ q.account = a
      /\ q.after <= q.bound /\ q.bound <= seqRow[a]
  BY <1>1 DEF IInv, TypeOK, SmallerOf, Query
<1> HIDE DEF q
<1>3. IInv'
  BY <1>1, <1>2, OnlyPulls DEF IInv, TypeOK
<1>4. PullsBehind'
  BY <1>1, <1>2 DEF IInv, TypeOK, PullsBehind, dbVars
<1>5. PagesAreExact'
  BY <1>1 DEF PagesAreExact, dbVars
<1> QED BY <1>3, <1>4, <1>5

LEMMA PullListChangesInv ==
  ASSUME IInv, PullsBehind, PagesAreExact, NEW p \in Puller, PullListChanges(p)
  PROVE  IInv' /\ PullsBehind' /\ PagesAreExact'
<1> DEFINE q     == pulling[p]
           S     == feed[q.account]
           found == {c \in S : q.after < c.seq /\ c.seq <= q.bound}
           first == FirstChanges(found, PageLimit)
           next  == IF first = {} THEN q.after
                    ELSE (CHOOSE c \in first : \A d \in first : d.seq <= c.seq).seq
           g     == [account |-> q.account, after |-> q.after, bound |-> q.bound,
                     changes |-> first, next |-> next, more |-> found # first]
           k     == SmallerOf(q.bound, q.after + PageLimit)
<1>1. /\ q # None /\ page' = [page EXCEPT ![p] = g] /\ pulling' = [pulling EXCEPT ![p] = None]
      /\ UNCHANGED <<dbVars, pushVars, replies>>
  BY DEF PullListChanges
<1>2. /\ q \in Query /\ q.account \in Account /\ q.after \in Nat /\ q.bound \in Nat
      /\ seqRow[q.account] \in Nat /\ q.after <= q.bound /\ q.bound <= seqRow[q.account]
      /\ S \subseteq Change
  BY <1>1 DEF IInv, TypeOK, PullsBehind, Query
<1>3. Dense(S, seqRow[q.account])
  BY <1>2 DEF IInv, DenseFeed, Dense
<1>4. first = {c \in S : q.after < c.seq /\ c.seq <= k}
  BY <1>2, <1>3, FirstOfDense, LimitAssumption
<1>5. k \in Nat /\ q.after <= k /\ k <= q.bound /\ (k = q.after => q.after = q.bound)
  BY <1>2, LimitAssumption DEF SmallerOf
<1>6. \A c \in S : c.seq \in 1 .. seqRow[q.account]
  BY <1>3 DEF Dense
<1>7. \A i \in 1 .. seqRow[q.account] : \E c \in S : c.seq = i
  BY <1>3 DEF Dense
<1> HIDE DEF S, k, found, first
<1>8. next = k
  <2>1. CASE k = q.after
    <3>1. first = {}
      BY <1>2, <1>4, <1>6, <2>1
    <3> QED BY <2>1, <3>1
  <2>2. CASE k # q.after
    <3>1. k \in 1 .. seqRow[q.account] /\ q.after < k
      BY <1>2, <1>5, <2>2
    <3>2. PICK c \in S : c.seq = k
      BY <1>7, <3>1
    <3>3. c \in first
      BY <1>4, <1>5, <3>1, <3>2
    <3>4. \A d \in first : d.seq <= c.seq
      BY <1>4, <3>2
    <3> DEFINE e == CHOOSE x \in first : \A d \in first : d.seq <= x.seq
    <3>5. e \in first /\ \A d \in first : d.seq <= e.seq
      BY <3>3, <3>4
    <3>6. next = e.seq
      BY <3>3
    <3> HIDE DEF e, next
    <3>7. e.seq <= k /\ k <= e.seq /\ e.seq \in Nat
      BY <1>4, <1>6, <3>2, <3>3, <3>5
    <3> QED BY <1>5, <3>6, <3>7
  <2> QED BY <2>1, <2>2
<1>9. found # first <=> k < q.bound
  <2>1. CASE k = q.bound
    BY <1>2, <1>4, <2>1 DEF found
  <2>2. CASE k # q.bound
    <3>1. k < q.bound /\ q.bound \in 1 .. seqRow[q.account]
      BY <1>2, <1>5, <2>2
    <3>2. PICK c \in S : c.seq = q.bound
      BY <1>7, <3>1
    <3>3. c \in found /\ c \notin first
      BY <1>2, <1>4, <1>5, <3>1, <3>2 DEF found
    <3> QED BY <3>1, <3>3
  <2> QED BY <2>1, <2>2
<1>10. first \subseteq Change
  BY <1>2, <1>4
<1> HIDE DEF next
<1>11. /\ g \in Page /\ g.account = q.account /\ g.after = q.after /\ g.bound = q.bound
       /\ g.changes = first /\ g.next = k /\ (g.more <=> k < q.bound)
  BY <1>2, <1>5, <1>8, <1>9, <1>10 DEF Page
<1> HIDE DEF g
<1>12. IInv'
  BY <1>1, <1>11, OnlyPulls DEF IInv, TypeOK
<1>13. page'[p] = g /\ \A r \in Puller \ {p} : page'[r] = page[r]
  BY <1>1 DEF IInv, TypeOK
<1>14. feed' = feed /\ seqRow' = seqRow
  BY <1>1 DEF dbVars
<1>15. PullsBehind'
  <2>1. \A r \in Puller : pulling'[r] # None => pulling'[r] = pulling[r]
    BY <1>1 DEF IInv, TypeOK
  <2>2. k <= seqRow[q.account]
    BY <1>2, <1>5
  <2>3. \A r \in Puller : page'[r] # None => page'[r].next <= seqRow[page'[r].account]
    BY <1>11, <1>13, <2>2 DEF PullsBehind
  <2> QED BY <1>14, <2>1, <2>3 DEF PullsBehind
<1>16. {c.seq : c \in first} = q.after + 1 .. k
  <2>1. \A c \in first : c.seq \in q.after + 1 .. k
    BY <1>2, <1>4, <1>5, <1>6
  <2>2. \A i \in q.after + 1 .. k : \E c \in first : c.seq = i
    <3> SUFFICES ASSUME NEW i \in q.after + 1 .. k PROVE \E c \in first : c.seq = i
      OBVIOUS
    <3>1. i \in 1 .. seqRow[q.account] /\ q.after < i /\ i <= k
      BY <1>2, <1>5
    <3>2. PICK c \in S : c.seq = i
      BY <1>7, <3>1
    <3> QED BY <1>4, <3>1, <3>2
  <2> HIDE DEF q
  <2> QED BY <2>1, <2>2
<1>17. PagesAreExact'
  <2> SUFFICES ASSUME NEW r \in Puller, page'[r] # None
               PROVE  LET h == page'[r]
                      IN /\ h.changes = {c \in feed'[h.account] : h.after < c.seq /\ c.seq <= h.next}
                         /\ {c.seq : c \in h.changes} = h.after + 1 .. h.next
                         /\ h.more <=> h.next < h.bound
    BY DEF PagesAreExact
  <2>1. CASE r = p
    BY <1>4, <1>11, <1>13, <1>14, <1>16, <2>1 DEF S
  <2>2. CASE r # p
    BY <1>13, <1>14, <2>2 DEF PagesAreExact
  <2> QED BY <2>1, <2>2
<1> QED BY <1>12, <1>15, <1>17

-----------------------------------------------------------------------------
(* The theorems *)

\* Every step keeps the invariant; the steps other than pulls only add to the feed.
LEMMA StepIInv ==
  ASSUME IInv, PullsBehind, PagesAreExact, [Next]_vars
  PROVE  IInv' /\ PullsBehind' /\ PagesAreExact'
<1> DEFINE Grows == /\ UNCHANGED pullVars
                    /\ \A a \in Account : feed[a] \subseteq feed'[a] /\ seqRow[a] <= seqRow'[a]
<1>1. \A a \in Account : seqRow[a] \in Nat
  BY DEF IInv, TypeOK
<1>2. ASSUME UNCHANGED <<seqRow, feed, pullVars>> PROVE Grows
  BY <1>1, <1>2
<1>3. ASSUME NEW a \in Account, CreateAccount(a)
      PROVE  IInv' /\ Grows
  <2>1. /\ a \notin accounts /\ seqRow' = [seqRow EXCEPT ![a] = Len(Seed[a])]
        /\ \A b \in Account \ {a} : feed'[b] = feed[b]
        /\ UNCHANGED pullVars
    BY <1>3 DEF CreateAccount, IInv, TypeOK
  <2>2. feed[a] = {} /\ seqRow[a] = 0 /\ Len(Seed[a]) \in Nat
    BY <2>1, SeedAssumption DEF IInv, AccountsFirst
  <2> QED BY <1>1, <1>3, <2>1, <2>2, CreateAccountIInv DEF IInv, TypeOK
<1>4. ASSUME NEW w \in Worker, Publish(w)
      PROVE  Grows
  <2> DEFINE a == Current(w).account
  <2>1. /\ pc[w] = "staged" /\ seqRow' = [seqRow EXCEPT ![a] = staged[w].seq]
        /\ feed' = feed \/ feed' = [feed EXCEPT ![a] = @ \union {staged[w].change}]
        /\ UNCHANGED pullVars
    BY <1>4 DEF Publish
  <2>2. a \in Account /\ (staged[w].seq = seqRow[a] \/ staged[w].seq = seqRow[a] + 1)
    BY <2>1, CurrentType DEF IInv, StagedIsNext
  <2> HIDE DEF a
  <2> QED BY <1>1, <2>1, <2>2 DEF IInv, TypeOK
<1>5. ASSUME NEW w \in Worker, Work(w)
      PROVE  IInv' /\ Grows
  <2>1. CASE RejectInvalid(w)
    BY <1>2, <2>1, RejectInvalidIInv DEF RejectInvalid, dbVars
  <2>2. CASE LockAccountSequenceForUpdate(w)
    BY <1>2, <2>2, LockIInv DEF LockAccountSequenceForUpdate
  <2>3. CASE findProcessedResult(w)
    BY <1>2, <2>3, findProcessedResultIInv DEF findProcessedResult
  <2>4. CASE checkCurrentState(w)
    BY <1>2, <2>4, checkCurrentStateIInv DEF checkCurrentState, dbVars
  <2>5. CASE applyAppendOnlyMutation(w)
    BY <1>2, <2>5, applyAppendOnlyMutationIInv DEF applyAppendOnlyMutation
  <2>6. CASE applyMutableMutation(w)
    BY <1>2, <2>6, applyMutableMutationIInv DEF applyMutableMutation
  <2>7. CASE rejectAtWrite(w)
    BY <1>2, <2>7, rejectAtWriteIInv DEF rejectAtWrite
  <2>8. CASE rejectConstraint(w)
    BY <1>2, <2>8, rejectConstraintIInv DEF rejectConstraint
  <2>9. CASE Commit(w)
    BY <1>4, <2>9, CommitIInv DEF Commit
  <2> QED BY <1>5, <2>1, <2>2, <2>3, <2>4, <2>5, <2>6, <2>7, <2>8, <2>9 DEF Work
<1>6. CASE UNCHANGED vars
  <2>1. UNCHANGED <<dbVars, pushVars, replies>> /\ UNCHANGED pullVars
    BY <1>6 DEF vars
  <2>2. IInv'
    BY <2>1, OnlyPulls DEF pullVars, IInv, TypeOK
  <2> QED BY <1>2, <2>1, <2>2, PullsStay DEF dbVars
<1>7. ASSUME NEW a \in Account, NEW d \in Device, RegisterDevice(a, d)
      PROVE  IInv' /\ Grows
  BY <1>2, <1>7, RegisterDeviceIInv DEF RegisterDevice
<1>8. ASSUME NEW w \in Worker, NEW b \in Batch, Push(w, b)
      PROVE  IInv' /\ Grows
  BY <1>2, <1>8, PushIInv DEF Push, dbVars
<1>9. ASSUME NEW w \in Worker, CommitUnheard(w)
      PROVE  IInv' /\ Grows
  BY <1>4, <1>9, CommitUnheardIInv DEF CommitUnheard
<1>10. ASSUME NEW w \in Worker, Abort(w)
       PROVE  IInv' /\ Grows
  BY <1>2, <1>10, AbortIInv DEF Abort
<1>11. IInv' /\ Grows => IInv' /\ PullsBehind' /\ PagesAreExact'
  BY PullsStay
<1> HIDE DEF Grows
<1> QED
  BY <1>3, <1>5, <1>6, <1>7, <1>8, <1>9, <1>10, <1>11, PullReadBoundInv, PullListChangesInv
  DEF Next

LEMMA InitPulls == Init => PullsBehind /\ PagesAreExact
BY DEF Init, PullsBehind, PagesAreExact

\* What a pull may rely on, in every reachable state.
LEMMA Invariant == Spec => [](IInv /\ PullsBehind /\ PagesAreExact)
<1>1. Init => IInv /\ PullsBehind /\ PagesAreExact
  BY InitIInv, InitPulls
<1>2. (IInv /\ PullsBehind /\ PagesAreExact) /\ [Next]_vars => (IInv /\ PullsBehind /\ PagesAreExact)'
  BY StepIInv
<1> QED BY <1>1, <1>2, PTL DEF Spec

\* Every variable of the sync store keeps its type.
THEOREM TypeCorrect == Spec => []TypeOK
<1>1. IInv => TypeOK
  BY DEF IInv
<1> QED BY <1>1, Invariant, PTL

\* change_feed is numbered 1, 2, ..., current_seq without gap or repetition
\* (applyMutableMutation, applyAppendOnlyMutation, CreateAccount), for any
\* number of handlers that push, fail, retry and reject at once.
THEOREM FeedIsDense == Spec => []DenseFeed
<1>1. IInv => DenseFeed
  BY DEF IInv
<1> QED BY <1>1, Invariant, PTL

\* A page of GET /sync/pull (pull.go) holds every change between its cursors and
\* goes on doing so, though its two statements see two states of the feed.
THEOREM PullPagesAreExact == Spec => []PagesAreExact
BY Invariant, PTL

-----------------------------------------------------------------------------
(***************************************************************************)
(* The rules between rows, and what a client was told, for every number of *)
(* accounts, handlers and mutations.                                       *)
(*                                                                         *)
(* Each rule is checked before the write and must still hold when the      *)
(* write becomes visible.  It does because a transaction that holds the    *)
(* row lock of its account sees nobody else write there: what it found     *)
(* (Knows) stays true up to COMMIT.  Part types are the exception, their   *)
(* ids being unique over all accounts: two open transactions never write   *)
(* one id (InsertsApart).                                                  *)
(***************************************************************************)

\* Holding the lock; having written; having written a change.
Inside(w) == pc[w] \in {"locked", "checked", "staged"}
Wrote(w)  == IF pc[w] = "staged" THEN staged[w].change # None ELSE FALSE

\* Mutations that are refused whatever the rows hold
NeverApplied(m) == ~validateMutation(m) \/ (m.body.type # "odometer_log" /\ m.check = "unstorable")

\* Change n of an account is of row i.
Names(a, n, i) == \E c \in feed[a] : c.seq = n /\ c.id = i

-----------------------------------------------------------------------------
(* The rows *)

\* An account without a sign-up has nothing.
NewIsEmpty ==
  \A a \in Account \ accounts : /\ \A i \in Id : rows[a][i] = None
                                /\ \A m \in Mutation : m.account = a => processed[m] = None

\* A row has the type its id was made for.
TypesStay ==
  \A a \in Account : \A m \in Mutation :
    rows[a][m.id] # None => rows[a][m.id].body.type = m.body.type

-----------------------------------------------------------------------------
(* The answers *)

\* A recorded answer is a refusal, or names the change of its mutation.
AnswerFits(m, k) ==
  \/ k = Rejected
  \/ k.status # "rejected" /\ ~NeverApplied(m) /\ Names(m.account, k.seq, m.id)
AnswersFit == \A m \in Mutation : processed[m] # None => AnswerFits(m, processed[m])

\* What a client was told follows from what is recorded.
RepliesFollow ==
  \A r \in replies :
    IF r.ok
    THEN /\ processed[r.m] # None /\ processed[r.m].status # "rejected"
         /\ processed[r.m].seq = r.seq
    ELSE processed[r.m] = Rejected \/ NeverApplied(r.m)

-----------------------------------------------------------------------------
(* What a transaction knows *)

\* The row and the change are those of the mutation.
WriteFits(m, s) ==
  LET b == s.row.body
  IN /\ s.change.id = m.id /\ s.change.body = b /\ s.row.seq = s.change.seq
     /\ b.type = m.body.type /\ b.vehicle = m.body.vehicle /\ b.part = m.body.part
     /\ b.odo = m.body.odo /\ b.deleted = m.body.deleted
     /\ s.ack = [status |-> "applied", seq |-> s.seq]
     /\ ~NeverApplied(m)

\* A reading is only ever created.
ReadingIsNew(m) == m.body.type = "odometer_log" => rows[m.account][m.id] = None

Knows(w, m) ==
  /\ Inside(w) => validateMutation(m)
  /\ pc[w] \in {"checked", "staged"} => processed[m] = None
  /\ pc[w] = "checked" \/ Wrote(w) => validateCurrentState(m)
  /\ Wrote(w) => WriteFits(m, staged[w]) /\ ReadingIsNew(m) /\ ~ForeignPartType(m)
  /\ pc[w] = "staged" /\ ~Wrote(w) => /\ AnswerFits(m, staged[w].ack)
                                       /\ staged[w].ack.status # "applied"
AllKnow ==
  \A w \in Worker : pc[w] # "idle" => \A m \in Mutation : m = Current(w) => Knows(w, m)

\* Two transactions write a part type each.
InsertsApart ==
  \A v, w \in Worker : v # w /\ Wrote(v) /\ Wrote(w) /\ Current(w).body.type = "part_type" =>
    Current(v).id # Current(w).id

Rules == /\ RowIsLatestChange /\ OneActiveReminder /\ FuelReadingOfItsVehicle
         /\ ReferencesComeFirst /\ PartTypeHasOneOwner
RInv  == /\ NewIsEmpty /\ TypesStay /\ AnswersFit /\ RepliesFollow
         /\ AllKnow /\ InsertsApart /\ Rules
-----------------------------------------------------------------------------
(* Two transactions, and what another's step leaves alone *)

\* Two handlers that hold a lock work for two accounts.
LEMMA LocksApart ==
  ASSUME IInv, NEW v \in Worker, NEW w \in Worker, v # w, Inside(v), Inside(w)
  PROVE  Current(v).account # Current(w).account
BY DEF IInv, LockHeld, Inside

\* What has been written is typed.
LEMMA WroteType ==
  ASSUME IInv, NEW w \in Worker, pc[w] = "staged"
  PROVE  /\ staged[w] \in Staged /\ staged[w].ack \in Ack /\ staged[w].seq \in Nat
         /\ Wrote(w) => /\ staged[w].row \in Row /\ staged[w].change \in Change
                        /\ staged[w].change.seq = seqRow[Current(w).account] + 1
                        /\ staged[w].seq = staged[w].change.seq
<1>1. staged[w] \in Staged
  BY DEF IInv, StagedIsNext
<1> QED BY <1>1 DEF IInv, StagedIsNext, Staged, Wrote

LEMMA RowType ==
  ASSUME TypeOK, NEW a \in Account, NEW i \in Id, rows[a][i] # None
  PROVE  /\ rows[a][i] \in Row /\ rows[a][i].body \in Body /\ rows[a][i].seq \in Nat
         /\ rows[a][i].body.vehicle \in MaybeId /\ rows[a][i].body.part \in MaybeId
         /\ rows[a][i].body.odo \in MaybeId
<1>1. rows[a][i] \in Row
  BY DEF TypeOK
<1> QED BY <1>1 DEF Row, Body

LEMMA MutationType ==
  ASSUME NEW m \in Mutation
  PROVE  /\ m.account \in Account /\ m.id \in Id /\ m.body \in Body
         /\ m.body.vehicle \in MaybeId /\ m.body.part \in MaybeId /\ m.body.odo \in MaybeId
<1>1. m \in MutationShape
  BY MutationAssumption
<1> QED BY <1>1 DEF MutationShape, Body

\* A mutation is held against the rows of its account only.
LEMMA SameVerdict ==
  ASSUME NEW m \in Mutation, rows'[m.account] = rows[m.account]
  PROVE  validateCurrentState(m)' <=> validateCurrentState(m)
<1>1. ASSUME NEW i, NEW t PROVE Exists(m.account, i, t)' <=> Exists(m.account, i, t)
  BY DEF Exists
<1>2. ASSUME NEW o, NEW v PROVE OdometerOfVehicle(m.account, o, v)' <=> OdometerOfVehicle(m.account, o, v)
  BY DEF OdometerOfVehicle, Exists
<1>3. ActiveReminderConflict(m)' <=> ActiveReminderConflict(m)
  BY DEF ActiveReminderConflict, Exists
<1> QED BY <1>1, <1>2, <1>3 DEF validateCurrentState

\* An answer goes on naming a change.
LEMMA AnswerKeepsFitting ==
  ASSUME NEW m \in Mutation, feed[m.account] \subseteq feed'[m.account],
         NEW k \in Ack, AnswerFits(m, k)
  PROVE  AnswerFits(m, k)'
BY DEF AnswerFits, Names, NeverApplied, validateMutation, Rejected

\* What a handler knows outlasts the steps of others.
LEMMA KnowsStays ==
  ASSUME NEW v \in Worker, NEW m \in Mutation, Knows(v, m),
         pc'[v] = pc[v], staged'[v] = staged[v],
         pc[v] = "staged" => staged[v].ack \in Ack,
         Inside(v) => /\ rows'[m.account] = rows[m.account] /\ processed'[m] = processed[m]
                      /\ feed[m.account] \subseteq feed'[m.account],
         Wrote(v) /\ ForeignPartType(m)' => ForeignPartType(m)
  PROVE  Knows(v, m)'
<1>1. (Inside(v)' <=> Inside(v)) /\ (Wrote(v)' <=> Wrote(v))
  BY DEF Inside, Wrote
<1>2. Inside(v)' => validateMutation(m)'
  BY <1>1 DEF Knows, validateMutation
<1>3. pc'[v] \in {"checked", "staged"} => processed'[m] = None
  BY DEF Knows, Inside
<1>4. pc'[v] = "checked" \/ Wrote(v)' => validateCurrentState(m)'
  BY <1>1, SameVerdict DEF Knows, Inside, Wrote
<1>5. Wrote(v)' => WriteFits(m, staged[v])' /\ ReadingIsNew(m)' /\ ~ForeignPartType(m)'
  BY <1>1 DEF Knows, Inside, Wrote, WriteFits, ReadingIsNew, NeverApplied, validateMutation
<1>6. pc'[v] = "staged" /\ ~Wrote(v)' => /\ AnswerFits(m, staged[v].ack)'
                                          /\ staged'[v].ack.status # "applied"
  BY <1>1, AnswerKeepsFitting DEF Knows, Inside
<1> QED BY <1>1, <1>2, <1>3, <1>4, <1>5, <1>6 DEF Knows

-----------------------------------------------------------------------------
(* Steps that make nothing visible *)

\* Without a change of the database, what is left to show is what handler w
\* knows, that its insert is its own, and what it has answered.
LEMMA NothingVisible ==
  ASSUME IInv, RInv, NEW w \in Worker,
         UNCHANGED <<accounts, rows, feed, processed>>,
         \A v \in Worker \ {w} : /\ pc'[v] = pc[v] /\ job'[v] = job[v] /\ at'[v] = at[v]
                                 /\ staged'[v] = staged[v],
         pc'[w] # "idle" => \A m \in Mutation : m = Current(w)' => Knows(w, m)',
         Wrote(w)' => \A v \in Worker \ {w} :
           Wrote(v) /\ "part_type" \in {Current(w)'.body.type, Current(v).body.type} =>
             Current(v).id # Current(w)'.id,
         RepliesFollow'
  PROVE  RInv'
<1>1. \A v \in Worker \ {w} : Current(v)' = Current(v) /\ (Wrote(v)' <=> Wrote(v))
  BY DEF Current, Wrote
<1>2. NewIsEmpty' /\ TypesStay' /\ Rules'
  BY DEF RInv, NewIsEmpty, TypesStay, Rules, RowIsLatestChange, OneActiveReminder,
         FuelReadingOfItsVehicle, ReferencesComeFirst, PartTypeHasOneOwner, Exists
<1>3. AnswersFit'
  BY DEF RInv, AnswersFit, AnswerFits, Names, NeverApplied, validateMutation, Rejected
<1>4. AllKnow'
  <2> SUFFICES ASSUME NEW v \in Worker, pc'[v] # "idle", NEW m \in Mutation, m = Current(v)'
               PROVE  Knows(v, m)'
    BY DEF AllKnow
  <2>1. CASE v = w
    BY <2>1
  <2>2. CASE v # w
    <3>1. Knows(v, m) /\ pc'[v] = pc[v] /\ staged'[v] = staged[v]
      BY <1>1, <2>2 DEF RInv, AllKnow
    <3>2. pc[v] = "staged" => staged[v].ack \in Ack
      BY WroteType
    <3>3. ForeignPartType(m)' => ForeignPartType(m)
      BY DEF ForeignPartType, Exists
    <3> QED BY <3>1, <3>2, <3>3, KnowsStays
  <2> QED BY <2>1, <2>2
<1>5. InsertsApart'
  <2> SUFFICES ASSUME NEW v \in Worker, NEW u \in Worker, v # u, Wrote(v)', Wrote(u)',
                      Current(u)'.body.type = "part_type"
               PROVE  Current(v)'.id # Current(u)'.id
    BY DEF InsertsApart
  <2>1. CASE u # w /\ v # w
    BY <1>1, <2>1 DEF RInv, InsertsApart
  <2>2. CASE u = w
    BY <1>1, <2>2
  <2>3. CASE v = w
    BY <1>1, <2>3
  <2> QED BY <2>1, <2>2, <2>3
<1> QED BY <1>2, <1>3, <1>4, <1>5 DEF RInv

\* A reply that leaves its mutation as it is recorded
LEMMA ReplyFollows ==
  ASSUME RepliesFollow, NEW r, replies' = replies \union {r}, processed' = processed,
         IF r.ok
         THEN /\ processed[r.m] # None /\ processed[r.m].status # "rejected"
              /\ processed[r.m].seq = r.seq
         ELSE processed[r.m] = Rejected \/ NeverApplied(r.m)
  PROVE  RepliesFollow'
BY DEF RepliesFollow, NeverApplied, validateMutation, Rejected

\* A handler that is idle, or has yet to take its lock, knows nothing.
LEMMA KnowsNothing ==
  ASSUME NEW w \in Worker, NEW m \in Mutation, pc'[w] \in {"idle", "ready"}
  PROVE  Knows(w, m)' /\ ~Wrote(w)'
BY DEF Knows, Inside, Wrote

\* A handler answers or gives up without having written.
LEMMA QuietAnswer ==
  ASSUME IInv, RInv, NEW w \in Worker, pc[w] # "idle", MovesOn(w),
         UNCHANGED <<accounts, rows, feed, processed>>,
         \A v \in Worker \ {w} : staged'[v] = staged[v], RepliesFollow'
  PROVE  RInv'
<1>1. pc'[w] \in {"idle", "ready"}
  BY DEF MovesOn
<1>2. \A m \in Mutation : Knows(w, m)'
  BY <1>1, KnowsNothing
<1>3. ~Wrote(w)'
  BY <1>1 DEF Wrote
<1>4. \A v \in Worker \ {w} : /\ pc'[v] = pc[v] /\ job'[v] = job[v] /\ at'[v] = at[v]
                              /\ staged'[v] = staged[v]
  BY DEF MovesOn
<1> QED BY <1>2, <1>3, <1>4, NothingVisible

LEMMA PushRules ==
  ASSUME IInv, RInv, NEW w \in Worker, NEW b \in Batch, Push(w, b)
  PROVE  RInv'
<1>1. /\ pc' = [pc EXCEPT ![w] = "ready"] /\ job' = [job EXCEPT ![w] = b]
      /\ at' = [at EXCEPT ![w] = 1] /\ UNCHANGED <<dbVars, staged, replies>>
  BY DEF Push
<1>2. pc'[w] = "ready"
  BY <1>1 DEF IInv, TypeOK
<1>3. (\A m \in Mutation : Knows(w, m)') /\ ~Wrote(w)'
  BY <1>2, KnowsNothing DEF Wrote
<1>4. \A v \in Worker \ {w} : /\ pc'[v] = pc[v] /\ job'[v] = job[v] /\ at'[v] = at[v]
                              /\ staged'[v] = staged[v]
  BY <1>1 DEF IInv, TypeOK
<1>5. RepliesFollow'
  BY <1>1 DEF RInv, RepliesFollow, NeverApplied, validateMutation, Rejected, dbVars
<1> QED BY <1>1, <1>3, <1>4, <1>5, NothingVisible DEF dbVars

LEMMA RejectInvalidRules ==
  ASSUME IInv, RInv, NEW w \in Worker, RejectInvalid(w)
  PROVE  RInv'
<1>1. /\ pc[w] = "ready" /\ Answer(w, FALSE, 0) /\ ~validateMutation(Current(w))
      /\ UNCHANGED <<dbVars, staged>>
  BY DEF RejectInvalid
<1>2. MovesOn(w)
  BY <1>1, AnswerMovesOn DEF IInv
<1>3. replies' = replies \union {[m |-> Current(w), ok |-> FALSE, seq |-> 0]}
  BY <1>1 DEF Answer
<1>4. RepliesFollow'
  BY <1>1, <1>3, ReplyFollows DEF RInv, NeverApplied, dbVars
<1> QED BY <1>1, <1>2, <1>4, QuietAnswer DEF dbVars

LEMMA findProcessedResultRules ==
  ASSUME IInv, RInv, NEW w \in Worker, findProcessedResult(w)
  PROVE  RInv'
<1> DEFINE m == Current(w)
           k == processed[m]
<1>1. /\ pc[w] = "locked" /\ k # None /\ Answer(w, k.status # "rejected", k.seq)
      /\ UNCHANGED <<accounts, rows, feed, processed, staged>>
  BY DEF findProcessedResult
<1>2. m \in Mutation /\ k \in Ack
  BY <1>1, CurrentType DEF IInv, TypeOK
<1>3. MovesOn(w)
  BY <1>1, <1>2, AnswerMovesOn DEF IInv, Ack
<1>4. replies' = replies \union {[m |-> m, ok |-> k.status # "rejected", seq |-> k.seq]}
  BY <1>1 DEF Answer
<1>5. AnswerFits(m, k)
  BY <1>1, <1>2 DEF RInv, AnswersFit
<1>6. k.status = "rejected" => k = Rejected
  BY <1>5 DEF AnswerFits
<1>7. RepliesFollow'
  BY <1>1, <1>4, <1>6, ReplyFollows DEF RInv
<1> QED BY <1>1, <1>3, <1>7, QuietAnswer

LEMMA rejectConstraintRules ==
  ASSUME IInv, RInv, NEW w \in Worker, rejectConstraint(w)
  PROVE  RInv'
<1>1. /\ pc[w] = "checked" /\ Answer(w, FALSE, 0) /\ Current(w).body.type # "odometer_log"
      /\ Current(w).check = "unstorable"
      /\ UNCHANGED <<accounts, rows, feed, processed, staged>>
  BY DEF rejectConstraint
<1>2. MovesOn(w)
  BY <1>1, AnswerMovesOn DEF IInv
<1>3. replies' = replies \union {[m |-> Current(w), ok |-> FALSE, seq |-> 0]}
  BY <1>1 DEF Answer
<1>4. RepliesFollow'
  BY <1>1, <1>3, ReplyFollows DEF RInv, NeverApplied
<1> QED BY <1>1, <1>2, <1>4, QuietAnswer

LEMMA AbortRules ==
  ASSUME IInv, RInv, NEW w \in Worker, Abort(w)
  PROVE  RInv'
<1>1. /\ pc[w] # "idle" /\ GiveUp(w) /\ staged' = [staged EXCEPT ![w] = None]
      /\ UNCHANGED <<accounts, rows, feed, processed>>
  BY DEF Abort
<1>2. MovesOn(w) /\ replies' = replies
  BY <1>1, GiveUpMovesOn DEF IInv, GiveUp
<1>3. RepliesFollow'
  BY <1>1, <1>2 DEF RInv, RepliesFollow, NeverApplied, validateMutation, Rejected
<1>4. \A v \in Worker \ {w} : staged'[v] = staged[v]
  BY <1>1 DEF IInv, TypeOK
<1> QED BY <1>1, <1>2, <1>3, <1>4, QuietAnswer

-----------------------------------------------------------------------------
(* Steps of an open transaction *)

\* A handler takes its lock, finds something out or writes, and stays at m.
LEMMA GoesOn ==
  ASSUME IInv, RInv, NEW w \in Worker, NEW m \in Mutation, pc[w] # "idle", m = Current(w),
         NEW p \in {"locked", "checked", "staged"}, pc' = [pc EXCEPT ![w] = p],
         NEW s, staged' = [staged EXCEPT ![w] = s],
         UNCHANGED <<accounts, rows, feed, processed, job, at, replies>>,
         validateMutation(m), p # "locked" => processed[m] = None,
         p = "checked" => validateCurrentState(m),
         p = "staged" /\ s.change = None =>
           AnswerFits(m, s.ack) /\ s.ack \in Ack /\ s.ack.status # "applied",
         p = "staged" /\ s.change # None =>
           /\ validateCurrentState(m) /\ WriteFits(m, s) /\ ReadingIsNew(m)
           /\ ~ForeignPartType(m)
           /\ m.body.type = "part_type" => \A v \in Worker \ {w} : ~Writes(v, m.id)
  PROVE  RInv'
<1>1. /\ pc'[w] = p /\ staged'[w] = s /\ Current(w)' = m
      /\ \A v \in Worker \ {w} : /\ pc'[v] = pc[v] /\ job'[v] = job[v] /\ at'[v] = at[v]
                                 /\ staged'[v] = staged[v]
  BY DEF IInv, TypeOK, Current
<1>2. Wrote(w)' <=> p = "staged" /\ s.change # None
  BY <1>1 DEF Wrote
<1>3. Knows(w, m)'
  <2>1. validateMutation(m)' /\ (pc'[w] \in {"checked", "staged"} => processed'[m] = None)
    BY <1>1 DEF validateMutation
  <2>2. validateCurrentState(m)' <=> validateCurrentState(m)
    BY SameVerdict
  <2>3. Wrote(w)' => WriteFits(m, staged[w])' /\ ReadingIsNew(m)' /\ ~ForeignPartType(m)'
    BY <1>1, <1>2 DEF WriteFits, ReadingIsNew, NeverApplied, validateMutation, ForeignPartType,
                      Exists
  <2>4. pc'[w] = "staged" /\ ~Wrote(w)' => AnswerFits(m, s.ack)'
    BY <1>1, <1>2, AnswerKeepsFitting
  <2> QED BY <1>1, <1>2, <2>1, <2>2, <2>3, <2>4 DEF Knows
<1>4. ASSUME Wrote(w)', NEW v \in Worker \ {w}, Wrote(v),
             "part_type" \in {m.body.type, Current(v).body.type}, Current(v).id = m.id
      PROVE  FALSE
  <2>1. pc[v] # "idle" /\ Current(v) \in Mutation
    BY <1>4, CurrentType DEF IInv, Wrote
  <2>2. m.body.type = "part_type"
    BY <1>4, <2>1, MutationAssumption
  <2>3. Knows(v, Current(v))
    BY <2>1 DEF RInv, AllKnow
  <2>4. Writes(v, m.id)
    BY <1>4, <2>3 DEF Knows, WriteFits, Wrote, Writes
  <2> QED BY <1>2, <1>4, <2>2, <2>4
<1>5. RepliesFollow'
  BY DEF RInv, RepliesFollow, NeverApplied, validateMutation, Rejected
<1> QED BY <1>1, <1>3, <1>4, <1>5, NothingVisible

\* What a busy handler knows of its mutation
LEMMA KnowsCurrent ==
  ASSUME IInv, RInv, NEW w \in Worker, pc[w] # "idle"
  PROVE  Current(w) \in Mutation /\ Knows(w, Current(w))
<1>1. Current(w) \in Mutation
  BY CurrentType DEF IInv
<1> QED BY <1>1 DEF RInv, AllKnow

LEMMA LockRules ==
  ASSUME IInv, RInv, NEW w \in Worker, LockAccountSequenceForUpdate(w)
  PROVE  RInv'
<1>1. /\ pc[w] = "ready" /\ validateMutation(Current(w)) /\ pc' = [pc EXCEPT ![w] = "locked"]
      /\ UNCHANGED <<accounts, rows, feed, processed, job, at, staged, replies>>
  BY DEF LockAccountSequenceForUpdate
<1>2. staged' = [staged EXCEPT ![w] = None]
  BY <1>1 DEF IInv, TypeOK, StagedIsNext
<1>3. Current(w) \in Mutation
  BY <1>1, KnowsCurrent
<1> QED BY <1>1, <1>2, <1>3, GoesOn

\* A refusal is an answer that fits.
LEMMA RefusalFits ==
  ASSUME IInv, RInv, NEW w \in Worker, pc[w] \in {"locked", "checked"},
         StageAnswer(w, Rejected), processed[Current(w)] = None,
         UNCHANGED <<accounts, rows, feed, processed, job, at, replies>>
  PROVE  RInv'
<1> DEFINE m == Current(w)
           s == [seq |-> seqRow[m.account], row |-> None, change |-> None, ack |-> Rejected]
<1>1. pc' = [pc EXCEPT ![w] = "staged"] /\ staged' = [staged EXCEPT ![w] = s]
  BY DEF StageAnswer
<1>2. m \in Mutation /\ validateMutation(m)
  BY KnowsCurrent DEF Knows, Inside
<1>3. s.change = None /\ AnswerFits(m, s.ack) /\ s.ack \in Ack /\ s.ack.status # "applied"
  BY DEF AnswerFits, Rejected, Ack
<1> HIDE DEF s
<1> QED BY <1>1, <1>2, <1>3, GoesOn

LEMMA checkCurrentStateRules ==
  ASSUME IInv, RInv, NEW w \in Worker, checkCurrentState(w)
  PROVE  RInv'
<1>1. /\ pc[w] = "locked" /\ processed[Current(w)] = None
      /\ UNCHANGED <<accounts, rows, feed, processed, job, at, replies>>
  BY DEF checkCurrentState, dbVars
<1>2. CASE validateCurrentState(Current(w))
  <2>1. pc' = [pc EXCEPT ![w] = "checked"] /\ staged' = staged
    BY <1>2 DEF checkCurrentState
  <2>2. staged' = [staged EXCEPT ![w] = None]
    BY <1>1, <2>1 DEF IInv, TypeOK, StagedIsNext
  <2>3. Current(w) \in Mutation /\ validateMutation(Current(w))
    BY <1>1, KnowsCurrent DEF Knows, Inside
  <2> QED BY <1>1, <1>2, <2>1, <2>2, <2>3, GoesOn
<1>3. CASE ~validateCurrentState(Current(w))
  <2>1. StageAnswer(w, Rejected)
    BY <1>3 DEF checkCurrentState
  <2> QED BY <1>1, <2>1, RefusalFits
<1> QED BY <1>2, <1>3

LEMMA rejectAtWriteRules ==
  ASSUME IInv, RInv, NEW w \in Worker, rejectAtWrite(w)
  PROVE  RInv'
<1>1. /\ pc[w] = "checked" /\ StageAnswer(w, Rejected)
      /\ UNCHANGED <<accounts, rows, feed, processed, job, at, replies>>
  BY DEF rejectAtWrite
<1>2. processed[Current(w)] = None
  BY <1>1, KnowsCurrent DEF Knows
<1> QED BY <1>1, <1>2, RefusalFits

\* A write that passes the rules is what the handler then knows of it.
LEMMA StageAppliedRules ==
  ASSUME IInv, RInv, NEW w \in Worker, pc[w] = "checked", StageApplied(w),
         ~NeverApplied(Current(w)), ReadingIsNew(Current(w)), ~ForeignPartType(Current(w)),
         PartTypeInsertFree(w),
         UNCHANGED <<accounts, rows, feed, processed, job, at, replies>>
  PROVE  RInv'
<1> DEFINE m == Current(w)
           n == seqRow[m.account] + 1
           r == writeSnapshot(m, n)
           c == [seq |-> n, id |-> m.id, body |-> canonicalPayload(m, r)]
           s == [seq |-> n, row |-> r, change |-> c, ack |-> [status |-> "applied", seq |-> n]]
<1>1. m \in Mutation /\ m \in MutationShape /\ Knows(w, m) /\ n \in Nat
  BY KnowsCurrent, CurrentType DEF IInv, TypeOK
<1>2. pc' = [pc EXCEPT ![w] = "staged"] /\ staged' = [staged EXCEPT ![w] = s]
  BY DEF StageApplied
<1>3. /\ r.seq = n /\ r.body.type = m.body.type /\ r.body.vehicle = m.body.vehicle
      /\ r.body.part = m.body.part /\ r.body.odo = m.body.odo /\ r.body.deleted = m.body.deleted
  BY <1>1 DEF writeSnapshot, MutationShape, Body
<1>4. r \in Row
  BY <1>1, WriteType DEF IInv
<1>5. c # None
  <2>1. c \in Change
    BY <1>1, <1>4 DEF Change, canonicalPayload, Row, MutationShape
  <2> QED BY <2>1, NoneAssumption
<1> HIDE DEF n, r
<1>6. WriteFits(m, s)
  BY <1>3 DEF WriteFits, canonicalPayload
<1>7. s.change # None
  BY <1>5
<1>8. validateMutation(m) /\ processed[m] = None /\ validateCurrentState(m)
  BY <1>1 DEF Knows, Inside
<1>9. m.body.type = "part_type" => \A v \in Worker \ {w} : ~Writes(v, m.id)
  BY DEF PartTypeInsertFree
<1> HIDE DEF s, c
<1> QED BY <1>1, <1>2, <1>6, <1>7, <1>8, <1>9, GoesOn

LEMMA applyMutableMutationRules ==
  ASSUME IInv, RInv, NEW w \in Worker, applyMutableMutation(w)
  PROVE  RInv'
<1>1. /\ pc[w] = "checked" /\ Current(w).body.type # "odometer_log" /\ Current(w).check = "valid"
      /\ PartTypeInsertFree(w) /\ ~ForeignPartType(Current(w)) /\ StageApplied(w)
      /\ UNCHANGED <<accounts, rows, feed, processed, job, at, replies>>
  BY DEF applyMutableMutation
<1>2. validateMutation(Current(w))
  BY <1>1, KnowsCurrent DEF Knows, Inside
<1>3. ~NeverApplied(Current(w)) /\ ReadingIsNew(Current(w))
  BY <1>1, <1>2 DEF NeverApplied, ReadingIsNew
<1> QED BY <1>1, <1>3, StageAppliedRules

\* The row of an id is a change of the feed.
LEMMA RowIsNamed ==
  ASSUME RInv, NEW a \in Account, NEW i \in Id, rows[a][i] # None
  PROVE  Names(a, rows[a][i].seq, i)
<1> DEFINE history == {c \in feed[a] : c.id = i}
<1>1. IF history = {} THEN rows[a][i] = None
      ELSE \E c \in history : rows[a][i] = [body |-> c.body, seq |-> c.seq]
  BY DEF RInv, Rules, RowIsLatestChange
<1>2. PICK c \in history : rows[a][i] = [body |-> c.body, seq |-> c.seq]
  BY <1>1
<1> QED BY <1>2 DEF Names

LEMMA applyAppendOnlyMutationRules ==
  ASSUME IInv, RInv, NEW w \in Worker, applyAppendOnlyMutation(w)
  PROVE  RInv'
<1> DEFINE m == Current(w)
<1>1. /\ pc[w] = "checked" /\ m.body.type = "odometer_log"
      /\ UNCHANGED <<accounts, rows, feed, processed, job, at, replies>>
  BY DEF applyAppendOnlyMutation
<1>2. /\ m \in Mutation /\ m.account \in Account /\ m.id \in Id
      /\ validateMutation(m) /\ processed[m] = None
  BY <1>1, KnowsCurrent, MutationType DEF Knows, Inside
<1>3. ~NeverApplied(m)
  BY <1>1, <1>2 DEF NeverApplied
<1>4. CASE Exists(m.account, m.id, "odometer_log")
  <2> DEFINE ack == [status |-> "duplicate", seq |-> rows[m.account][m.id].seq]
             s == [seq |-> seqRow[m.account], row |-> None, change |-> None, ack |-> ack]
  <2>1. rows[m.account][m.id] # None
    BY <1>4 DEF Exists
  <2>2. ack \in Ack
    BY <1>2, <2>1, RowType DEF IInv, Ack
  <2>3. AnswerFits(m, ack)
    BY <1>2, <1>3, <2>1, RowIsNamed DEF AnswerFits
  <2>4. pc' = [pc EXCEPT ![w] = "staged"] /\ staged' = [staged EXCEPT ![w] = s]
    BY <1>4 DEF applyAppendOnlyMutation, StageAnswer
  <2>5. s.change = None /\ s.ack = ack /\ ack.status # "applied"
    OBVIOUS
  <2> HIDE DEF s, ack
  <2> QED BY <1>1, <1>2, <2>2, <2>3, <2>4, <2>5, GoesOn
<1>5. CASE ~Exists(m.account, m.id, "odometer_log")
  <2>1. StageApplied(w)
    BY <1>5 DEF applyAppendOnlyMutation
  <2>2. ReadingIsNew(m)
    BY <1>1, <1>2, <1>5 DEF ReadingIsNew, Exists, RInv, TypesStay
  <2>3. ~ForeignPartType(m) /\ PartTypeInsertFree(w)
    BY <1>1 DEF ForeignPartType, PartTypeInsertFree
  <2> QED BY <1>1, <1>3, <2>1, <2>2, <2>3, StageAppliedRules
<1> QED BY <1>4, <1>5

-----------------------------------------------------------------------------
(* What COMMIT makes visible *)

\* The write s of mutation m is visible, and nothing else is.
Written(m, s) ==
  /\ s.row \in Row /\ s.change \in Change /\ s.change.seq = seqRow[m.account] + 1
  /\ \A b \in Account : feed'[b] = IF b = m.account THEN feed[b] \union {s.change} ELSE feed[b]
  /\ \A b \in Account, i \in Id :
       rows'[b][i] = IF b = m.account /\ i = m.id THEN s.row ELSE rows[b][i]

LEMMA WriteTypesStay ==
  ASSUME TypesStay, NEW m \in Mutation, NEW s, Written(m, s), WriteFits(m, s)
  PROVE  TypesStay'
<1> SUFFICES ASSUME NEW a \in Account, NEW n \in Mutation, rows'[a][n.id] # None
             PROVE  rows'[a][n.id].body.type = n.body.type
  BY DEF TypesStay
<1>1. CASE a = m.account /\ n.id = m.id
  BY <1>1, MutationType, MutationAssumption DEF Written, WriteFits
<1>2. CASE ~(a = m.account /\ n.id = m.id)
  BY <1>2, MutationType DEF Written, TypesStay
<1> QED BY <1>1, <1>2

History(a, i) == {c \in feed[a] : c.id = i}

\* The last change of a row's history, for this row or the next
IsLatest(a, i) ==
  IF History(a, i) = {} THEN rows[a][i] = None
  ELSE \E c \in History(a, i) : /\ \A d \in History(a, i) : d.seq <= c.seq
                                /\ rows[a][i] = [body |-> c.body, seq |-> c.seq]

LEMMA WriteIsLatest ==
  ASSUME IInv, RowIsLatestChange, NEW m \in Mutation, NEW s, Written(m, s), WriteFits(m, s)
  PROVE  RowIsLatestChange'
<1> SUFFICES ASSUME NEW b \in Account, NEW i \in Id PROVE IsLatest(b, i)'
  BY DEF RowIsLatestChange, IsLatest, History
<1>1. CASE b = m.account /\ i = m.id
  <2>1. s.change \in History(b, i)'
    BY <1>1 DEF Written, WriteFits, History
  <2>2. \A d \in History(b, i)' : d.seq <= s.change.seq
    <3>1. seqRow[b] \in Nat /\ \A d \in feed[b] : d.seq \in 1 .. seqRow[b]
      BY DEF IInv, TypeOK, DenseFeed
    <3>2. feed'[b] = feed[b] \union {s.change} /\ s.change.seq = seqRow[b] + 1
      BY <1>1 DEF Written
    <3>3. \A d \in feed'[b] : d.seq <= seqRow[b] + 1
      BY <3>1, <3>2
    <3> QED BY <3>2, <3>3 DEF History
  <2>3. rows'[b][i] = s.row /\ s.row \in Row
    BY <1>1 DEF Written
  <2>4. s.row = [body |-> s.change.body, seq |-> s.change.seq]
    BY <2>3 DEF WriteFits, Row
  <2> QED BY <2>1, <2>2, <2>3, <2>4 DEF IsLatest
<1>2. CASE ~(b = m.account /\ i = m.id)
  <2>1. rows'[b][i] = rows[b][i]
    BY <1>2 DEF Written
  <2>2. History(b, i)' = History(b, i)
    BY <1>2 DEF Written, WriteFits, History
  <2>3. IsLatest(b, i)
    BY DEF RowIsLatestChange, IsLatest, History
  <2> QED BY <2>1, <2>2, <2>3 DEF IsLatest
<1> QED BY <1>1, <1>2

LEMMA WriteKeepsOneActive ==
  ASSUME OneActiveReminder, NEW m \in Mutation, NEW s, Written(m, s), WriteFits(m, s),
         validateCurrentState(m)
  PROVE  OneActiveReminder'
<1> SUFFICES ASSUME NEW a \in Account, NEW i \in Id, NEW j \in Id, i # j,
                    Exists(a, i, "reminder_config")', Exists(a, j, "reminder_config")',
                    rows'[a][i].body.vehicle = rows'[a][j].body.vehicle,
                    rows'[a][i].body.part = rows'[a][j].body.part
             PROVE  rows'[a][i].body.deleted \/ rows'[a][j].body.deleted
  BY DEF OneActiveReminder
<1>1. ~ActiveReminderConflict(m)
  BY DEF validateCurrentState
<1>2. CASE a # m.account \/ (i # m.id /\ j # m.id)
  BY <1>2 DEF OneActiveReminder, Written, Exists
<1>3. ASSUME NEW x \in Id, NEW y \in Id, x # y, a = m.account, x = m.id,
             Exists(a, x, "reminder_config")', Exists(a, y, "reminder_config")',
             rows'[a][x].body.vehicle = rows'[a][y].body.vehicle,
             rows'[a][x].body.part = rows'[a][y].body.part
      PROVE  rows'[a][x].body.deleted \/ rows'[a][y].body.deleted
  <2>1. rows'[a][x] = s.row /\ rows'[a][y] = rows[a][y]
    BY <1>3 DEF Written
  <2>2. Exists(a, y, "reminder_config") /\ m.body.type = "reminder_config"
    BY <1>3, <2>1 DEF Exists, WriteFits
  <2>3. /\ rows[a][y].body.vehicle = m.body.vehicle /\ rows[a][y].body.part = m.body.part
        /\ s.row.body.deleted = m.body.deleted
    BY <1>3, <2>1 DEF WriteFits
  <2> QED BY <1>1, <1>3, <2>1, <2>2, <2>3 DEF ActiveReminderConflict
<1> QED BY <1>2, <1>3

LEMMA WriteKeepsFuelReadings ==
  ASSUME IInv, FuelReadingOfItsVehicle, TypesStay, NEW m \in Mutation, NEW s, Written(m, s),
         WriteFits(m, s), validateCurrentState(m), ReadingIsNew(m)
  PROVE  FuelReadingOfItsVehicle'
<1> SUFFICES ASSUME NEW a \in Account, NEW i \in Id, NEW o, NEW v, Exists(a, i, "fuel_log")',
                    o = rows'[a][i].body.odo, v = rows'[a][i].body.vehicle, o # None
             PROVE  Exists(a, o, "odometer_log")' /\ rows'[a][o].body.vehicle = v
  BY DEF FuelReadingOfItsVehicle, Exists
<1>1. m.account \in Account /\ m.id \in Id
  BY MutationType
\* The log has its reading before this write, ...
<1>2. Exists(a, o, "odometer_log") /\ rows[a][o].body.vehicle = v /\ o \in Id
  <2>1. CASE a = m.account /\ i = m.id
    <3>1. rows'[a][i] = s.row
      BY <2>1 DEF Written
    <3>2. m.body.type = "fuel_log" /\ o = m.body.odo /\ v = m.body.vehicle
      BY <3>1 DEF Exists, WriteFits
    <3>3. OdometerOfVehicle(a, o, v)
      BY <2>1, <3>2 DEF validateCurrentState
    <3> QED BY <3>2, <3>3, MutationType DEF OdometerOfVehicle, MaybeId
  <2>2. CASE ~(a = m.account /\ i = m.id)
    <3>1. rows'[a][i] = rows[a][i]
      BY <2>2 DEF Written
    <3>2. Exists(a, i, "fuel_log") /\ rows[a][i] # None
      BY <3>1 DEF Exists
    <3> QED BY <3>1, <3>2, RowType DEF FuelReadingOfItsVehicle, IInv, MaybeId
  <2> QED BY <2>1, <2>2
\* ... which this write does not touch.
<1>3. ~(a = m.account /\ o = m.id)
  <2> SUFFICES ASSUME a = m.account, o = m.id PROVE FALSE
    OBVIOUS
  <2>1. rows[a][m.id] # None /\ rows[a][m.id].body.type = "odometer_log"
    BY <1>2 DEF Exists
  <2>2. m.body.type = "odometer_log"
    BY <1>1, <2>1 DEF TypesStay
  <2> QED BY <2>1, <2>2 DEF ReadingIsNew
<1>4. rows'[a][o] = rows[a][o]
  BY <1>2, <1>3 DEF Written
<1> QED BY <1>2, <1>4 DEF Exists

\* What a mutation refers to has a row when it is let through.
LEMMA ReferenceHasRow ==
  ASSUME NEW m \in Mutation, validateCurrentState(m),
         NEW r \in {m.body.vehicle, m.body.part, m.body.odo} \ {None}
  PROVE  r \in Id /\ rows[m.account][r] # None
<1>1. r \in Id
  BY MutationType DEF MaybeId
<1>2. CASE r = m.body.vehicle
  BY <1>1, <1>2, ReferenceAssumption DEF validateCurrentState, Exists
<1>3. CASE r = m.body.part
  BY <1>1, <1>3, ReferenceAssumption DEF validateCurrentState, Exists
<1>4. CASE r = m.body.odo
  BY <1>1, <1>4, ReferenceAssumption DEF validateCurrentState, OdometerOfVehicle, Exists
<1> QED BY <1>1, <1>2, <1>3, <1>4

LEMMA WriteKeepsOrder ==
  ASSUME IInv, RInv, NEW m \in Mutation, NEW s, Written(m, s), WriteFits(m, s),
         validateCurrentState(m)
  PROVE  ReferencesComeFirst'
<1> SUFFICES ASSUME NEW a \in Account, NEW c \in feed'[a],
                    NEW r \in {c.body.vehicle, c.body.part, c.body.odo} \ {None}
             PROVE  \E d \in feed'[a] : d.id = r /\ d.seq < c.seq
  BY DEF ReferencesComeFirst
<1>1. feed[a] \subseteq feed'[a]
  BY DEF Written
<1>2. CASE c \in feed[a]
  <2>1. PICK d \in feed[a] : d.id = r /\ d.seq < c.seq
    BY <1>2 DEF RInv, Rules, ReferencesComeFirst
  <2> QED BY <1>1, <2>1
<1>3. CASE c \notin feed[a]
  <2>1. a = m.account /\ c = s.change
    BY <1>3 DEF Written
  <2>2. r \in {m.body.vehicle, m.body.part, m.body.odo} \ {None}
    BY <2>1 DEF WriteFits
  <2>3. r \in Id /\ rows[a][r] # None
    BY <2>1, <2>2, ReferenceHasRow
  <2>4. PICK d \in feed[a] : d.id = r
    BY <2>3, RowIsNamed DEF Names
  <2>5. seqRow[a] \in Nat /\ d.seq \in 1 .. seqRow[a] /\ c.seq = seqRow[a] + 1
    BY <2>1 DEF IInv, TypeOK, DenseFeed, Written
  <2>6. d.seq < c.seq
    BY <2>5
  <2> QED BY <1>1, <2>4, <2>6
<1> QED BY <1>2, <1>3

LEMMA WriteKeepsOwner ==
  ASSUME PartTypeHasOneOwner, NEW m \in Mutation, NEW s, Written(m, s), WriteFits(m, s),
         ~ForeignPartType(m)
  PROVE  PartTypeHasOneOwner'
<1> SUFFICES ASSUME NEW i \in Id, NEW a \in Account, NEW b \in Account,
                    Exists(a, i, "part_type")', Exists(b, i, "part_type")'
             PROVE  a = b
  BY DEF PartTypeHasOneOwner
<1>1. ASSUME NEW x \in Account, Exists(x, i, "part_type")'
      PROVE  Exists(x, i, "part_type") \/ (x = m.account /\ i = m.id /\ m.body.type = "part_type")
  BY <1>1 DEF Exists, Written, WriteFits
<1> QED BY <1>1 DEF PartTypeHasOneOwner, ForeignPartType

\* COMMIT writes what is staged, if anything.
LEMMA PublishWrites ==
  ASSUME IInv, RInv, NEW w \in Worker, Publish(w), NEW m, m = Current(w)
  PROVE  /\ \A a \in Account : feed[a] \subseteq feed'[a]
         /\ \A a \in Account \ {m.account} : rows'[a] = rows[a]
         /\ IF Wrote(w)
            THEN /\ Written(m, staged[w])
                 /\ \A n : n = staged[w].seq => Names(m.account, n, m.id)'
            ELSE UNCHANGED <<rows, feed>>
<1>1. pc[w] = "staged" /\ m \in Mutation /\ m.account \in Account /\ m.id \in Id
  BY KnowsCurrent, MutationType DEF Publish
<1>2. CASE ~Wrote(w)
  BY <1>1, <1>2 DEF Wrote, Publish
<1>3. CASE Wrote(w)
  <2>1. /\ feed' = [feed EXCEPT ![m.account] = @ \union {staged[w].change}]
        /\ rows' = [rows EXCEPT ![m.account][m.id] = staged[w].row]
    BY <1>1, <1>3 DEF Wrote, Publish
  <2>2. /\ staged[w].row \in Row /\ staged[w].change \in Change
        /\ staged[w].change.seq = seqRow[m.account] + 1 /\ staged[w].seq = staged[w].change.seq
    BY <1>1, <1>3, WroteType
  <2>3. \A a \in Account :
          feed'[a] = IF a = m.account THEN feed[a] \union {staged[w].change} ELSE feed[a]
    BY <1>1, <2>1 DEF IInv, TypeOK
  <2>4. \A a \in Account \ {m.account} : rows'[a] = rows[a]
    BY <1>1, <2>1 DEF IInv, TypeOK
  <2>5. \A i \in Id : rows'[m.account][i] = IF i = m.id THEN staged[w].row ELSE rows[m.account][i]
    BY <1>1, <2>1 DEF IInv, TypeOK
  <2>6. Written(m, staged[w])
    BY <1>1, <2>2, <2>3, <2>4, <2>5 DEF Written
  <2>7. staged[w].change.id = m.id
    BY <1>1, <1>3, KnowsCurrent DEF Knows, WriteFits
  <2>8. \A n : n = staged[w].seq => Names(m.account, n, m.id)'
    BY <1>1, <2>2, <2>3, <2>7 DEF Names
  <2> QED BY <1>3, <2>3, <2>4, <2>6, <2>8
<1> QED BY <1>2, <1>3

LEMMA PublishKeepsRules ==
  ASSUME IInv, RInv, NEW w \in Worker, Publish(w)
  PROVE  TypesStay' /\ Rules'
<1> DEFINE m == Current(w)
<1>1. pc[w] = "staged" /\ m \in Mutation /\ Knows(w, m)
  BY KnowsCurrent DEF Publish
<1>2. CASE ~Wrote(w)
  <2>1. UNCHANGED <<rows, feed>>
    BY <1>2, PublishWrites
  <2> QED BY <2>1 DEF RInv, TypesStay, Rules, RowIsLatestChange, OneActiveReminder,
                      FuelReadingOfItsVehicle, ReferencesComeFirst, PartTypeHasOneOwner, Exists
<1>3. CASE Wrote(w)
  <2>1. Written(m, staged[w])
    BY <1>3, PublishWrites
  <2>2. /\ WriteFits(m, staged[w]) /\ ReadingIsNew(m) /\ ~ForeignPartType(m)
        /\ validateCurrentState(m)
    BY <1>1, <1>3 DEF Knows
  <2>3. TypesStay'
    BY <1>1, <2>1, <2>2, WriteTypesStay DEF RInv
  <2>4. RowIsLatestChange'
    BY <1>1, <2>1, <2>2, WriteIsLatest DEF RInv, Rules
  <2>5. OneActiveReminder'
    BY <1>1, <2>1, <2>2, WriteKeepsOneActive DEF RInv, Rules
  <2>6. FuelReadingOfItsVehicle'
    BY <1>1, <2>1, <2>2, WriteKeepsFuelReadings DEF RInv, Rules
  <2>7. ReferencesComeFirst'
    BY <1>1, <2>1, <2>2, WriteKeepsOrder
  <2>8. PartTypeHasOneOwner'
    BY <1>1, <2>1, <2>2, WriteKeepsOwner DEF RInv, Rules
  <2> QED BY <2>3, <2>4, <2>5, <2>6, <2>7, <2>8 DEF Rules
<1> QED BY <1>2, <1>3

\* The answer that COMMIT records fits, and what was told before remains true.
LEMMA PublishRecords ==
  ASSUME IInv, RInv, NEW w \in Worker, Publish(w), NEW m, m = Current(w), NEW k,
         k = staged[w].ack,
         \/ replies' = replies
         \/ replies' = replies \union {[m |-> m, ok |-> k.status # "rejected", seq |-> k.seq]}
  PROVE  AnswersFit' /\ RepliesFollow'
<1>1. pc[w] = "staged" /\ m \in Mutation /\ m.account \in Account /\ Knows(w, m)
  BY KnowsCurrent, MutationType DEF Publish
<1>2. k \in Ack /\ k # None
  BY <1>1, WroteType, NoneAssumption
<1>3. processed' = [processed EXCEPT ![m] = k]
  BY DEF Publish
<1>4. processed'[m] = k /\ \A n \in Mutation \ {m} : processed'[n] = processed[n]
  BY <1>1, <1>3 DEF IInv, TypeOK
<1>5. AnswerFits(m, k)'
  <2>1. CASE ~Wrote(w)
    <3>1. AnswerFits(m, k) /\ UNCHANGED feed
      BY <1>1, <2>1, PublishWrites DEF Knows
    <3> QED BY <1>1, <1>2, <3>1, AnswerKeepsFitting
  <2>2. CASE Wrote(w)
    <3>1. k = [status |-> "applied", seq |-> staged[w].seq] /\ ~NeverApplied(m)
      BY <1>1, <2>2 DEF Knows, WriteFits
    <3>2. k.seq = staged[w].seq
      BY <3>1
    <3>3. Names(m.account, k.seq, m.id)'
      BY <2>2, <3>2, PublishWrites
    <3> QED BY <3>1, <3>3 DEF AnswerFits, NeverApplied, validateMutation
  <2> QED BY <2>1, <2>2
<1>6. AnswersFit'
  <2> SUFFICES ASSUME NEW n \in Mutation, processed'[n] # None
               PROVE  AnswerFits(n, processed[n])'
    BY DEF AnswersFit
  <2>1. CASE n = m
    BY <1>4, <1>5, <2>1 DEF AnswerFits
  <2>2. CASE n # m
    <3> DEFINE l == processed[n]
    <3>1. processed'[n] = l /\ l # None /\ l \in Ack /\ n.account \in Account
      BY <1>4, <2>2, MutationType DEF IInv, TypeOK
    <3>2. AnswerFits(n, l) /\ feed[n.account] \subseteq feed'[n.account]
      BY <3>1, PublishWrites DEF RInv, AnswersFit
    <3>3. PICK x \in Ack : x = l
      BY <3>1
    <3>4. AnswerFits(n, x)'
      BY <3>2, <3>3, AnswerKeepsFitting
    <3> QED BY <3>1, <3>3, <3>4 DEF AnswerFits
  <2> QED BY <2>1, <2>2
<1>7. RepliesFollow'
  <2> SUFFICES ASSUME NEW r \in replies'
               PROVE  IF r.ok
                      THEN /\ processed'[r.m] # None /\ processed'[r.m].status # "rejected"
                           /\ processed'[r.m].seq = r.seq
                      ELSE processed'[r.m] = Rejected \/ NeverApplied(r.m)
    BY DEF RepliesFollow, Rejected, NeverApplied, validateMutation
  <2>1. CASE r \in replies
    <3>1. /\ r.m \in Mutation
          /\ IF r.ok
             THEN /\ processed[r.m] # None /\ processed[r.m].status # "rejected"
                  /\ processed[r.m].seq = r.seq
             ELSE processed[r.m] = Rejected \/ NeverApplied(r.m)
      BY <2>1 DEF RInv, RepliesFollow, IInv, TypeOK, Reply
    <3>2. processed[m] = None /\ None # Rejected
      BY <1>1, NoneAssumption DEF Knows, Rejected, Ack
    <3> QED BY <1>4, <3>1, <3>2
  <2>2. CASE r \notin replies
    <3>1. r.m = m /\ r.ok = (k.status # "rejected") /\ r.seq = k.seq
      BY <2>2
    <3>2. k.status = "rejected" => k = Rejected
      BY <1>5 DEF AnswerFits, Rejected
    <3> QED BY <1>2, <1>4, <3>1, <3>2
  <2> QED BY <2>1, <2>2
<1> QED BY <1>6, <1>7

\* What the others know outlasts the COMMIT of handler w.
LEMMA PublishLeavesOthers ==
  ASSUME IInv, RInv, NEW w \in Worker, Publish(w), MovesOn(w)
  PROVE  AllKnow' /\ InsertsApart'
<1> DEFINE m == Current(w)
<1>1. pc[w] = "staged" /\ Inside(w) /\ m \in Mutation /\ Knows(w, m)
  BY KnowsCurrent DEF Publish, Inside
<1>2. pc'[w] \in {"idle", "ready"}
  BY DEF MovesOn
<1>3. staged' = [staged EXCEPT ![w] = None] /\ processed' = [processed EXCEPT ![m] = staged[w].ack]
  BY DEF Publish
<1>4. \A v \in Worker \ {w} : /\ pc'[v] = pc[v] /\ staged'[v] = staged[v]
                              /\ Current(v)' = Current(v) /\ (Wrote(v)' <=> Wrote(v))
  BY <1>3 DEF MovesOn, IInv, TypeOK, Current, Wrote
<1>5. AllKnow'
  <2> SUFFICES ASSUME NEW v \in Worker, pc'[v] # "idle", NEW n \in Mutation, n = Current(v)'
               PROVE  Knows(v, n)'
    BY DEF AllKnow
  <2>1. CASE v = w
    BY <1>2, <2>1, KnowsNothing
  <2>2. CASE v # w
    <3>1. n = Current(v) /\ pc[v] # "idle" /\ Knows(v, n) /\ n.account \in Account /\ n.id \in Id
      BY <1>4, <2>2, MutationType DEF RInv, AllKnow
    <3>2. ASSUME Inside(v)
          PROVE  /\ rows'[n.account] = rows[n.account] /\ processed'[n] = processed[n]
                 /\ feed[n.account] \subseteq feed'[n.account]
      <4>1. n.account # m.account
        BY <1>1, <2>2, <3>1, <3>2, LocksApart
      <4> QED BY <1>1, <1>3, <3>1, <4>1, PublishWrites DEF IInv, TypeOK
    <3>3. ASSUME Wrote(v), ForeignPartType(n)' PROVE ForeignPartType(n)
      <4>1. PICK a \in Account \ {n.account} : Exists(a, n.id, "part_type")'
        BY <3>3 DEF ForeignPartType
      <4>2. n.body.type = "part_type"
        BY <3>3 DEF ForeignPartType
      <4>3. CASE Exists(a, n.id, "part_type")
        BY <4>2, <4>3 DEF ForeignPartType
      <4>4. CASE ~Exists(a, n.id, "part_type")
        <5>1. rows'[a][n.id] # rows[a][n.id]
          BY <4>1, <4>4 DEF Exists
        <5>2. Wrote(w) /\ n.id = m.id
          BY <3>1, <5>1, PublishWrites DEF Written
        <5> QED BY <2>2, <3>1, <3>3, <4>2, <5>2 DEF RInv, InsertsApart
      <4> QED BY <4>3, <4>4
    <3>4. pc[v] = "staged" => staged[v].ack \in Ack
      BY WroteType
    <3> QED BY <1>4, <2>2, <3>1, <3>2, <3>3, <3>4, KnowsStays
  <2> QED BY <2>1, <2>2
<1>6. InsertsApart'
  <2>1. ~Wrote(w)'
    BY <1>2 DEF Wrote
  <2> QED BY <1>4, <2>1 DEF RInv, InsertsApart
<1> QED BY <1>5, <1>6

LEMMA PublishRules ==
  ASSUME IInv, RInv, NEW w \in Worker, Publish(w), MovesOn(w),
         \/ replies' = replies
         \/ replies' = replies \union {[m |-> Current(w), ok |-> staged[w].ack.status # "rejected",
                                        seq |-> staged[w].ack.seq]}
  PROVE  RInv'
<1>1. NewIsEmpty'
  <2> DEFINE m == Current(w)
  <2>1. pc[w] = "staged" /\ m \in Mutation /\ m.account \in accounts
    BY KnowsCurrent DEF Publish, IInv, AccountsFirst
  <2>2. accounts' = accounts /\ processed' = [processed EXCEPT ![m] = staged[w].ack]
    BY DEF Publish
  <2>3. \A a \in Account \ accounts : rows'[a] = rows[a]
    BY <2>1, PublishWrites
  <2>4. \A n \in Mutation : n.account \notin accounts => processed'[n] = processed[n]
    BY <2>1, <2>2 DEF IInv, TypeOK
  <2> QED BY <2>2, <2>3, <2>4 DEF RInv, NewIsEmpty
<1>2. TypesStay' /\ Rules'
  BY PublishKeepsRules
<1>3. AnswersFit' /\ RepliesFollow'
  BY PublishRecords
<1>4. AllKnow' /\ InsertsApart'
  BY PublishLeavesOthers
<1> QED BY <1>1, <1>2, <1>3, <1>4 DEF RInv

LEMMA CommitRules ==
  ASSUME IInv, RInv, NEW w \in Worker, Commit(w) \/ CommitUnheard(w)
  PROVE  RInv'
<1>1. Publish(w) /\ pc[w] = "staged"
  BY DEF Commit, CommitUnheard, Publish
<1>2. CASE Commit(w)
  <2>1. staged[w].ack.seq \in Nat
    BY <1>1, WroteType DEF Ack
  <2>2. Answer(w, staged[w].ack.status # "rejected", staged[w].ack.seq)
    BY <1>2 DEF Commit
  <2>3. MovesOn(w)
    BY <1>1, <2>1, <2>2, AnswerMovesOn DEF IInv
  <2> QED BY <1>1, <2>2, <2>3, PublishRules DEF Answer
<1>3. CASE CommitUnheard(w)
  BY <1>1, <1>3, GiveUpMovesOn, PublishRules DEF CommitUnheard, GiveUp, IInv
<1> QED BY <1>2, <1>3

-----------------------------------------------------------------------------
(* A new account *)

\* Account a has its seeds, and nothing else; the others keep what they have.
Seeded(a) ==
  /\ \A i \in 1 .. Len(Seed[a]) : rows'[a][Seed[a][i]] = [body |-> SeedBody(a, i), seq |-> i]
  /\ \A x \in Id : rows'[a][x] = None \/ \E i \in 1 .. Len(Seed[a]) : x = Seed[a][i]
  /\ feed'[a] = {[seq |-> i, id |-> Seed[a][i], body |-> SeedBody(a, i)] : i \in 1 .. Len(Seed[a])}
  /\ \A b \in Account \ {a} : rows'[b] = rows[b] /\ feed'[b] = feed[b]

LEMMA CreateAccountSeeds ==
  ASSUME IInv, NEW a \in Account, CreateAccount(a)
  PROVE  Seeded(a) /\ feed[a] = {}
<1> DEFINE n == Len(Seed[a])
           place(x) == CHOOSE j \in 1 .. n : Seed[a][j] = x
           new == [x \in Id |-> IF \E i \in 1 .. n : Seed[a][i] = x
                                THEN LET i == place(x) IN [body |-> SeedBody(a, i), seq |-> i]
                                ELSE None]
<1>1. Seed[a] \in Seq(Id) /\ n \in Nat
  BY SeedAssumption
<1>2. /\ rows' = [rows EXCEPT ![a] = new] /\ a \notin accounts
      /\ feed' = [feed EXCEPT ![a] = {[seq |-> i, id |-> Seed[a][i], body |-> SeedBody(a, i)] :
                                        i \in 1 .. n}]
  BY DEF CreateAccount
<1>3. ASSUME NEW i \in 1 .. n
      PROVE  new[Seed[a][i]] = [body |-> SeedBody(a, i), seq |-> i]
  <2>1. Seed[a][i] \in Id
    BY <1>1
  <2>2. place(Seed[a][i]) \in 1 .. n /\ Seed[a][place(Seed[a][i])] = Seed[a][i]
    OBVIOUS
  <2>3. place(Seed[a][i]) = i
    BY <2>2, SeedAssumption
  <2> QED BY <2>1, <2>3
<1>4. \A x \in Id : new[x] = None \/ \E i \in 1 .. n : x = Seed[a][i]
  OBVIOUS
<1> HIDE DEF new, place
<1>5. rows'[a] = new /\ \A b \in Account \ {a} : rows'[b] = rows[b] /\ feed'[b] = feed[b]
  BY <1>2 DEF IInv, TypeOK
<1>6. feed'[a] = {[seq |-> i, id |-> Seed[a][i], body |-> SeedBody(a, i)] : i \in 1 .. n}
  BY <1>2 DEF IInv, TypeOK
<1> QED BY <1>2, <1>3, <1>4, <1>5, <1>6 DEF Seeded, IInv, AccountsFirst

\* A row that a new account brings is a part type among its seeds.
LEMMA SeedIsPartType ==
  ASSUME NEW a \in Account, Seeded(a), NEW b \in Account, NEW i \in Id, NEW t,
         Exists(b, i, t)'
  PROVE  \/ b # a /\ Exists(b, i, t)
         \/ b = a /\ t = "part_type" /\ \E j \in 1 .. Len(Seed[a]) : i = Seed[a][j]
<1>1. CASE b # a
  BY <1>1 DEF Exists, Seeded
<1>2. CASE b = a
  <2>1. PICK j \in 1 .. Len(Seed[a]) : i = Seed[a][j]
    BY <1>2 DEF Exists, Seeded
  <2>2. rows'[a][i] = [body |-> SeedBody(a, j), seq |-> j]
    BY <2>1 DEF Seeded
  <2> QED BY <1>2, <2>1, <2>2 DEF Exists, SeedBody
<1> QED BY <1>1, <1>2

LEMMA CreateAccountKeepsRules ==
  ASSUME IInv, RInv, NEW a \in Account, CreateAccount(a)
  PROVE  TypesStay' /\ Rules'
<1>1. Seeded(a)
  BY CreateAccountSeeds
<1>2. \A b \in Account \ {a} : rows'[b] = rows[b] /\ feed'[b] = feed[b]
  BY <1>1 DEF Seeded
<1>3. Len(Seed[a]) \in Nat /\ Seed[a] \in Seq(Id)
  BY SeedAssumption
<1>4. TypesStay'
  <2> SUFFICES ASSUME NEW b \in Account, NEW m \in Mutation, rows'[b][m.id] # None
               PROVE  rows'[b][m.id].body.type = m.body.type
    BY DEF TypesStay
  <2>1. CASE b = a
    <3>1. PICK j \in 1 .. Len(Seed[a]) : m.id = Seed[a][j]
      BY <1>1, <2>1, MutationType DEF Seeded
    <3>2. rows'[a][m.id].body.type = "part_type"
      <4>1. rows'[a][Seed[a][j]] = [body |-> SeedBody(a, j), seq |-> j]
        BY <1>1 DEF Seeded
      <4> QED BY <3>1, <4>1 DEF SeedBody
    <3> QED BY <2>1, <3>1, <3>2, SeedAssumption
  <2>2. CASE b # a
    BY <1>2, <2>2 DEF RInv, TypesStay
  <2> QED BY <2>1, <2>2
<1>5. RowIsLatestChange'
  <2> SUFFICES ASSUME NEW b \in Account, NEW x \in Id PROVE IsLatest(b, x)'
    BY DEF RowIsLatestChange, IsLatest, History
  <2>1. CASE b # a
    <3>1. IsLatest(b, x) /\ rows'[b] = rows[b] /\ feed'[b] = feed[b]
      BY <1>2, <2>1 DEF RInv, Rules, RowIsLatestChange, IsLatest, History
    <3> QED BY <3>1 DEF IsLatest, History
  <2>2. CASE b = a /\ \E i \in 1 .. Len(Seed[a]) : x = Seed[a][i]
    <3>1. PICK i \in 1 .. Len(Seed[a]) : x = Seed[a][i]
      BY <2>2
    <3> DEFINE c == [seq |-> i, id |-> x, body |-> SeedBody(a, i)]
    <3>2. c \in History(a, x)'
      BY <1>1, <3>1 DEF Seeded, History
    <3>3. \A d \in History(a, x)' : d.seq = i
      BY <1>1, <3>1, SeedAssumption DEF Seeded, History
    <3>4. rows'[a][x] = [body |-> c.body, seq |-> c.seq]
      BY <1>1, <3>1 DEF Seeded
    <3>5. c.seq = i
      OBVIOUS
    <3>6. \A d \in History(a, x)' : d.seq <= c.seq
      BY <3>3, <3>5
    <3> HIDE DEF c
    <3> QED BY <2>2, <3>2, <3>4, <3>6 DEF IsLatest
  <2>3. CASE b = a /\ ~\E i \in 1 .. Len(Seed[a]) : x = Seed[a][i]
    <3>1. History(a, x)' = {} /\ rows'[a][x] = None
      BY <1>1, <2>3 DEF Seeded, History
    <3> QED BY <2>3, <3>1 DEF IsLatest
  <2> QED BY <2>1, <2>2, <2>3
<1>6. OneActiveReminder'
  <2> SUFFICES ASSUME NEW b \in Account, NEW i \in Id, NEW j \in Id, i # j,
                      Exists(b, i, "reminder_config")', Exists(b, j, "reminder_config")',
                      rows'[b][i].body.vehicle = rows'[b][j].body.vehicle,
                      rows'[b][i].body.part = rows'[b][j].body.part
               PROVE  rows'[b][i].body.deleted \/ rows'[b][j].body.deleted
    BY DEF OneActiveReminder
  <2>1. b # a /\ Exists(b, i, "reminder_config") /\ Exists(b, j, "reminder_config")
    BY <1>1, SeedIsPartType
  <2> QED BY <1>2, <2>1 DEF RInv, Rules, OneActiveReminder
<1>7. FuelReadingOfItsVehicle'
  <2> SUFFICES ASSUME NEW b \in Account, NEW i \in Id, NEW o, NEW v, Exists(b, i, "fuel_log")',
                      o = rows'[b][i].body.odo, v = rows'[b][i].body.vehicle, o # None
               PROVE  Exists(b, o, "odometer_log")' /\ rows'[b][o].body.vehicle = v
    BY DEF FuelReadingOfItsVehicle, Exists
  <2>1. b # a /\ Exists(b, i, "fuel_log")
    BY <1>1, SeedIsPartType
  <2>2. rows'[b] = rows[b]
    BY <1>2, <2>1
  <2> QED BY <2>1, <2>2 DEF RInv, Rules, FuelReadingOfItsVehicle, Exists
<1>8. ReferencesComeFirst'
  <2> SUFFICES ASSUME NEW b \in Account, NEW c \in feed'[b],
                      NEW r \in {c.body.vehicle, c.body.part, c.body.odo} \ {None}
               PROVE  \E d \in feed'[b] : d.id = r /\ d.seq < c.seq
    BY DEF ReferencesComeFirst
  <2>1. b # a
    BY <1>1 DEF Seeded, SeedBody
  <2> QED BY <1>2, <2>1 DEF RInv, Rules, ReferencesComeFirst
<1>9. PartTypeHasOneOwner'
  <2> SUFFICES ASSUME NEW i \in Id, NEW b \in Account, NEW c \in Account,
                      Exists(b, i, "part_type")', Exists(c, i, "part_type")'
               PROVE  b = c
    BY DEF PartTypeHasOneOwner
  <2>1. \A j \in 1 .. Len(Seed[a]) : \A d \in Account : ~Exists(d, Seed[a][j], "part_type")
    BY DEF CreateAccount, SeedsFree
  <2> QED BY <1>1, <2>1, SeedIsPartType DEF RInv, Rules, PartTypeHasOneOwner
<1> QED BY <1>4, <1>5, <1>6, <1>7, <1>8, <1>9 DEF Rules

LEMMA CreateAccountRules ==
  ASSUME IInv, RInv, NEW a \in Account, CreateAccount(a)
  PROVE  RInv'
<1>1. Seeded(a) /\ feed[a] = {}
  BY CreateAccountSeeds
<1>2. /\ a \notin accounts /\ accounts' = accounts \union {a} /\ SeedsFree(a)
      /\ UNCHANGED <<processed, pc, job, at, staged, replies>>
  BY DEF CreateAccount, pushVars
<1>3. \A b \in Account : feed[b] \subseteq feed'[b] /\ (b # a => rows'[b] = rows[b])
  BY <1>1 DEF Seeded
<1>4. NewIsEmpty'
  BY <1>2, <1>3 DEF RInv, NewIsEmpty
<1>5. AnswersFit'
  <2> SUFFICES ASSUME NEW n \in Mutation, processed[n] # None
               PROVE  AnswerFits(n, processed[n])'
    BY <1>2 DEF AnswersFit
  <2>1. PICK k \in Ack : k = processed[n]
    BY DEF IInv, TypeOK
  <2>2. AnswerFits(n, k)'
    BY <1>3, <2>1, MutationType, AnswerKeepsFitting DEF RInv, AnswersFit
  <2> QED BY <1>2, <2>1, <2>2 DEF AnswerFits
<1>6. RepliesFollow'
  BY <1>2 DEF RInv, RepliesFollow, NeverApplied, validateMutation, Rejected
<1>7. AllKnow'
  <2> SUFFICES ASSUME NEW v \in Worker, pc'[v] # "idle", NEW n \in Mutation, n = Current(v)'
               PROVE  Knows(v, n)'
    BY DEF AllKnow
  <2>1. n = Current(v) /\ pc[v] # "idle" /\ Knows(v, n) /\ n.account \in Account /\ n.id \in Id
    BY <1>2, MutationType DEF Current, RInv, AllKnow
  <2>2. n.account # a
    BY <1>2, <2>1 DEF IInv, AccountsFirst
  <2>3. ASSUME Wrote(v), ForeignPartType(n)' PROVE ForeignPartType(n)
    <3>1. PICK b \in Account \ {n.account} : Exists(b, n.id, "part_type")'
      BY <2>3 DEF ForeignPartType
    <3>2. n.body.type = "part_type"
      BY <2>3 DEF ForeignPartType
    <3>3. Writes(v, n.id)
      BY <2>1, <2>3 DEF Knows, WriteFits, Wrote, Writes
    <3>4. \A i \in 1 .. Len(Seed[a]) : n.id # Seed[a][i]
      BY <1>2, <3>3 DEF SeedsFree
    <3>5. Exists(b, n.id, "part_type")
      BY <1>1, <2>1, <3>1, <3>4, SeedIsPartType
    <3> QED BY <3>2, <3>5 DEF ForeignPartType
  <2>4. pc[v] = "staged" => staged[v].ack \in Ack
    BY WroteType
  <2> QED BY <1>2, <1>3, <2>1, <2>2, <2>3, <2>4, KnowsStays
<1>8. InsertsApart'
  BY <1>2 DEF RInv, InsertsApart, Wrote, Current
<1> QED BY <1>4, <1>5, <1>6, <1>7, <1>8, CreateAccountKeepsRules DEF RInv

-----------------------------------------------------------------------------
(* The theorems *)

\* Steps of pulls and devices touch nothing of this.
LEMMA NothingMoves ==
  ASSUME IInv, RInv, UNCHANGED <<accounts, rows, feed, processed, pc, job, at, staged, replies>>
  PROVE  RInv'
<1>1. NewIsEmpty' /\ TypesStay' /\ Rules'
  BY DEF RInv, NewIsEmpty, TypesStay, Rules, RowIsLatestChange, OneActiveReminder,
         FuelReadingOfItsVehicle, ReferencesComeFirst, PartTypeHasOneOwner, Exists
<1>2. AnswersFit'
  BY DEF RInv, AnswersFit, AnswerFits, Names, NeverApplied, validateMutation, Rejected
<1>3. RepliesFollow'
  BY DEF RInv, RepliesFollow, NeverApplied, validateMutation, Rejected
<1>4. AllKnow'
  <2> SUFFICES ASSUME NEW v \in Worker, pc'[v] # "idle", NEW n \in Mutation, n = Current(v)'
               PROVE  Knows(v, n)'
    BY DEF AllKnow
  <2>1. Knows(v, n)
    BY DEF Current, RInv, AllKnow
  <2>2. pc[v] = "staged" => staged[v].ack \in Ack
    BY WroteType
  <2>3. ForeignPartType(n)' => ForeignPartType(n)
    BY DEF ForeignPartType, Exists
  <2> QED BY <2>1, <2>2, <2>3, KnowsStays
<1>5. InsertsApart'
  BY DEF RInv, InsertsApart, Wrote, Current
<1> QED BY <1>1, <1>2, <1>3, <1>4, <1>5 DEF RInv

LEMMA InitRules == Init => RInv
<1> SUFFICES ASSUME Init PROVE RInv
  OBVIOUS
<1>1. /\ \A a \in Account : feed[a] = {} /\ \A i \in Id : rows[a][i] = None
      /\ \A m \in Mutation : processed[m] = None
      /\ \A w \in Worker : pc[w] = "idle"
      /\ replies = {}
  BY DEF Init
<1>2. \A a \in Account, i \in Id : \A t : ~Exists(a, i, t)
  BY <1>1 DEF Exists
<1>3. NewIsEmpty /\ TypesStay /\ AnswersFit /\ RepliesFollow
  BY <1>1, MutationType DEF NewIsEmpty, TypesStay, AnswersFit, RepliesFollow
<1>4. AllKnow /\ InsertsApart
  BY <1>1 DEF AllKnow, InsertsApart, Wrote
<1>5. RowIsLatestChange /\ ReferencesComeFirst
  BY <1>1 DEF RowIsLatestChange, ReferencesComeFirst
<1>6. OneActiveReminder /\ FuelReadingOfItsVehicle /\ PartTypeHasOneOwner
  BY <1>2 DEF OneActiveReminder, FuelReadingOfItsVehicle, PartTypeHasOneOwner
<1> QED BY <1>3, <1>4, <1>5, <1>6 DEF RInv, Rules

LEMMA WorkRules ==
  ASSUME IInv, RInv, NEW w \in Worker, Work(w)
  PROVE  RInv'
BY RejectInvalidRules, LockRules, findProcessedResultRules, checkCurrentStateRules,
   applyAppendOnlyMutationRules, applyMutableMutationRules, rejectAtWriteRules,
   rejectConstraintRules, CommitRules
DEF Work

LEMMA StepRules ==
  ASSUME IInv, RInv, [Next]_vars
  PROVE  RInv'
<1>1. CASE UNCHANGED vars
  BY <1>1, NothingMoves DEF vars, dbVars, pushVars
<1>2. ASSUME NEW a \in Account, NEW d \in Device, RegisterDevice(a, d) PROVE RInv'
  BY <1>2, NothingMoves DEF RegisterDevice, pushVars
<1>3. ASSUME NEW p \in Puller, NEW a \in Account, NEW after, NEW until,
             PullReadBound(p, a, after, until)
      PROVE  RInv'
  BY <1>3, NothingMoves DEF PullReadBound, dbVars, pushVars
<1>4. ASSUME NEW p \in Puller, PullListChanges(p) PROVE RInv'
  BY <1>4, NothingMoves DEF PullListChanges, dbVars, pushVars
<1> QED
  BY <1>1, <1>2, <1>3, <1>4, CreateAccountRules, PushRules, WorkRules, CommitRules, AbortRules
  DEF Next

LEMMA RuleInvariant == Spec => [](IInv /\ RInv)
<1>1. Init => IInv /\ RInv /\ PullsBehind /\ PagesAreExact
  BY InitIInv, InitPulls, InitRules
<1>2. (IInv /\ RInv /\ PullsBehind /\ PagesAreExact) /\ [Next]_vars
        => (IInv /\ RInv /\ PullsBehind /\ PagesAreExact)'
  BY StepIInv, StepRules
<1> QED BY <1>1, <1>2, PTL DEF Spec

\* A row holds its latest change (writeSnapshot, canonicalPayload): replaying the feed
\* gives the server's tables, whatever was rejected, retried or rolled back.
THEOREM RowsAreLatestChanges == Spec => []RowIsLatestChange
<1>1. RInv => RowIsLatestChange
  BY DEF RInv, Rules
<1> QED BY <1>1, RuleInvariant, PTL

\* One active reminder for a vehicle and part type, however many devices create,
\* delete and undelete reminders at once (FindActiveReminderConflict).
THEOREM ActiveReminderIsOne == Spec => []OneActiveReminder
<1>1. RInv => OneActiveReminder
  BY DEF RInv, Rules
<1> QED BY <1>1, RuleInvariant, PTL

\* The reading of a fuel log is and remains one of its vehicle (OdometerLogVehicle).
THEOREM FuelReadingStays == Spec => []FuelReadingOfItsVehicle
<1>1. RInv => FuelReadingOfItsVehicle
  BY DEF RInv, Rules
<1> QED BY <1>1, RuleInvariant, PTL

\* Replay in the order of the feed never meets a reference to what comes later.
THEOREM ReferencesPrecede == Spec => []ReferencesComeFirst
<1>1. RInv => ReferencesComeFirst
  BY DEF RInv, Rules
<1> QED BY <1>1, RuleInvariant, PTL

\* A part type belongs to one account, though each account locks only its own
\* sequence (UpsertPartType, SeedAccountPartTypes).
THEOREM PartTypeOwnerIsOne == Spec => []PartTypeHasOneOwner
<1>1. RInv => PartTypeHasOneOwner
  BY DEF RInv, Rules
<1> QED BY <1>1, RuleInvariant, PTL

\* An answer of POST /sync/push is never taken back: an ACK names a change of the feed, and a
\* rejected mutation is never applied (findProcessedResult, InsertProcessedMutation).
THEOREM AnswersAreFinal == Spec => []RepliesHold
<1>1. IInv /\ RInv => RepliesHold
  <2> SUFFICES ASSUME IInv, RInv, NEW r \in replies
               PROVE  IF r.ok
                      THEN /\ processed[r.m] # None /\ processed[r.m].status # "rejected"
                           /\ processed[r.m].seq = r.seq
                           /\ \E c \in feed[r.m.account] : c.seq = r.seq /\ c.id = r.m.id
                      ELSE processed[r.m] = None \/ processed[r.m] = Rejected
    BY DEF RepliesHold
  <2>1. /\ r.m \in Mutation
        /\ IF r.ok
           THEN /\ processed[r.m] # None /\ processed[r.m].status # "rejected"
                /\ processed[r.m].seq = r.seq
           ELSE processed[r.m] = Rejected \/ NeverApplied(r.m)
    BY DEF RInv, RepliesFollow, IInv, TypeOK, Reply
  <2>2. processed[r.m] # None => AnswerFits(r.m, processed[r.m])
    BY <2>1 DEF RInv, AnswersFit
  <2> QED BY <2>1, <2>2 DEF AnswerFits, Names, Rejected
<1> QED BY <1>1, RuleInvariant, PTL
=============================================================================
