--------------------- MODULE SyncStoreRefinementProofs ---------------------
(***************************************************************************)
(* SyncStore implements ChangeLog, for every number of accounts, handlers  *)
(* and mutations: the state of each account maps to a log and its answers, *)
(* the initial state to the empty log, a sign-up to Open, COMMIT to Apply, *)
(* Find or Refuse, and every other step to a stutter.                      *)
(*                                                                         *)
(* The mapping reads back which mutation made change n.  That is a         *)
(* function because no number is given to two mutations (AppliedOnce).     *)
(***************************************************************************)
EXTENDS SyncStoreRefinement, SyncStoreProofs, SequenceTheorems

\* No number was given to two applied mutations.
AppliedOnce ==
  \A a \in Account : \A m, n \in AppliedTo(a) : processed[m].seq = processed[n].seq => m = n

-----------------------------------------------------------------------------
(* The log of n numbered changes F that mutations A made, with answers P *)

Entries(n, F, A, P) ==
  [i \in 1 .. n |->
     [id |-> (CHOOSE c \in F : c.seq = i).id,
      by |-> IF \E m \in A : P[m].seq = i THEN CHOOSE m \in A : P[m].seq = i ELSE None]]

Once(A, P) == \A m, n \in A : P[m].seq = P[n].seq => m = n

\* Entry i is the change with this number and the mutation with this answer, ...
LEMMA EntryOf ==
  ASSUME NEW n \in Nat, NEW F, NEW A, NEW P, Dense(F, n), Once(A, P),
         NEW i \in 1 .. n, NEW c \in F, c.seq = i, NEW m \in A, P[m].seq = i
  PROVE  Entries(n, F, A, P)[i] = [id |-> c.id, by |-> m]
<1>1. (CHOOSE d \in F : d.seq = i) = c
  BY DEF Dense
<1>2. (CHOOSE x \in A : P[x].seq = i) = m
  BY DEF Once
<1> QED BY <1>1, <1>2 DEF Entries

\* ... if there is one.
LEMMA EntryOfNone ==
  ASSUME NEW n \in Nat, NEW F, NEW A, NEW P, Dense(F, n),
         NEW i \in 1 .. n, NEW c \in F, c.seq = i, \A m \in A : P[m].seq # i
  PROVE  Entries(n, F, A, P)[i] = [id |-> c.id, by |-> None]
<1>1. (CHOOSE d \in F : d.seq = i) = c
  BY DEF Dense
<1> QED BY <1>1 DEF Entries

\* Later answers change no entry.
LEMMA SameEntries ==
  ASSUME NEW n \in Nat, NEW F, NEW A, NEW P, NEW Q, Dense(F, n), Once(A, P),
         \A m \in A : Q[m] = P[m]
  PROVE  Entries(n, F, A, Q) = Entries(n, F, A, P)
<1>1. Once(A, Q)
  BY DEF Once
<1>2. ASSUME NEW i \in 1 .. n
      PROVE  Entries(n, F, A, Q)[i] = Entries(n, F, A, P)[i]
  <2>1. PICK c \in F : c.seq = i
    BY DEF Dense
  <2>2. CASE \E m \in A : P[m].seq = i
    <3>1. PICK m \in A : P[m].seq = i
      BY <2>2
    <3>2. Entries(n, F, A, P)[i] = [id |-> c.id, by |-> m]
      BY <2>1, <3>1, EntryOf
    <3>3. Entries(n, F, A, Q)[i] = [id |-> c.id, by |-> m]
      BY <1>1, <2>1, <3>1, EntryOf
    <3> QED BY <3>2, <3>3
  <2>3. CASE ~\E m \in A : P[m].seq = i
    <3>1. Entries(n, F, A, P)[i] = [id |-> c.id, by |-> None]
      BY <2>1, <2>3, EntryOfNone
    <3>2. Entries(n, F, A, Q)[i] = [id |-> c.id, by |-> None]
      BY <1>1, <2>1, <2>3, EntryOfNone
    <3> QED BY <3>1, <3>2
  <2> QED BY <2>2, <2>3
<1> QED BY <1>2 DEF Entries

\* Change c of mutation m comes next: answers P become Q.
Extends(n, F, A, P, Q, c, m) ==
  /\ Dense(F, n) /\ Dense(F \union {c}, n + 1) /\ Once(A, P)
  /\ c.seq = n + 1 /\ m \notin A /\ Q[m].seq = n + 1
  /\ \A x \in A : P[x].seq \in 1 .. n /\ Q[x] = P[x]

\* The log of all of them is the log before with one entry more.
Appended(n, F, A, P, Q, c, m) ==
  Entries(n + 1, F \union {c}, A \union {m}, Q)
    = Append(Entries(n, F, A, P), [id |-> c.id, by |-> m])

LEMMA NextEntry ==
  ASSUME NEW n \in Nat, NEW F, NEW A, NEW P, NEW Q, NEW c, NEW m, Extends(n, F, A, P, Q, c, m)
  PROVE  Appended(n, F, A, P, Q, c, m)
<1> USE DEF Extends
<1> DEFINE old == Entries(n, F, A, P)
           new == Entries(n + 1, F \union {c}, A \union {m}, Q)
           e   == [id |-> c.id, by |-> m]
<1>1. Once(A \union {m}, Q)
  BY DEF Once
<1>2. new[n + 1] = e
  <2>1. PICK k : k = n + 1
    OBVIOUS
  <2>2. PICK G : G = F \union {c}
    OBVIOUS
  <2>3. PICK B : B = A \union {m}
    OBVIOUS
  <2>4. k \in Nat /\ k \in 1 .. k /\ Dense(G, k) /\ Once(B, Q)
    BY <1>1, <2>1, <2>2, <2>3
  <2>5. c \in G /\ c.seq = k /\ m \in B /\ Q[m].seq = k
    BY <2>1, <2>2, <2>3
  <2>6. Entries(k, G, B, Q)[k] = [id |-> c.id, by |-> m]
    BY <2>4, <2>5, EntryOf
  <2> QED BY <2>1, <2>2, <2>3, <2>6
<1>3. ASSUME NEW i \in 1 .. n PROVE new[i] = old[i]
  <2>1. PICK d \in F : d.seq = i
    <3>1. {d.seq : d \in F} = 1 .. n
      BY Zenon DEF Dense
    <3> QED BY <3>1
  <2>2. i \in 1 .. n + 1 /\ i # n + 1
    OBVIOUS
  <2>3. CASE \E x \in A : P[x].seq = i
    <3>1. PICK x \in A : P[x].seq = i
      BY <2>3
    <3>2. old[i] = [id |-> d.id, by |-> x]
      BY <2>1, <3>1, EntryOf
    <3>3. new[i] = [id |-> d.id, by |-> x]
      BY <1>1, <2>1, <2>2, <3>1, EntryOf
    <3> QED BY <3>2, <3>3
  <2>4. CASE ~\E x \in A : P[x].seq = i
    <3>1. old[i] = [id |-> d.id, by |-> None]
      BY <2>1, <2>4, EntryOfNone
    <3>2. \A x \in A \union {m} : Q[x].seq # i
      BY <2>2, <2>4
    <3>3. new[i] = [id |-> d.id, by |-> None]
      BY <1>1, <2>1, <2>2, <3>2, EntryOfNone
    <3> QED BY <3>1, <3>3
  <2> QED BY <2>3, <2>4
<1>4. old = [i \in 1 .. n |-> old[i]] /\ new = [i \in 1 .. n + 1 |-> new[i]]
  BY DEF Entries
<1> HIDE DEF old, new, e
<1> DEFINE S == {old[i] : i \in 1 .. n} \union {e}
<1>5. old \in Seq(S) /\ Len(old) = n /\ e \in S
  BY <1>4
<1>6. new \in Seq(S) /\ Len(new) = n + 1
  <2>1. \A i \in 1 .. n + 1 : new[i] \in S
    BY <1>2, <1>3
  <2> HIDE DEF S
  <2> QED BY <1>4, <2>1
<1> HIDE DEF S
<1>7. /\ Append(old, e) \in Seq(S) /\ Len(Append(old, e)) = n + 1 /\ Append(old, e)[n + 1] = e
      /\ \A i \in 1 .. n : Append(old, e)[i] = old[i]
  BY <1>5, AppendProperties
<1>8. \A i \in 1 .. n + 1 : Append(old, e)[i] = new[i]
  BY <1>2, <1>3, <1>7
<1>9. Append(old, e) = new
  BY <1>6, <1>7, <1>8, SeqEqual
<1> QED BY <1>9 DEF old, new, e, Appended

\* What LogOf reads
LEMMA LogIsEntries ==
  ASSUME NEW a \in Account
  PROVE  /\ LogOf(a) = Entries(seqRow[a], feed[a], AppliedTo(a), processed)
         /\ LogOf(a)' = Entries(seqRow'[a], feed'[a], AppliedTo(a)', processed')
BY DEF LogOf, Entries

\* The numbers of applied mutations are numbers of the feed.
LEMMA AppliedIsNumbered ==
  ASSUME IInv, RInv, NEW a \in Account, NEW m \in AppliedTo(a)
  PROVE  /\ processed[m] # None /\ m \in Mutation /\ m.account = a
         /\ processed[m].seq \in 1 .. seqRow[a]
<1>1. m \in Mutation /\ m.account = a /\ processed[m] # None /\ processed[m].status = "applied"
  BY DEF AppliedTo
<1>2. AnswerFits(m, processed[m])
  BY <1>1 DEF RInv, AnswersFit
<1>3. Names(a, processed[m].seq, m.id)
  BY <1>1, <1>2 DEF AnswerFits, Rejected
<1> QED BY <1>1, <1>3 DEF Names, IInv, DenseFeed

-----------------------------------------------------------------------------
(* COMMIT *)

\* A step that the mapping shows is a sign-up or a COMMIT.
LEMMA VisibleSteps ==
  ASSUME IInv, [Next]_vars
  PROVE  \/ UNCHANGED <<seqRow, feed, processed>>
         \/ \E a \in Account : CreateAccount(a)
         \/ \E w \in Worker : Publish(w)
<1> DEFINE Shows == \/ UNCHANGED <<seqRow, feed, processed>>
                    \/ \E a \in Account : CreateAccount(a)
                    \/ \E w \in Worker : Publish(w)
<1>1. CASE UNCHANGED vars
  BY <1>1 DEF vars, dbVars
<1>2. ASSUME NEW a \in Account, CreateAccount(a) PROVE Shows
  BY <1>2
<1>3. ASSUME NEW a \in Account, NEW d \in Device, RegisterDevice(a, d) PROVE Shows
  BY <1>3 DEF RegisterDevice
<1>4. ASSUME NEW w \in Worker, NEW b \in Batch, Push(w, b) PROVE Shows
  BY <1>4 DEF Push, dbVars
<1>5. ASSUME NEW w \in Worker, Work(w) PROVE Shows
  <2>1. CASE Commit(w)
    BY <2>1 DEF Commit
  <2>2. CASE RejectInvalid(w) \/ checkCurrentState(w)
    BY <2>2 DEF RejectInvalid, checkCurrentState, dbVars
  <2>3. CASE \/ LockAccountSequenceForUpdate(w) \/ findProcessedResult(w)
             \/ applyAppendOnlyMutation(w) \/ applyMutableMutation(w)
             \/ rejectAtWrite(w) \/ rejectConstraint(w)
    BY <2>3 DEF LockAccountSequenceForUpdate, findProcessedResult, applyAppendOnlyMutation,
                applyMutableMutation, rejectAtWrite, rejectConstraint
  <2> QED BY <1>5, <2>1, <2>2, <2>3 DEF Work
<1>6. ASSUME NEW w \in Worker, CommitUnheard(w) PROVE Shows
  BY <1>6 DEF CommitUnheard
<1>7. ASSUME NEW w \in Worker, Abort(w) PROVE Shows
  BY <1>7 DEF Abort
<1>8. ASSUME NEW p \in Puller, NEW a \in Account, NEW after, NEW until,
             PullReadBound(p, a, after, until)
      PROVE  Shows
  BY <1>8 DEF PullReadBound, dbVars
<1>9. ASSUME NEW p \in Puller, PullListChanges(p) PROVE Shows
  BY <1>9 DEF PullListChanges, dbVars
<1> HIDE DEF Shows
<1>10. Shows
  BY <1>1, <1>2, <1>3, <1>4, <1>5, <1>6, <1>7, <1>8, <1>9 DEF Next, Shows
<1> QED BY <1>10 DEF Shows

\* COMMIT answers its mutation, for the first time, and no other.
LEMMA PublishAnswers ==
  ASSUME IInv, RInv, NEW w \in Worker, Publish(w), NEW m, m = Current(w),
         NEW k, k = staged[w].ack
  PROVE  /\ m \in MutationOf(m.account) /\ m \in Mutation /\ m.account \in Account
         /\ processed[m] = None /\ k \in Ack /\ k # None
         /\ processed'[m] = k /\ \A x \in Mutation \ {m} : processed'[x] = processed[x]
         /\ IF Wrote(w) THEN k = [status |-> "applied", seq |-> staged[w].seq]
            ELSE AnswerFits(m, k) /\ k.status # "applied"
<1>1. pc[w] = "staged" /\ m \in Mutation /\ m.account \in Account /\ Knows(w, m)
  BY KnowsCurrent, MutationType DEF Publish
<1>2. k \in Ack /\ k # None
  BY <1>1, WroteType, NoneAssumption
<1>3. processed' = [processed EXCEPT ![m] = k]
  BY DEF Publish
<1>4. processed'[m] = k /\ \A x \in Mutation \ {m} : processed'[x] = processed[x]
  BY <1>1, <1>3 DEF IInv, TypeOK
<1>5. processed[m] = None
  BY <1>1 DEF Knows
<1>6. IF Wrote(w) THEN k = [status |-> "applied", seq |-> staged[w].seq]
      ELSE AnswerFits(m, k) /\ k.status # "applied"
  BY <1>1 DEF Knows, WriteFits
<1> QED BY <1>1, <1>2, <1>4, <1>5, <1>6 DEF MutationOf

\* What that does to the mapping
LEMMA PublishMaps ==
  ASSUME IInv, RInv, NEW w \in Worker, Publish(w), NEW m, m = Current(w),
         NEW k, k = staged[w].ack, NEW a \in Account
  PROVE  /\ AppliedTo(a)' = IF a = m.account /\ Wrote(w) THEN AppliedTo(a) \union {m}
                            ELSE AppliedTo(a)
         /\ m \notin AppliedTo(a) /\ \A x \in AppliedTo(a) : processed'[x] = processed[x]
         /\ AnswersOf(a)' = IF a = m.account
                            THEN AnswersOf(a) \union {[m |-> m, status |-> k.status, seq |-> k.seq]}
                            ELSE AnswersOf(a)
         /\ \A r \in AnswersOf(a) : r.m # m
<1>1. /\ m \in Mutation /\ processed[m] = None /\ k # None
      /\ processed'[m] = k /\ \A x \in Mutation \ {m} : processed'[x] = processed[x]
      /\ k.status = "applied" <=> Wrote(w)
  BY PublishAnswers
<1>2. m \notin AppliedTo(a) /\ \A x \in AppliedTo(a) : processed'[x] = processed[x]
  BY <1>1 DEF AppliedTo
<1>3. AppliedTo(a)' = IF a = m.account /\ Wrote(w) THEN AppliedTo(a) \union {m} ELSE AppliedTo(a)
  BY <1>1 DEF AppliedTo
<1>4. \A r \in AnswersOf(a) : r.m # m
  BY <1>1 DEF AnswersOf
<1>5. AnswersOf(a)' = IF a = m.account
                      THEN AnswersOf(a) \union {[m |-> m, status |-> k.status, seq |-> k.seq]}
                      ELSE AnswersOf(a)
  BY <1>1 DEF AnswersOf, MutationOf
<1> QED BY <1>2, <1>3, <1>4, <1>5

LEMMA StepAppliedOnce ==
  ASSUME IInv, RInv, AppliedOnce, [Next]_vars
  PROVE  AppliedOnce'
<1>1. CASE UNCHANGED <<seqRow, feed, processed>>
  BY <1>1 DEF AppliedOnce, AppliedTo
<1>2. ASSUME NEW a \in Account, CreateAccount(a) PROVE AppliedOnce'
  BY <1>2 DEF CreateAccount, AppliedOnce, AppliedTo
<1>3. ASSUME NEW w \in Worker, Publish(w) PROVE AppliedOnce'
  <2> DEFINE m == Current(w)
  <2> SUFFICES ASSUME NEW a \in Account, NEW x \in AppliedTo(a)', NEW y \in AppliedTo(a)',
                      processed'[x].seq = processed'[y].seq
               PROVE  x = y
    BY DEF AppliedOnce
  <2>1. \A z \in AppliedTo(a) : processed'[z] = processed[z]
    BY <1>3, PublishMaps
  <2>2. CASE ~(a = m.account /\ Wrote(w))
    <3>1. AppliedTo(a)' = AppliedTo(a)
      BY <1>3, <2>2, PublishMaps
    <3> QED BY <2>1, <3>1 DEF AppliedOnce
  <2>3. CASE a = m.account /\ Wrote(w)
    <3>1. AppliedTo(a)' = AppliedTo(a) \union {m}
      BY <1>3, <2>3, PublishMaps
    <3>2. processed'[m].seq = seqRow[a] + 1 /\ seqRow[a] \in Nat
      <4>1. processed'[m] = [status |-> "applied", seq |-> staged[w].seq] /\ pc[w] = "staged"
        BY <1>3, <2>3, PublishAnswers DEF Publish
      <4> QED BY <2>3, <4>1, WroteType DEF IInv, TypeOK
    <3>3. \A z \in AppliedTo(a) : processed'[z].seq # seqRow[a] + 1
      BY <2>1, <3>2, AppliedIsNumbered
    <3> QED BY <2>1, <3>1, <3>2, <3>3 DEF AppliedOnce
  <2> QED BY <2>2, <2>3
<1> QED BY <1>1, <1>2, <1>3, VisibleSteps

-----------------------------------------------------------------------------
(* Every step of SyncStore is a step of the log of each account, or none *)

Steps(a) == [Log(a)!Next]_<<LogOf(a), AnswersOf(a)>>

LEMMA DenseOf ==
  ASSUME IInv, NEW a \in Account
  PROVE  Dense(feed[a], seqRow[a]) /\ seqRow[a] \in Nat
BY DEF IInv, TypeOK, DenseFeed, Dense

\* A sign-up opens the log of its account with the seeds.
LEMMA CreateAccountSteps ==
  ASSUME IInv, RInv, IInv', NEW b \in Account, CreateAccount(b), NEW a \in Account
  PROVE  Steps(a)
<1>1. /\ b \notin accounts /\ seqRow' = [seqRow EXCEPT ![b] = Len(Seed[b])] /\ processed' = processed
      /\ Seeded(b)
  BY CreateAccountSeeds DEF CreateAccount
<1>2. AppliedTo(a)' = AppliedTo(a) /\ AnswersOf(a)' = AnswersOf(a)
  BY <1>1 DEF AppliedTo, AnswersOf
<1>3. CASE a # b
  <2>1. seqRow'[a] = seqRow[a] /\ feed'[a] = feed[a]
    BY <1>1, <1>3 DEF Seeded, IInv, TypeOK
  <2>2. LogOf(a)' = LogOf(a)
    BY <1>1, <1>2, <2>1, LogIsEntries
  <2> QED BY <1>2, <2>2 DEF Steps
<1>4. CASE a = b
  <2> DEFINE n == Len(Seed[a])
  <2>1. n \in Nat /\ Seed[a] \in Seq(Id) /\ seqRow'[a] = n /\ seqRow[a] = 0
    BY <1>1, <1>4, SeedAssumption DEF IInv, TypeOK, AccountsFirst
  <2>2. AnswersOf(a) = {} /\ AppliedTo(a) = {}
    BY <1>1, <1>4 DEF AnswersOf, AppliedTo, MutationOf, RInv, NewIsEmpty
  <2>3. LogOf(a) = <<>>
    <3>1. LogOf(a) = Entries(0, feed[a], AppliedTo(a), processed)
      BY <2>1, LogIsEntries
    <3> QED BY <3>1 DEF Entries
  <2>4. LogOf(a)' = Entries(n, feed'[a], {}, processed')
    BY <1>2, <2>1, <2>2, LogIsEntries
  <2>5. Dense(feed'[a], n)
    BY <2>1 DEF IInv, DenseFeed, Dense
  <2>6. ASSUME NEW i \in 1 .. n
        PROVE  Entries(n, feed'[a], {}, processed')[i] = [id |-> Seed[a][i], by |-> None]
    <3> DEFINE seeds == {[seq |-> j, id |-> Seed[a][j], body |-> SeedBody(a, j)] : j \in 1 .. n}
    <3>1. PICK c \in feed'[a] : c.seq = i /\ c.id = Seed[a][i]
      <4>1. PICK c : c = [seq |-> i, id |-> Seed[a][i], body |-> SeedBody(a, i)]
        OBVIOUS
      <4>2. c \in seeds
        BY <4>1
      <4>3. feed'[a] = seeds
        BY <1>1, <1>4 DEF Seeded
      <4>4. c.seq = i /\ c.id = Seed[a][i]
        BY <4>1
      <4> HIDE DEF seeds
      <4> QED BY <4>2, <4>3, <4>4
    <3>2. Entries(n, feed'[a], {}, processed')[i] = [id |-> c.id, by |-> None]
      BY <2>1, <2>5, <3>1, EntryOfNone
    <3> QED BY <3>1, <3>2
  <2>7. LogOf(a)' = StartOf(a)
    BY <2>4, <2>6 DEF StartOf, Entries
  <2>8. Log(a)!Open
    BY <1>2, <2>2, <2>3, <2>7 DEF Log!Open
  <2> QED BY <2>8 DEF Steps, Log!Next
<1> QED BY <1>3, <1>4

\* COMMIT is the step that takes effect, in the account of its mutation.
LEMMA PublishSteps ==
  ASSUME IInv, RInv, AppliedOnce, IInv', NEW w \in Worker, Publish(w), NEW a \in Account
  PROVE  Steps(a)
<1>1. PICK m : m = Current(w)
  OBVIOUS
<1>2. PICK k : k = staged[w].ack
  OBVIOUS
<1>3. /\ m \in MutationOf(m.account) /\ m \in Mutation /\ m.account \in Account
      /\ processed[m] = None /\ k \in Ack /\ processed'[m] = k
      /\ IF Wrote(w) THEN k = [status |-> "applied", seq |-> staged[w].seq]
         ELSE AnswerFits(m, k) /\ k.status # "applied"
  BY <1>1, <1>2, PublishAnswers
<1>4. /\ AppliedTo(a)' = IF a = m.account /\ Wrote(w) THEN AppliedTo(a) \union {m}
                         ELSE AppliedTo(a)
      /\ m \notin AppliedTo(a) /\ \A x \in AppliedTo(a) : processed'[x] = processed[x]
      /\ AnswersOf(a)' = IF a = m.account
                         THEN AnswersOf(a) \union {[m |-> m, status |-> k.status, seq |-> k.seq]}
                         ELSE AnswersOf(a)
      /\ \A r \in AnswersOf(a) : r.m # m
  BY <1>1, <1>2, PublishMaps
<1>5. pc[w] = "staged" /\ seqRow' = [seqRow EXCEPT ![m.account] = staged[w].seq]
  BY <1>1 DEF Publish
<1>6. Dense(feed[a], seqRow[a]) /\ seqRow[a] \in Nat /\ Once(AppliedTo(a), processed)
  BY DenseOf DEF AppliedOnce, Once
\* Without a write of this account its log stays as it is.
<1>7. ASSUME seqRow'[a] = seqRow[a], feed'[a] = feed[a], AppliedTo(a)' = AppliedTo(a)
      PROVE  LogOf(a)' = LogOf(a)
  BY <1>4, <1>6, <1>7, LogIsEntries, SameEntries
<1>8. CASE a # m.account
  <2>1. feed'[a] = feed[a]
    <3>1. CASE Wrote(w)
      <4>1. feed' = [feed EXCEPT ![m.account] = @ \union {staged[w].change}]
        BY <1>1, <3>1 DEF Publish, Wrote
      <4> QED BY <1>8, <4>1 DEF IInv, TypeOK
    <3>2. CASE ~Wrote(w)
      BY <1>1, <3>2, PublishWrites
    <3> QED BY <3>1, <3>2
  <2>2. seqRow'[a] = seqRow[a]
    BY <1>5, <1>8 DEF IInv, TypeOK
  <2> QED BY <1>4, <1>7, <1>8, <2>1, <2>2 DEF Steps
<1>9. CASE a = m.account /\ Wrote(w)
  <2>1. PICK c : c = staged[w].change
    OBVIOUS
  <2>2. c.seq = seqRow[a] + 1 /\ staged[w].seq = seqRow[a] + 1 /\ c.id = m.id
    BY <1>1, <1>5, <1>9, <2>1, WroteType, KnowsCurrent DEF Knows, WriteFits
  <2>3. feed'[a] = feed[a] \union {c} /\ seqRow'[a] = seqRow[a] + 1
    BY <1>1, <1>3, <1>5, <1>9, <2>1, <2>2, PublishWrites DEF Written, IInv, TypeOK
  <2>4. Dense(feed[a] \union {c}, seqRow[a] + 1)
    BY <2>3 DEF IInv, DenseFeed, Dense
  <2>5. \A x \in AppliedTo(a) : processed[x].seq \in 1 .. seqRow[a] /\ processed'[x] = processed[x]
    BY <1>4, AppliedIsNumbered
  <2>6. processed'[m].seq = seqRow[a] + 1
    BY <1>3, <1>9, <2>2
  <2>7. Entries(seqRow[a] + 1, feed[a] \union {c}, AppliedTo(a) \union {m}, processed')
          = Append(Entries(seqRow[a], feed[a], AppliedTo(a), processed), [id |-> c.id, by |-> m])
    <3>1. PICK n : n = seqRow[a]
      OBVIOUS
    <3>2. PICK F : F = feed[a]
      OBVIOUS
    <3>3. PICK A : A = AppliedTo(a)
      OBVIOUS
    <3>4. PICK P : P = processed
      OBVIOUS
    <3>5. PICK Q : Q = processed'
      OBVIOUS
    <3>6. n \in Nat /\ Dense(F, n) /\ Dense(F \union {c}, n + 1) /\ Once(A, P)
      BY <1>6, <2>4, <3>1, <3>2, <3>3, <3>4
    <3>7. c.seq = n + 1 /\ m \notin A /\ Q[m].seq = n + 1
      BY <1>4, <2>2, <2>6, <3>1, <3>3, <3>5
    <3>8. \A x \in A : P[x].seq \in 1 .. n /\ Q[x] = P[x]
      BY <2>5, <3>1, <3>3, <3>4, <3>5
    <3>9. Extends(n, F, A, P, Q, c, m)
      BY <3>6, <3>7, <3>8 DEF Extends
    <3>10. Appended(n, F, A, P, Q, c, m)
      BY <3>6, <3>9, NextEntry
    <3> QED BY <3>1, <3>2, <3>3, <3>4, <3>5, <3>10 DEF Appended
  <2>8. LogOf(a)' = Append(LogOf(a), [id |-> m.id, by |-> m])
    BY <1>4, <1>9, <2>2, <2>3, <2>7, LogIsEntries
  <2>9. Len(LogOf(a)) = seqRow[a]
    BY <1>6 DEF LogOf
  <2>10. Log(a)!Apply(m)
    <3>1. k.status = "applied" /\ k.seq = Len(LogOf(a)) + 1
      BY <1>3, <1>9, <2>2, <2>9
    <3> QED BY <1>4, <1>9, <2>8, <3>1 DEF Log!Apply, Log!Answered, Log!Record
  <2> QED BY <1>3, <1>9, <2>10 DEF Steps, Log!Next
<1>10. CASE a = m.account /\ ~Wrote(w)
  <2>1. seqRow'[a] = seqRow[a] /\ feed'[a] = feed[a]
    <3>1. staged[w].seq = seqRow[a]
      BY <1>1, <1>5, <1>10 DEF IInv, StagedIsNext, Wrote
    <3> QED BY <1>1, <1>5, <1>10, <3>1, PublishWrites DEF IInv, TypeOK
  <2>2. LogOf(a)' = LogOf(a)
    BY <1>4, <1>7, <1>10, <2>1
  <2>3. CASE k = Rejected
    <3>1. Log(a)!Refuse(m)
      BY <1>4, <1>10, <2>2, <2>3 DEF Log!Refuse, Log!Answered, Log!Record, Rejected
    <3> QED BY <1>3, <1>10, <3>1 DEF Steps, Log!Next
  <2>4. CASE k # Rejected
    <3>1. k.status = "duplicate" /\ Names(a, k.seq, m.id)
      BY <1>3, <1>10, <2>4 DEF AnswerFits, Ack
    <3>2. PICK c \in feed[a] : c.seq = k.seq /\ c.id = m.id
      BY <3>1 DEF Names
    <3>3. k.seq \in 1 .. seqRow[a] /\ (CHOOSE d \in feed[a] : d.seq = k.seq) = c
      BY <1>6, <3>2 DEF Dense
    <3>4. LogOf(a)[k.seq].id = m.id
      BY <3>2, <3>3 DEF LogOf
    <3>5. Len(LogOf(a)) = seqRow[a]
      BY <1>6 DEF LogOf
    <3>6. Log(a)!Find(m, k.seq)
      BY <1>4, <1>10, <2>2, <3>1, <3>4 DEF Log!Find, Log!Answered, Log!Record
    <3> QED BY <1>3, <1>10, <3>3, <3>5, <3>6 DEF Steps, Log!Next
  <2> QED BY <2>3, <2>4
<1> QED BY <1>8, <1>9, <1>10

\* The accounts that nobody has signed up for yet have an empty log.
LEMMA InitMaps == Init => \A a \in Account : Log(a)!Init
<1> SUFFICES ASSUME Init, NEW a \in Account PROVE Log(a)!Init
  OBVIOUS
<1>1. LogOf(a) = <<>>
  BY DEF Init, LogOf
<1>2. AnswersOf(a) = {}
  BY DEF Init, AnswersOf, MutationOf
<1> QED BY <1>1, <1>2 DEF Log!Init

\* Pushes that interleave, fail and are repeated look like one log per account that grows by
\* whole changes, and answers given once (Commit, findProcessedResult, CreateAccount).
THEOREM StoreImplementsChangeLog == Spec => ImplementsChangeLog
<1> DEFINE I == IInv /\ RInv /\ AppliedOnce /\ PullsBehind /\ PagesAreExact
           Mapped == \A a \in Account : [Log(a)!Next]_<<LogOf(a), AnswersOf(a)>>
<1>1. Init => I
  <2>1. Init => AppliedOnce
    BY DEF Init, AppliedOnce, AppliedTo
  <2> QED BY <2>1, InitIInv, InitPulls, InitRules
<1>2. I /\ [Next]_vars => I'
  BY StepIInv, StepRules, StepAppliedOnce
<1>3. I /\ I' /\ [Next]_vars => [Mapped]_<<seqRow, feed, processed>>
  <2> SUFFICES ASSUME I, I', [Next]_vars PROVE [Mapped]_<<seqRow, feed, processed>>
    OBVIOUS
  <2>1. CASE UNCHANGED <<seqRow, feed, processed>>
    BY <2>1
  <2>2. ASSUME NEW b \in Account, CreateAccount(b) PROVE Mapped
    BY <2>2, CreateAccountSteps DEF Steps
  <2>3. ASSUME NEW w \in Worker, Publish(w) PROVE Mapped
    BY <2>3, PublishSteps DEF Steps
  <2> HIDE DEF Mapped
  <2> QED BY <2>1, <2>2, <2>3, VisibleSteps
<1>4. Init => \A a \in Account : Log(a)!Init
  BY InitMaps
<1> QED BY <1>1, <1>2, <1>3, <1>4, PTL DEF Spec, ImplementsChangeLog
=============================================================================
