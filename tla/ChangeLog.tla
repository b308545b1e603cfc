------------------------------ MODULE ChangeLog ------------------------------
(***************************************************************************)
(* What the server promises the devices of one account: a log that only    *)
(* grows, numbered without a gap, and one answer for each mutation, given  *)
(* once and for all.  No locks, tables, savepoints or retries: SyncStore   *)
(* implements this (SyncStoreRefinement), and Sync builds on it.           *)
(***************************************************************************)
EXTENDS Naturals, Sequences

CONSTANTS Mutation,  \* records with an id
          Start      \* the log an account is created with

VARIABLES log,       \* change n is log[n]: the id it changes, the mutation it is of
          answers    \* processed_mutations: [m, status, seq]

Answered(m) == \E r \in answers : r.m = m
AnswerTo(m) == CHOOSE r \in answers : r.m = m
Record(m, status, seq) == answers' = answers \union {[m |-> m, status |-> status, seq |-> seq]}

Init == log = <<>> /\ answers = {}

\* The account is created with its part types.
Open == log = <<>> /\ answers = {} /\ log' = Start /\ UNCHANGED answers

\* m takes effect as the next change.
Apply(m) ==
  /\ ~Answered(m)
  /\ log' = Append(log, [id |-> m.id, by |-> m])
  /\ Record(m, "applied", Len(log) + 1)

\* What m creates is already there, as change n.
Find(m, n) ==
  /\ ~Answered(m)
  /\ log[n].id = m.id
  /\ Record(m, "duplicate", n)
  /\ UNCHANGED log

Refuse(m) ==
  /\ ~Answered(m)
  /\ Record(m, "rejected", 0)
  /\ UNCHANGED log

Next ==
  \/ Open
  \/ \E m \in Mutation : Apply(m)
  \/ \E m \in Mutation : \E n \in 1 .. Len(log) : Find(m, n)
  \/ \E m \in Mutation : Refuse(m)

Spec == Init /\ [][Next]_<<log, answers>>

\* The rows of GET /sync/pull between two cursors, at most limit of them.
UpTo(after, bound, limit) == IF bound < after + limit THEN bound ELSE after + limit
=============================================================================
