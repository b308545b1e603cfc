------------------------- MODULE SyncStoreRefinement -------------------------
(***************************************************************************)
(* SyncStore implements ChangeLog, account by account: Commit is the step  *)
(* that takes effect; locking, checking, staging and rolling back are      *)
(* invisible.                                                              *)
(***************************************************************************)
EXTENDS SyncStore

MutationOf(a) == {m \in Mutation : m.account = a}

\* The mutations recorded as applied
AppliedTo(a) == {m \in Mutation : IF m.account = a /\ processed[m] # None
                                  THEN processed[m].status = "applied" ELSE FALSE}

\* Change n of the account and the mutation it is of (None: a seed)
LogOf(a) ==
  [n \in 1 .. seqRow[a] |->
     [id |-> (CHOOSE c \in feed[a] : c.seq = n).id,
      by |-> IF \E m \in AppliedTo(a) : processed[m].seq = n
             THEN CHOOSE m \in AppliedTo(a) : processed[m].seq = n
             ELSE None]]

AnswersOf(a) ==
  {[m |-> m, status |-> processed[m].status, seq |-> processed[m].seq] :
     m \in {x \in MutationOf(a) : processed[x] # None}}

StartOf(a) == [n \in 1 .. Len(Seed[a]) |-> [id |-> Seed[a][n], by |-> None]]

Log(a) == INSTANCE ChangeLog WITH Mutation <- MutationOf(a), Start <- StartOf(a),
                                  log <- LogOf(a), answers <- AnswersOf(a)

\* Whatever the handlers interleave, abort or repeat, each account looks like
\* one log that grows by whole changes and answers that never change: this is
\* Log(a)!Spec for every account a (LogOf and AnswersOf read the three variables
\* of the subscript).
ImplementsChangeLog ==
  /\ \A a \in Account : Log(a)!Init
  /\ [][\A a \in Account : [Log(a)!Next]_<<LogOf(a), AnswersOf(a)>>]_<<seqRow, feed, processed>>
=============================================================================
