------------------------------ MODULE SyncProofs ------------------------------
(***************************************************************************)
(* What Sync promises for every number of devices, edits and rows, and     *)
(* whatever is lost, late or cut short: no edit is lost, the server takes  *)
(* them in order, a pull never overwrites one, what is not edited is the   *)
(* server's, and a page can always be applied.                             *)
(*                                                                         *)
(* The heart of it is OrderFits: what the server may still let in lies in  *)
(* front of the rest of the queue.  So an edit takes effect after all      *)
(* older ones, and after everything its row has shown so far.              *)
(***************************************************************************)
EXTENDS Sync, FiniteSetTheorems, WellFoundedInduction, TLAPS

-----------------------------------------------------------------------------
(* The invariant *)

\* The server answered m with a refusal, or its validation will never let m in.
Refused(m) == m.mid \in Malformed \/ \E r \in answers : r.m = m /\ r.status = "rejected"

\* A request with m is under way.
Sent(m) == m \in stale \/ \E d \in Device : run[d].at = "sent" /\ run[d].m = m

\* m has taken effect, or still may.
Live(m) == Applied(m) \/ (Sent(m) /\ ~Refused(m))

-----------------------------------------------------------------------------
(* The server and what was made *)

\* Change n is of m.
IsChange(n, m) == n \in DOMAIN log /\ log[n] = [id |-> m.id, by |-> m]

AnswersFit ==
  /\ \A r \in answers :
       /\ r.m \in minted /\ r.m.mid \notin Malformed
       /\ \/ r.status = "applied" /\ IsChange(r.seq, r.m)
          \/ r.status = "rejected" /\ r.seq = 0
  /\ \A q, r \in answers : q.m = r.m => q = r

LogFits ==
  \A n \in DOMAIN log :
    /\ log[n].by # None => \E r \in answers : r.m = log[n].by /\ r.status = "applied" /\ r.seq = n
    /\ Parent[log[n].id] # None => \E k \in 1 .. n - 1 : log[k].id = Parent[log[n].id]

\* Fresh numbers for everything made
MintedFits ==
  /\ IsFiniteSet(minted)
  /\ \A m \in minted : m.mid \in 1 .. Cardinality(minted) /\ m.n < meta[m.dev].next
  /\ \A m, k \in minted : m.mid = k.mid => m = k

-----------------------------------------------------------------------------
(* One device *)

\* A queued edit is not older than what its row shows, nor pulled already.
QueuedLate(d, x) ==
  \A n \in DOMAIN log :
    log[n].by = x.m => meta[d].cursor < n /\ ents[d][x.m.id].seq < n

OutboxFits(d) ==
  \A x \in outbox[d] :
    /\ x.m \in minted /\ x.m.dev = d /\ ents[d][x.m.id] # None
    /\ \A y \in outbox[d] : y.m.n = x.m.n => y = x
    /\ x.status = "blocked" => Refused(x.m)
    /\ QueuedLate(d, x)

\* What has taken effect, or still may, is in front of the rest of the queue.
OrderFits == \A m \in minted : Live(m) => \A x \in outbox[m.dev] : m = x.m \/ m.n < x.m.n

\* The push has the row it is waiting for.
HeadFits(d, m) == \E x \in outbox[d] : x.m = m /\ x.status = "pending"

RunFits(d) ==
  LET r == run[d] IN
  /\ r.at \in {"sent", "answered"} => HeadFits(d, r.m)
  /\ r.at = "answered" =>
       \/ r.seq > 0 /\ [m |-> r.m, status |-> "applied", seq |-> r.seq] \in answers
       \/ r.seq = 0 /\ Refused(r.m)
  /\ r.at = "pulling" =>
       /\ r.after = meta[d].cursor
       /\ r.until # None => r.after <= r.until /\ r.until <= Len(log)
  /\ r.at = "paged" =>
       /\ meta[d].cursor <= r.next /\ r.next <= r.until /\ r.until <= Len(log)
       /\ r.changes = {ChangeAt(n) : n \in meta[d].cursor + 1 .. r.next}

\* What the device has pulled and shows has a number.
NumbersFit(d) ==
  /\ meta[d].cursor <= Len(log)
  /\ \A i \in Id : ents[d][i] # None => ents[d][i].seq <= Len(log)

\* LastEditShows and RestIsServerState of one device
EditsShow(d) ==
  \A i \in Id : \A x \in Queued(d, i) :
    ~NewerRevision(d, x.m) => /\ ents[d][i] # None
                              /\ ents[d][i].by = x.m.mid
                              /\ ~ents[d][i].canonical
Confirmed(e, i, n) ==
  /\ e # None
  /\ e.seq \in n + 1 .. Len(log)
  /\ log[e.seq].by # None
  /\ log[e.seq].id = i
  /\ log[e.seq].by.mid = e.by
RestFits(d) ==
  \A i \in Id : Queued(d, i) = {} =>
    IsCanonical(ents[d][i], i, meta[d].cursor) \/ Confirmed(ents[d][i], i, meta[d].cursor)

Fits(d) == OutboxFits(d) /\ RunFits(d) /\ NumbersFit(d) /\ EditsShow(d) /\ RestFits(d)

SInv == /\ TypeOK /\ AnswersFit /\ LogFits /\ MintedFits /\ stale \subseteq minted
        /\ OrderFits /\ NothingLost
        /\ \A d \in Device : Fits(d)

-----------------------------------------------------------------------------
(* Types *)

LEMMA RunTypes ==
  ASSUME NEW r \in RunState
  PROVE  /\ r.at \in {"idle", "booting", "pushing", "sent", "answered", "pulling", "paged", "pulled"}
         /\ r.at = "idle" <=> r = Idle
         /\ r.at \in {"pushing", "sent", "answered"} => r.through \in Nat
         /\ r.at \in {"sent", "answered"} => r.m \in Mutation
         /\ r.at = "answered" => r.seq \in Nat
         /\ r.at \in {"pulling", "paged", "pulled"} => r.mode \in {"sync", "restore"}
         /\ r.at = "pulling" => r.after \in Nat /\ r.until \in Nat \union {None}
         /\ r.at = "paged" => /\ r.until \in Nat /\ r.next \in Nat
                              /\ r.changes \in SUBSET Change
<1>1. CASE r = Idle
  BY <1>1 DEF Idle
<1>2. CASE r # Idle
  BY <1>2 DEF RunState, Idle
<1> QED BY <1>1, <1>2

LEMMA DeviceTypes ==
  ASSUME TypeOK, NEW d \in Device
  PROVE  /\ outbox[d] \subseteq Item /\ ents[d] \in [Id -> Entity \union {None}]
         /\ meta[d] \in Meta /\ run[d] \in RunState
         /\ meta[d].cursor \in Nat /\ meta[d].next \in Nat
BY DEF TypeOK, Meta

LEMMA ItemTypes ==
  ASSUME TypeOK, NEW d \in Device, NEW x \in outbox[d]
  PROVE  /\ x \in Item /\ x.m \in Mutation /\ x.status \in {"pending", "blocked"}
         /\ x.m.mid \in Nat /\ x.m.dev \in Device /\ x.m.id \in Id /\ x.m.n \in Nat
BY DEF TypeOK, Item, Mutation

LEMMA Element ==
  ASSUME NEW S, NEW s \in Seq(S)
  PROVE  /\ Len(s) \in Nat /\ DOMAIN s = 1 .. Len(s)
         /\ \A n \in 1 .. Len(s) : s[n] \in S
OBVIOUS

LEMMA LogTypes ==
  ASSUME TypeOK
  PROVE  /\ Len(log) \in Nat /\ DOMAIN log = 1 .. Len(log)
         /\ \A n \in 1 .. Len(log) : /\ log[n].id \in Id /\ log[n].by \in Mutation \union {None}
                                     /\ log[n] = [id |-> log[n].id, by |-> log[n].by]
                                     /\ ChangeAt(n) \in Change
                                     /\ ChangeAt(n).seq = n /\ ChangeAt(n).id = log[n].id
<1> DEFINE Entry == [id : Id, by : Mutation \union {None}]
<1>1. log \in Seq(Entry)
  BY DEF TypeOK
<1>2. Len(log) \in Nat /\ DOMAIN log = 1 .. Len(log) /\ \A n \in 1 .. Len(log) : log[n] \in Entry
  BY <1>1, Element
<1>3. ASSUME NEW n \in 1 .. Len(log)
      PROVE  /\ log[n].id \in Id /\ log[n].by \in Mutation \union {None}
             /\ log[n] = [id |-> log[n].id, by |-> log[n].by]
             /\ ChangeAt(n) \in Change
             /\ ChangeAt(n).seq = n /\ ChangeAt(n).id = log[n].id
  <2>1. log[n] \in Entry
    BY <1>2
  <2>2. log[n].id \in Id /\ log[n].by \in Mutation \union {None}
        /\ log[n] = [id |-> log[n].id, by |-> log[n].by]
    BY <2>1
  <2>3. n \in Nat
    BY <1>2
  <2>4. (IF log[n].by = None THEN 0 ELSE log[n].by.mid) \in Nat
    BY <2>2 DEF Mutation
  <2>5. /\ ChangeAt(n) \in Change
        /\ ChangeAt(n).seq = n /\ ChangeAt(n).id = log[n].id
    BY <2>2, <2>3, <2>4 DEF ChangeAt, Change
  <2> QED BY <2>2, <2>5
<1> QED BY <1>2, <1>3

LEMMA Going ==
  ASSUME TypeOK, NEW d \in Device, NEW r \in RunState, Goto(d, r)
  PROVE  /\ run' \in [Device -> RunState] /\ run'[d] = r
         /\ \A e \in Device \ {d} : run'[e] = run[e]
BY DEF TypeOK, Goto

\* Only the flags of the metadata change.
FlagsOnly ==
  /\ meta' \in [Device -> Meta]
  /\ \A e \in Device : meta'[e].cursor = meta[e].cursor /\ meta'[e].next = meta[e].next

LEMMA SettingError ==
  ASSUME TypeOK, NEW d \in Device, NEW e \in BOOLEAN, SetError(d, e)
  PROVE  FlagsOnly
BY DEF TypeOK, SetError, FlagsOnly, Meta

LEMMA MetaSame == ASSUME TypeOK, UNCHANGED meta PROVE FlagsOnly
BY DEF TypeOK, FlagsOnly

-----------------------------------------------------------------------------
(* The server *)

Unanswered(m) == \A r \in answers : r.m # m

\* The first answer to m: it takes effect, ...
Effect(m) ==
  /\ Unanswered(m) /\ m.mid \notin Malformed
  /\ Parent[m.id] # None => \E n \in 1 .. Len(log) : log[n].id = Parent[m.id]
  /\ log' = Append(log, [id |-> m.id, by |-> m])
  /\ answers' = answers \union {[m |-> m, status |-> "applied", seq |-> Len(log) + 1]}

\* ... or not.
Refusal(m) ==
  /\ Unanswered(m) /\ m.mid \notin Malformed
  /\ log' = log
  /\ answers' = answers \union {[m |-> m, status |-> "rejected", seq |-> 0]}

LEMMA ServeSteps ==
  ASSUME NEW m, Serve(m)
  PROVE  \/ UNCHANGED <<log, answers>> /\ (~Unanswered(m) \/ m.mid \in Malformed)
         \/ Effect(m)
         \/ Refusal(m)
<1>1. Server!Answered(m) <=> ~Unanswered(m)
  BY DEF Server!Answered, Unanswered
<1> QED BY <1>1 DEF Serve, Server!Apply, Server!Refuse, Server!Record, Effect, Refusal

\* Nothing the server has done is undone.
Grows ==
  /\ log' \in Seq([id : Id, by : Mutation \union {None}])
  /\ answers' \subseteq [m : Mutation, status : {"applied", "duplicate", "rejected"}, seq : Nat]
  /\ answers \subseteq answers'
  /\ Len(log) <= Len(log') /\ Len(log') \in Nat /\ DOMAIN log' = 1 .. Len(log')
  /\ \A n \in 1 .. Len(log) : n \in 1 .. Len(log') /\ log'[n] = log[n]

LEMMA SameGrows == ASSUME TypeOK, UNCHANGED <<log, answers>> PROVE Grows
<1>1. Len(log) \in Nat /\ DOMAIN log = 1 .. Len(log)
  BY LogTypes
<1>2. Len(log) <= Len(log)
  BY <1>1
<1> QED BY <1>1, <1>2 DEF TypeOK, Grows

\* One more entry
LEMMA EffectLog ==
  ASSUME TypeOK, NEW m \in Mutation, Effect(m)
  PROVE  /\ Len(log') = Len(log) + 1 /\ DOMAIN log' = 1 .. Len(log) + 1
         /\ log'[Len(log) + 1] = [id |-> m.id, by |-> m]
         /\ \A n \in 1 .. Len(log) : log'[n] = log[n]
         /\ log' \in Seq([id : Id, by : Mutation \union {None}])
<1> DEFINE Entry == [id : Id, by : Mutation \union {None}]
<1>1. PICK e : e = [id |-> m.id, by |-> m]
  OBVIOUS
<1>2. e \in Entry
  BY <1>1 DEF Mutation
<1>3. log \in Seq(Entry) /\ log' = Append(log, e)
  BY <1>1 DEF TypeOK, Effect
<1> HIDE DEF Entry
<1>4. /\ Len(log') = Len(log) + 1 /\ DOMAIN log' = 1 .. Len(log) + 1
      /\ log'[Len(log) + 1] = e
      /\ \A n \in 1 .. Len(log) : log'[n] = log[n]
      /\ log' \in Seq(Entry)
  BY <1>2, <1>3
<1> QED BY <1>1, <1>4 DEF Entry

LEMMA ServeGrows ==
  ASSUME TypeOK, NEW m \in Mutation, Serve(m)
  PROVE  Grows
<1>1. CASE UNCHANGED <<log, answers>>
  BY <1>1, SameGrows
<1>2. CASE Effect(m)
  <2>1. Len(log) \in Nat
    BY LogTypes
  <2>2. answers' \subseteq [m : Mutation, status : {"applied", "duplicate", "rejected"}, seq : Nat]
    BY <1>2, <2>1 DEF TypeOK, Effect
  <2>3. answers \subseteq answers'
    BY <1>2 DEF Effect
  <2>4. PICK k : k = Len(log) + 1
    OBVIOUS
  <2>5. /\ Len(log') = k /\ DOMAIN log' = 1 .. k /\ log' \in Seq([id : Id, by : Mutation \union {None}])
        /\ \A n \in 1 .. Len(log) : log'[n] = log[n]
    BY <1>2, <2>4, EffectLog
  <2>6. k \in Nat /\ Len(log) <= k /\ \A n \in 1 .. Len(log) : n \in 1 .. k
    BY <2>1, <2>4
  <2> QED BY <2>2, <2>3, <2>5, <2>6 DEF Grows
<1>3. CASE Refusal(m)
  <2>1. Len(log) \in Nat /\ DOMAIN log = 1 .. Len(log)
    BY LogTypes
  <2>2. answers' \subseteq [m : Mutation, status : {"applied", "duplicate", "rejected"}, seq : Nat]
    BY <1>3 DEF TypeOK, Refusal
  <2>3. answers \subseteq answers' /\ log' = log
    BY <1>3 DEF Refusal
  <2> QED BY <2>1, <2>2, <2>3 DEF TypeOK, Grows
<1> QED BY <1>1, <1>2, <1>3, ServeSteps

LEMMA ChangesStay ==
  ASSUME Grows, NEW n \in 1 .. Len(log)
  PROVE  ChangeAt(n)' = ChangeAt(n)
BY DEF Grows, ChangeAt

LEMMA IsChangeStays ==
  ASSUME TypeOK, Grows, NEW n, NEW m, IsChange(n, m)
  PROVE  IsChange(n, m)'
BY LogTypes DEF Grows, IsChange

LEMMA RefusedStays ==
  ASSUME Grows, NEW m, Refused(m)
  PROVE  Refused(m)'
BY DEF Grows, Refused

LEMMA AppliedBy ==
  ASSUME NEW m
  PROVE  Applied(m) <=> \E r \in answers : r.m = m /\ r.status = "applied"
BY DEF Applied

LEMMA AppliedByNext ==
  ASSUME NEW m
  PROVE  Applied(m)' <=> \E r \in answers' : r.m = m /\ r.status = "applied"
BY DEF Applied

LEMMA AppliedStays ==
  ASSUME Grows, NEW m, Applied(m)
  PROVE  Applied(m)'
BY AppliedBy, AppliedByNext DEF Grows

LEMMA ServeAnswers ==
  ASSUME TypeOK, AnswersFit, NEW m \in minted, Serve(m), UNCHANGED minted
  PROVE  AnswersFit'
<1>1. m \in Mutation
  BY DEF TypeOK
<1>2. Grows
  BY <1>1, ServeGrows
<1>3. CASE UNCHANGED <<log, answers>>
  BY <1>3 DEF AnswersFit, IsChange
<1>4. ASSUME NEW a, answers' = answers \union {a}, a.m = m, Unanswered(m), m.mid \notin Malformed,
             (a.status = "applied" /\ IsChange(a.seq, a.m)') \/ (a.status = "rejected" /\ a.seq = 0)
      PROVE  AnswersFit'
  <2>1. ASSUME NEW r \in answers'
        PROVE  /\ r.m \in minted' /\ r.m.mid \notin Malformed
               /\ \/ r.status = "applied" /\ IsChange(r.seq, r.m)'
                  \/ r.status = "rejected" /\ r.seq = 0
    <3>1. CASE r = a
      BY <1>4, <3>1
    <3>2. CASE r \in answers
      BY <1>2, <3>2, IsChangeStays DEF AnswersFit
    <3> QED BY <1>4, <3>1, <3>2
  <2>2. \A q, r \in answers' : q.m = r.m => q = r
    BY <1>4 DEF AnswersFit, Unanswered
  <2> QED BY <2>1, <2>2 DEF AnswersFit
<1>5. CASE Effect(m)
  <2>1. PICK a : a = [m |-> m, status |-> "applied", seq |-> Len(log) + 1]
    OBVIOUS
  <2>2. PICK k : k = Len(log) + 1
    OBVIOUS
  <2>3. Len(log) \in Nat
    BY LogTypes
  <2>4. IsChange(k, m)'
    BY <1>1, <1>5, <2>2, <2>3, EffectLog DEF IsChange
  <2>5. a.m = m /\ a.status = "applied" /\ a.seq = k
    BY <2>1, <2>2
  <2>6. IsChange(a.seq, a.m)'
    BY <2>4, <2>5
  <2> QED BY <1>4, <1>5, <2>1, <2>5, <2>6 DEF Effect
<1>6. CASE Refusal(m)
  <2>1. PICK a : a = [m |-> m, status |-> "rejected", seq |-> 0]
    OBVIOUS
  <2> QED BY <1>4, <1>6, <2>1 DEF Refusal
<1> QED BY <1>3, <1>5, <1>6, ServeSteps

LEMMA ServeLog ==
  ASSUME TypeOK, LogFits, NEW m \in Mutation, Serve(m)
  PROVE  LogFits'
<1>1. Grows /\ Len(log) \in Nat /\ DOMAIN log = 1 .. Len(log)
  BY ServeGrows, LogTypes
<1>2. ASSUME NEW n \in DOMAIN log
      PROVE  /\ log'[n].by # None =>
                  \E r \in answers' : r.m = log'[n].by /\ r.status = "applied" /\ r.seq = n
             /\ Parent[log'[n].id] # None =>
                  \E k \in 1 .. n - 1 : log'[k].id = Parent[log'[n].id]
  <2>1. log'[n] = log[n] /\ answers \subseteq answers'
    BY <1>1 DEF Grows
  <2>2. \A k \in 1 .. n - 1 : log'[k] = log[k]
    BY <1>1 DEF Grows
  <2> QED BY <2>1, <2>2 DEF LogFits
<1>3. CASE log' = log
  BY <1>2, <1>3 DEF LogFits
<1>4. CASE Effect(m)
  <2>1. PICK k : k = Len(log) + 1
    OBVIOUS
  <2>2. /\ DOMAIN log' = DOMAIN log \union {k} /\ log'[k] = [id |-> m.id, by |-> m]
        /\ \A n \in 1 .. Len(log) : log'[n] = log[n]
    <3>1. /\ DOMAIN log' = 1 .. k /\ log'[k] = [id |-> m.id, by |-> m]
          /\ \A n \in 1 .. Len(log) : log'[n] = log[n]
      BY <1>4, <2>1, EffectLog
    <3>2. 1 .. k = (1 .. Len(log)) \union {k}
      BY <1>1, <2>1
    <3> QED BY <1>1, <3>1, <3>2
  <2>3. [m |-> m, status |-> "applied", seq |-> k] \in answers'
    BY <1>4, <2>1 DEF Effect
  <2>4. \E r \in answers' : r.m = log'[k].by /\ r.status = "applied" /\ r.seq = k
    BY <2>2, <2>3
  <2>5. Parent[log'[k].id] # None => \E n \in 1 .. k - 1 : log'[n].id = Parent[log'[k].id]
    <3>1. log'[k].id = m.id
      BY <2>2
    <3>2. 1 .. k - 1 = 1 .. Len(log)
      BY <1>1, <2>1
    <3> QED BY <1>4, <2>2, <3>1, <3>2 DEF Effect
  <2> QED BY <1>2, <2>2, <2>4, <2>5 DEF LogFits
<1> QED BY <1>3, <1>4, ServeSteps DEF Refusal

-----------------------------------------------------------------------------
(* A device while the server moves on *)

RowsSame(d) ==
  outbox'[d] = outbox[d] /\ ents'[d] = ents[d] /\ meta'[d].cursor = meta[d].cursor

LEMMA NumbersStay ==
  ASSUME TypeOK, Grows, NEW d \in Device, RowsSame(d), NumbersFit(d)
  PROVE  NumbersFit(d)'
<1>1. Len(log) \in Nat /\ Len(log') \in Nat /\ Len(log) <= Len(log') /\ meta[d].cursor \in Nat
  BY LogTypes, DeviceTypes DEF Grows
<1>2. ASSUME NEW i \in Id, ents[d][i] # None
      PROVE  ents[d][i].seq <= Len(log')
  <2>1. ents[d][i].seq \in Nat
    BY <1>2, DeviceTypes DEF Entity
  <2> QED BY <1>1, <1>2, <2>1 DEF NumbersFit
<1> QED BY <1>1, <1>2 DEF NumbersFit, RowsSame

LEMMA CanonicalStays ==
  ASSUME TypeOK, Grows, NEW e \in Entity \union {None}, NEW i \in Id, NEW n \in 0 .. Len(log),
         IsCanonical(e, i, n)
  PROVE  IsCanonical(e, i, n)'
<1>1. Len(log) \in Nat /\ \A k \in 1 .. n : k \in 1 .. Len(log)
  BY LogTypes
<1>2. \A k \in 1 .. n : log'[k] = log[k] /\ ChangeAt(k)' = ChangeAt(k)
  BY <1>1, ChangesStay DEF Grows
<1>3. CASE e = None
  BY <1>2, <1>3 DEF IsCanonical
<1>4. CASE e # None
  <2>1. e.seq \in 1 .. n /\ \A k \in e.seq + 1 .. n : k \in 1 .. n
    BY <1>1, <1>4 DEF IsCanonical
  <2> QED BY <1>2, <1>4, <2>1 DEF IsCanonical
<1> QED BY <1>3, <1>4

LEMMA ConfirmedStays ==
  ASSUME TypeOK, Grows, NEW e \in Entity \union {None}, NEW i \in Id, NEW n \in Nat,
         Confirmed(e, i, n)
  PROVE  Confirmed(e, i, n)'
<1>1. Len(log) \in Nat /\ Len(log') \in Nat /\ Len(log) <= Len(log')
  BY LogTypes DEF Grows
<1>2. e.seq \in n + 1 .. Len(log) /\ e.seq \in 1 .. Len(log)
  BY <1>1 DEF Confirmed
<1>3. log'[e.seq] = log[e.seq] /\ e.seq \in n + 1 .. Len(log')
  BY <1>1, <1>2 DEF Grows
<1> QED BY <1>3 DEF Confirmed

LEMMA RestStays ==
  ASSUME TypeOK, Grows, NEW d \in Device, RowsSame(d), NumbersFit(d), RestFits(d)
  PROVE  RestFits(d)'
<1>1. meta[d].cursor \in 0 .. Len(log) /\ meta[d].cursor \in Nat
  BY LogTypes, DeviceTypes DEF NumbersFit
<1>2. \A i \in Id : ents[d][i] \in Entity \union {None}
  BY DeviceTypes
<1>3. PICK c : c = meta[d].cursor
  OBVIOUS
<1>4. ASSUME NEW i \in Id, Queued(d, i)' = {}
      PROVE  IsCanonical(ents[d][i], i, c)' \/ Confirmed(ents[d][i], i, c)'
  <2>1. Queued(d, i) = {}
    BY <1>4 DEF RowsSame, Queued
  <2>2. PICK e : e = ents[d][i]
    OBVIOUS
  <2>3. IsCanonical(e, i, c) \/ Confirmed(e, i, c)
    BY <1>3, <2>1, <2>2 DEF RestFits
  <2>4. IsCanonical(e, i, c)' \/ Confirmed(e, i, c)'
    BY <1>1, <1>2, <1>3, <2>2, <2>3, CanonicalStays, ConfirmedStays
  <2>5. e = ents'[d][i]
    BY <2>2 DEF RowsSame
  <2> QED BY <2>2, <2>4, <2>5 DEF RowsSame, IsCanonical, Confirmed
<1> QED BY <1>3, <1>4 DEF RestFits, RowsSame, IsCanonical, Confirmed

LEMMA EditsStay ==
  ASSUME NEW d \in Device, outbox'[d] = outbox[d], ents'[d] = ents[d], EditsShow(d)
  PROVE  EditsShow(d)'
BY DEF EditsShow, Queued, NewerRevision

LEMMA RunStays ==
  ASSUME TypeOK, Grows, NEW d \in Device, RowsSame(d), run'[d] = run[d], RunFits(d)
  PROVE  RunFits(d)'
<1>1. PICK r : r = run[d]
  OBVIOUS
<1>2. r \in RunState
  BY <1>1, DeviceTypes
<1>3. Len(log) \in Nat /\ Len(log') \in Nat /\ Len(log) <= Len(log') /\ meta[d].cursor \in Nat
  BY LogTypes, DeviceTypes DEF Grows
<1>4. r.at \in {"sent", "answered"} => HeadFits(d, r.m)'
  BY <1>1 DEF RunFits, HeadFits, RowsSame
<1>5. ASSUME r.at = "answered"
      PROVE  \/ r.seq > 0 /\ [m |-> r.m, status |-> "applied", seq |-> r.seq] \in answers'
             \/ r.seq = 0 /\ Refused(r.m)'
  BY <1>1, <1>5, RefusedStays DEF RunFits, Grows
<1>6. ASSUME r.at = "pulling"
      PROVE  /\ r.after = meta'[d].cursor
             /\ r.until # None => r.after <= r.until /\ r.until <= Len(log')
  BY <1>1, <1>2, <1>3, <1>6, RunTypes DEF RunFits, RowsSame
<1>7. ASSUME r.at = "paged"
      PROVE  /\ meta'[d].cursor <= r.next /\ r.next <= r.until /\ r.until <= Len(log')
             /\ r.changes = {ChangeAt(n)' : n \in meta'[d].cursor + 1 .. r.next}
  <2>1. r.next \in Nat /\ r.until \in Nat
    BY <1>2, <1>7, RunTypes
  <2>2. /\ meta[d].cursor <= r.next /\ r.next <= r.until /\ r.until <= Len(log)
        /\ r.changes = {ChangeAt(n) : n \in meta[d].cursor + 1 .. r.next}
    BY <1>1, <1>7 DEF RunFits
  <2>3. \A n \in meta[d].cursor + 1 .. r.next : ChangeAt(n)' = ChangeAt(n)
    BY <1>3, <2>1, <2>2, ChangesStay
  <2>4. r.changes = {ChangeAt(n)' : n \in meta[d].cursor + 1 .. r.next}
    BY <2>2, <2>3
  <2>5. meta'[d].cursor = meta[d].cursor
    BY DEF RowsSame
  <2>6. r.until <= Len(log')
    BY <1>3, <2>1, <2>2
  <2> QED BY <2>2, <2>4, <2>5, <2>6
<1>8. r = run'[d]
  BY <1>1
<1> QED BY <1>4, <1>5, <1>6, <1>7, <1>8 DEF RunFits, HeadFits, Refused, ChangeAt

\* What is queued at a device stays late: the server's next number is beyond all it has shown.
LEMMA OutboxStays ==
  ASSUME TypeOK, NEW m, (m \in Mutation /\ Serve(m)) \/ UNCHANGED <<log, answers>>,
         NEW d \in Device, RowsSame(d), minted \subseteq minted', NumbersFit(d), OutboxFits(d)
  PROVE  OutboxFits(d)'
<1>1. Grows
  BY ServeGrows, SameGrows
<1>2. Len(log) \in Nat /\ DOMAIN log = 1 .. Len(log) /\ meta[d].cursor \in Nat
  BY LogTypes, DeviceTypes
<1>3. ASSUME NEW x \in outbox[d], NEW n \in DOMAIN log', log'[n].by = x.m
      PROVE  meta[d].cursor < n /\ ents[d][x.m.id].seq < n
  <2>1. CASE n \in DOMAIN log
    <3>1. log'[n] = log[n]
      BY <1>1, <1>2, <2>1 DEF Grows
    <3> QED BY <1>3, <2>1, <3>1 DEF OutboxFits, QueuedLate
  <2>2. CASE n \notin DOMAIN log
    <3>1. m \in Mutation /\ Effect(m)
      BY <2>2, ServeSteps DEF Refusal
    <3>2. n = Len(log) + 1
      <4>1. DOMAIN log' = 1 .. Len(log) + 1
        BY <3>1, EffectLog
      <4> QED BY <1>2, <2>2, <4>1
    <3>3. meta[d].cursor <= Len(log)
      BY DEF NumbersFit
    <3>4. x.m.id \in Id /\ ents[d][x.m.id] # None
      BY ItemTypes DEF OutboxFits
    <3>5. ents[d][x.m.id].seq <= Len(log) /\ ents[d][x.m.id].seq \in Nat
      BY <3>4, DeviceTypes DEF NumbersFit, Entity
    <3> QED BY <1>2, <3>2, <3>3, <3>5
  <2> QED BY <2>1, <2>2
<1>4. ASSUME NEW x \in outbox[d]
      PROVE  /\ x.m \in minted' /\ x.m.dev = d /\ ents[d][x.m.id] # None
             /\ \A y \in outbox[d] : y.m.n = x.m.n => y = x
             /\ x.status = "blocked" => Refused(x.m)'
             /\ \A n \in DOMAIN log' : log'[n].by = x.m =>
                  meta[d].cursor < n /\ ents[d][x.m.id].seq < n
  <2>1. PICK k : k = x.m
    OBVIOUS
  <2>2. x.status = "blocked" => Refused(k)'
    BY <1>1, <2>1, RefusedStays DEF OutboxFits
  <2> QED BY <1>3, <2>1, <2>2 DEF OutboxFits, Refused
<1> QED BY <1>4 DEF OutboxFits, QueuedLate, RowsSame

-----------------------------------------------------------------------------
(* Steps that edit nothing *)

Front(m) == \A x \in outbox[m.dev] : m = x.m \/ m.n < x.m.n

LEMMA OrderStays ==
  ASSUME TypeOK, OrderFits, minted' = minted,
         \A m \in minted : Live(m)' => Live(m) \/ Front(m),
         \A d \in Device : \A x \in outbox'[d] : \E y \in outbox[d] : y.m = x.m
  PROVE  OrderFits'
<1>1. ASSUME NEW m \in minted, Live(m)', NEW x \in outbox'[m.dev]
      PROVE  m = x.m \/ m.n < x.m.n
  <2>1. Front(m)
    BY <1>1 DEF OrderFits, Front
  <2>2. m.dev \in Device
    BY DEF TypeOK, Mutation
  <2>3. PICK y \in outbox[m.dev] : y.m = x.m
    BY <2>2
  <2> QED BY <2>1, <2>3 DEF Front
<1> QED BY <1>1 DEF OrderFits

LEMMA LiveByServing ==
  ASSUME NEW k, Sent(k), Serve(k), NEW m, Live(m)', Sent(m)' => Sent(m)
  PROVE  Live(m)
<1>1. answers \subseteq answers'
  BY ServeSteps DEF Effect, Refusal
<1>2. Refused(m) => Refused(m)'
  BY <1>1 DEF Refused
<1>3. CASE Sent(m)' /\ ~Refused(m)'
  BY <1>2, <1>3 DEF Live
<1>4. CASE Applied(m)'
  <2>1. PICK r \in answers' : r.m = m /\ r.status = "applied"
    BY <1>4, AppliedByNext
  <2>2. CASE r \in answers
    BY <2>1, <2>2, AppliedBy DEF Live
  <2>3. CASE r \notin answers
    <3>1. Effect(k) /\ m = k
      BY <2>1, <2>3, ServeSteps DEF Effect, Refusal
    <3>2. ~Refused(k)
      BY <3>1 DEF Effect, Unanswered, Refused
    <3> QED BY <3>1, <3>2 DEF Live
  <2> QED BY <2>2, <2>3
<1> QED BY <1>3, <1>4 DEF Live

LEMMA LiveUnserved ==
  ASSUME UNCHANGED answers, NEW m, Live(m)', Sent(m)' => Sent(m) \/ Front(m)
  PROVE  Live(m) \/ Front(m)
BY DEF Live, Applied, Refused

LEMMA LossStays ==
  ASSUME TypeOK, NothingLost, Grows, minted' = minted, dropped \subseteq dropped',
         \A d \in Device : \A x \in outbox[d] :
            \/ \E y \in outbox'[d] : y.m = x.m
            \/ x.m.mid \in dropped'
            \/ Applied(x.m)'
  PROVE  NothingLost'
<1>1. ASSUME NEW m \in minted
      PROVE  \/ m.mid \in dropped'
             \/ \E x \in outbox'[m.dev] : x.m = m
             \/ Applied(m)'
  <2>1. m.dev \in Device
    BY DEF TypeOK, Mutation
  <2>2. CASE m.mid \in dropped \/ Applied(m)
    BY <2>2, AppliedStays
  <2>3. ASSUME NEW x \in outbox[m.dev], x.m = m
        PROVE  \/ m.mid \in dropped'
               \/ \E y \in outbox'[m.dev] : y.m = m
               \/ Applied(m)'
    BY <2>1, <2>3
  <2> QED BY <2>2, <2>3 DEF NothingLost
<1> QED BY <1>1 DEF NothingLost

\* The server serves m, or not; one device goes on.
LEMMA NoEdit ==
  ASSUME SInv, NEW d \in Device, NEW m,
         (m \in minted /\ Sent(m) /\ Serve(m) /\ \A k \in minted : Sent(k)' => Sent(k))
           \/ UNCHANGED <<log, answers>>,
         UNCHANGED <<ents, outbox, minted, dropped>>, FlagsOnly,
         run' \in [Device -> RunState], \A e \in Device \ {d} : run'[e] = run[e], RunFits(d)',
         stale' \subseteq minted,
         \A k \in minted : Sent(k)' => Sent(k) \/ Front(k)
  PROVE  SInv'
<1> USE DEF SInv
<1>1. (m \in Mutation /\ Serve(m)) \/ UNCHANGED <<log, answers>>
  BY DEF TypeOK
<1>2. Grows
  BY <1>1, ServeGrows, SameGrows
<1>3. TypeOK'
  BY <1>2 DEF TypeOK, Grows, FlagsOnly
<1>4. AnswersFit'
  <2>1. CASE UNCHANGED <<log, answers>>
    BY <2>1 DEF AnswersFit, IsChange
  <2>2. CASE m \in minted /\ Serve(m)
    BY <2>2, ServeAnswers
  <2> QED BY <2>1, <2>2
<1>5. LogFits'
  <2>1. CASE UNCHANGED <<log, answers>>
    BY <2>1 DEF LogFits
  <2>2. CASE m \in Mutation /\ Serve(m)
    BY <2>2, ServeLog
  <2> QED BY <1>1, <2>1, <2>2
<1>6. MintedFits'
  <2>1. \A k \in minted : k.dev \in Device
    BY DEF TypeOK, Mutation
  <2> QED BY <2>1 DEF MintedFits, FlagsOnly
<1>7. OrderFits'
  <2>1. ASSUME NEW k \in minted, Live(k)'
        PROVE  Live(k) \/ Front(k)
    BY <2>1, LiveByServing, LiveUnserved
  <2> QED BY <2>1, OrderStays
<1>8. NothingLost'
  BY <1>2, LossStays
<1>9. ASSUME NEW e \in Device
      PROVE  Fits(e)'
  <2>1. RowsSame(e)
    BY DEF RowsSame, FlagsOnly
  <2>2. OutboxFits(e)' /\ NumbersFit(e)'
    BY <1>1, <1>2, <2>1, OutboxStays, NumbersStay DEF Fits
  <2>3. EditsShow(e)' /\ RestFits(e)'
    BY <1>2, <2>1, EditsStay, RestStays DEF Fits, RowsSame
  <2>4. RunFits(e)'
    BY <1>2, <2>1, RunStays DEF Fits
  <2> QED BY <2>2, <2>3, <2>4 DEF Fits
<1> QED BY <1>3, <1>4, <1>5, <1>6, <1>7, <1>8, <1>9

LEMMA SentIsQueued ==
  ASSUME SInv, NEW d \in Device, run[d].at \in {"sent", "answered"}
  PROVE  /\ run[d].m \in minted /\ run[d].m.dev = d
         /\ \E x \in outbox[d] : x.m = run[d].m /\ x.status = "pending"
<1>1. PICK x \in outbox[d] : x.m = run[d].m /\ x.status = "pending"
  BY DEF SInv, Fits, RunFits, HeadFits
<1>2. x.m \in minted /\ x.m.dev = d
  BY DEF SInv, Fits, OutboxFits
<1> QED BY <1>1, <1>2

\* The run goes on without a request under way; one that was stays under way, or is served.
LEMMA Unsent ==
  ASSUME SInv, NEW d \in Device, NEW r \in RunState, r.at # "sent", Goto(d, r),
         stale' \subseteq StillUnderWay(d)
  PROVE  /\ \A k : Sent(k)' => Sent(k)
         /\ stale' \subseteq minted
         /\ run' \in [Device -> RunState] /\ run'[d] = r
         /\ \A e \in Device \ {d} : run'[e] = run[e]
<1>1. /\ run' \in [Device -> RunState] /\ run'[d] = r
      /\ \A e \in Device \ {d} : run'[e] = run[e]
  BY Going DEF SInv
<1>2. ASSUME NEW k \in stale'
      PROVE  Sent(k) /\ k \in minted
  <2>1. CASE k \in stale
    BY <2>1 DEF SInv, Sent
  <2>2. CASE k \notin stale
    <3>1. run[d].at = "sent" /\ k = run[d].m
      BY <2>2 DEF StillUnderWay
    <3> QED BY <3>1, SentIsQueued DEF Sent
  <2> QED BY <2>1, <2>2
<1>3. ASSUME NEW k, NEW e \in Device, run'[e].at = "sent", run'[e].m = k
      PROVE  Sent(k)
  BY <1>1, <1>3 DEF Sent
<1> QED BY <1>1, <1>2, <1>3 DEF Sent

\* A run that goes on by itself
LEMMA Onward ==
  ASSUME SInv, NEW d \in Device, NEW r \in RunState, r.at # "sent", Goto(d, r),
         stale' \subseteq StillUnderWay(d), RunFits(d)', FlagsOnly,
         UNCHANGED <<log, answers, ents, outbox, minted, dropped>>
  PROVE  SInv'
BY NoEdit, Unsent

\* ... to a place where it remembers nothing of rows or requests
LEMMA OnwardPlain ==
  ASSUME SInv, NEW d \in Device, NEW r \in RunState,
         r.at \in {"idle", "booting", "pushing", "pulled"}, Goto(d, r),
         stale' \subseteq StillUnderWay(d), FlagsOnly,
         UNCHANGED <<log, answers, ents, outbox, minted, dropped>>
  PROVE  SInv'
<1>1. run'[d] = r
  BY Going DEF SInv
<1>2. RunFits(d)'
  BY <1>1 DEF RunFits
<1> QED BY <1>2, Onward

-----------------------------------------------------------------------------
(* The steps of a run that edit nothing *)

LEMMA Places ==
  /\ Idle \in RunState /\ Idle.at = "idle"
  /\ [at |-> "booting", mode |-> "sync"] \in RunState
  /\ \A n \in Nat : [at |-> "pushing", mode |-> "sync", through |-> n] \in RunState
  /\ \A n \in Nat, m \in Mutation :
       [at |-> "sent", mode |-> "sync", through |-> n, m |-> m] \in RunState
  /\ \A n, s \in Nat, m \in Mutation :
       [at |-> "answered", mode |-> "sync", through |-> n, m |-> m, seq |-> s] \in RunState
  /\ \A k \in {"sync", "restore"}, n \in Nat, u \in Nat \union {None} :
       [at |-> "pulling", mode |-> k, after |-> n, until |-> u] \in RunState
  /\ \A k \in {"sync", "restore"}, n, u \in Nat, cs \in SUBSET Change :
       [at |-> "paged", mode |-> k, until |-> u, next |-> n, changes |-> cs] \in RunState
  /\ \A k \in {"sync", "restore"} : [at |-> "pulled", mode |-> k] \in RunState
BY DEF RunState, Idle

LEMMA StaleStays ==
  ASSUME NEW d \in Device, stale' = stale \/ stale' = StillUnderWay(d)
  PROVE  stale' \subseteq StillUnderWay(d)
BY DEF StillUnderWay

LEMMA runSyncKeeps ==
  ASSUME SInv, NEW d \in Device, runSync(d)
  PROVE  SInv'
<1>1. PICK r : r = [at |-> "booting", mode |-> "sync"]
  OBVIOUS
<1>2. r \in RunState /\ r.at = "booting" /\ Goto(d, r)
  BY <1>1, Places DEF runSync
<1>3. FlagsOnly
  BY SettingError DEF SInv, runSync
<1>4. stale' \subseteq StillUnderWay(d)
  BY StaleStays DEF runSync, serverVars, history, SInv, TypeOK
<1> QED BY <1>2, <1>3, <1>4, OnwardPlain DEF runSync, serverVars, history

\* Natural numbers are founded: a set of them has a least element, ...
Below == {ss \in Nat \X Nat : ss[1] < ss[2]}

LEMMA BelowIsLess == \A x, y \in Nat : <<x, y>> \in Below <=> x < y
BY DEF Below

LEMMA BelowIsFounded == IsWellFoundedOn(Below, Nat)
<1>1. Below = OpToRel(<, Nat)
  BY DEF Below, OpToRel
<1> QED BY <1>1, NatLessThanWellFounded, Zenon

LEMMA Least ==
  ASSUME NEW T \in SUBSET Nat, T # {}
  PROVE  \E m \in T : \A k \in T : m <= k
<1>1. PICK m \in T : \A k \in T : <<k, m>> \notin Below
  BY WFMin, BelowIsFounded
<1>2. \A k \in T : ~(k < m)
  BY <1>1, BelowIsLess
<1> QED BY <1>2

\* ... and a greatest one if it is bounded.
LEMMA Greatest ==
  ASSUME NEW T \in SUBSET Nat, T # {}, NEW b \in Nat, \A k \in T : k <= b
  PROVE  \E m \in T : \A k \in T : k <= m
<1> DEFINE U == {b - k : k \in T}
<1>1. U \subseteq Nat
  <2>1. ASSUME NEW k \in T PROVE b - k \in Nat
    BY <2>1
  <2> QED BY <2>1
<1>2. U # {}
  OBVIOUS
<1>3. PICK m \in U : \A k \in U : m <= k
  BY <1>1, <1>2, Least
<1>4. PICK t \in T : m = b - t
  OBVIOUS
<1>5. ASSUME NEW k \in T PROVE k <= t
  <2>1. b - t <= b - k
    BY <1>3, <1>4
  <2> QED BY <2>1
<1> QED BY <1>5

LEMMA Watermark ==
  ASSUME SInv, NEW d \in Device
  PROVE  getOutboxHighWatermark(d) \in Nat
<1>1. CASE outbox[d] = {}
  BY <1>1 DEF getOutboxHighWatermark
<1>2. CASE outbox[d] # {}
  <2> DEFINE T == {x.m.n : x \in outbox[d]}
  <2>1. ASSUME NEW x \in outbox[d]
        PROVE  x.m.n \in Nat /\ x.m.n <= meta[d].next
    <3>1. x.m \in minted /\ x.m.dev = d /\ x.m.n \in Nat /\ meta[d].next \in Nat
      BY ItemTypes, DeviceTypes DEF SInv, Fits, OutboxFits
    <3>2. x.m.n < meta[d].next
      BY <3>1 DEF SInv, MintedFits
    <3> QED BY <3>1, <3>2
  <2>2. T \in SUBSET Nat /\ T # {} /\ \A k \in T : k <= meta[d].next
    BY <1>2, <2>1
  <2>3. meta[d].next \in Nat
    BY DeviceTypes DEF SInv
  <2> HIDE DEF T
  <2>4. PICK m \in T : \A k \in T : k <= m
    BY <2>2, <2>3, Greatest
  <2>5. \A k \in T : m >= k
    BY <2>2, <2>4
  <2>6. Max(T) \in T
    BY <2>5 DEF Max
  <2>7. Max(T) \in Nat
    BY <2>2, <2>6
  <2> QED BY <1>2, <2>7 DEF T, getOutboxHighWatermark
<1> QED BY <1>1, <1>2

LEMMA bootstrapSyncKeeps ==
  ASSUME SInv, NEW d \in Device, bootstrapSync(d)
  PROVE  SInv'
<1>1. PICK r : r = [at |-> "pushing", mode |-> "sync", through |-> getOutboxHighWatermark(d)]
  OBVIOUS
<1>2. r \in RunState /\ r.at = "pushing" /\ Goto(d, r)
  BY <1>1, Places, Watermark DEF bootstrapSync
<1>3. FlagsOnly
  BY MetaSame DEF SInv, bootstrapSync
<1>4. stale' \subseteq StillUnderWay(d)
  BY StaleStays DEF bootstrapSync, serverVars, history, SInv, TypeOK
<1> QED BY <1>2, <1>3, <1>4, OnwardPlain DEF bootstrapSync, serverVars, history

\* The head of the queue is in front of it.
LEMMA sendNextKeeps ==
  ASSUME SInv, NEW d \in Device, sendNext(d)
  PROVE  SInv'
<1>1. PICK x \in outbox[d] :
        /\ run[d].at = "pushing" /\ IsNext(d, x) /\ x.status = "pending"
        /\ Goto(d, [at |-> "sent", mode |-> "sync", through |-> run[d].through, m |-> x.m])
        /\ UNCHANGED <<serverVars, ents, outbox, meta, history>>
  BY DEF sendNext
<1>2. PICK r : r = [at |-> "sent", mode |-> "sync", through |-> run[d].through, m |-> x.m]
  OBVIOUS
<1>3. run[d].through \in Nat /\ x.m \in Mutation
  BY <1>1, RunTypes, DeviceTypes, ItemTypes DEF SInv
<1>4. r \in RunState /\ r.at = "sent" /\ r.m = x.m /\ Goto(d, r)
  BY <1>1, <1>2, <1>3, Places
<1>5. /\ run' \in [Device -> RunState] /\ run'[d] = r
      /\ \A e \in Device \ {d} : run'[e] = run[e]
  BY <1>4, Going DEF SInv
<1>6. FlagsOnly
  BY <1>1, MetaSame DEF SInv
<1>7. RunFits(d)'
  <2>1. HeadFits(d, x.m)'
    BY <1>1 DEF HeadFits
  <2>2. PICK k : k = x.m
    OBVIOUS
  <2>3. HeadFits(d, k)'
    BY <2>1, <2>2 DEF HeadFits
  <2>4. r.m = k
    BY <1>4, <2>2
  <2> QED BY <1>4, <1>5, <2>3, <2>4 DEF RunFits, HeadFits
<1>8. Front(x.m)
  <2>1. x.m.dev = d
    BY DEF SInv, Fits, OutboxFits
  <2>2. ASSUME NEW y \in outbox[d]
        PROVE  x.m = y.m \/ x.m.n < y.m.n
    <3>1. x.m.n \in Nat /\ y.m.n \in Nat /\ x.m.n <= y.m.n
      BY <1>1, ItemTypes DEF SInv, IsNext
    <3>2. x.m.n = y.m.n => x = y
      BY DEF SInv, Fits, OutboxFits
    <3> QED BY <3>1, <3>2
  <2> QED BY <2>1, <2>2 DEF Front
<1>9. ASSUME NEW k, Sent(k)'
      PROVE  Sent(k) \/ Front(k)
  <2>1. CASE k \in stale'
    BY <1>1, <2>1 DEF Sent, serverVars
  <2>2. ASSUME NEW e \in Device, run'[e].at = "sent", run'[e].m = k
        PROVE  Sent(k) \/ Front(k)
    BY <1>4, <1>5, <1>8, <2>2 DEF Sent
  <2> QED BY <1>9, <2>1, <2>2 DEF Sent
<1>10. stale' \subseteq minted
  BY <1>1 DEF SInv, TypeOK, serverVars, history
<1> QED BY <1>1, <1>5, <1>6, <1>7, <1>9, <1>10, NoEdit DEF serverVars, history

LEMMA pushDoneKeeps ==
  ASSUME SInv, NEW d \in Device, pushDone(d)
  PROVE  SInv'
<1>1. UNCHANGED <<log, answers, ents, outbox, minted, dropped>>
  BY DEF pushDone, serverVars, history
<1>2. stale' \subseteq StillUnderWay(d)
  BY StaleStays DEF pushDone, serverVars, history, SInv, TypeOK
<1>3. CASE UNCHANGED meta /\ Goto(d, [at |-> "pulling", mode |-> "sync",
                                      after |-> meta[d].cursor, until |-> None])
  <2>1. PICK r : r = [at |-> "pulling", mode |-> "sync", after |-> meta[d].cursor, until |-> None]
    OBVIOUS
  <2>2. r \in RunState /\ r.at = "pulling" /\ Goto(d, r)
    BY <1>3, <2>1, Places, DeviceTypes DEF SInv
  <2>3. run'[d] = r
    BY <2>2, Going DEF SInv
  <2>4. RunFits(d)'
    BY <1>3, <2>1, <2>3 DEF RunFits
  <2>5. FlagsOnly
    BY <1>3, MetaSame DEF SInv
  <2> QED BY <1>1, <1>2, <2>2, <2>4, <2>5, Onward
<1>4. ASSUME NEW e \in BOOLEAN, SetError(d, e), Goto(d, Idle)
      PROVE  SInv'
  <2>1. FlagsOnly
    BY <1>4, SettingError DEF SInv
  <2> QED BY <1>1, <1>2, <1>4, <2>1, OnwardPlain, Places
<1>5. CASE \E x \in outbox[d] : SetError(d, x.status = "blocked") /\ Goto(d, Idle)
  <2>1. PICK e \in BOOLEAN : SetError(d, e) /\ Goto(d, Idle)
    BY <1>5
  <2> QED BY <1>4, <2>1
<1> QED BY <1>3, <1>5 DEF pushDone

LEMMA servePushKeeps ==
  ASSUME SInv, NEW d \in Device, servePush(d)
  PROVE  SInv'
<1>1. PICK m : /\ run[d].at = "sent" /\ m = run[d].m /\ Serve(m)
               /\ Goto(d, [at |-> "answered", mode |-> "sync", through |-> run[d].through,
                           m |-> m, seq |-> Verdict(m)'])
               /\ UNCHANGED <<stale, ents, outbox, meta, history>>
  BY DEF servePush
<1>2. /\ m \in minted /\ m \in Mutation /\ Sent(m) /\ run[d].through \in Nat
      /\ \E x \in outbox[d] : x.m = m /\ x.status = "pending"
  <2>1. m \in minted /\ \E x \in outbox[d] : x.m = m /\ x.status = "pending"
    BY <1>1, SentIsQueued
  <2>2. m \in Mutation
    BY <2>1 DEF SInv, TypeOK
  <2>3. run[d].through \in Nat
    BY <1>1, RunTypes, DeviceTypes DEF SInv
  <2>4. Sent(m)
    BY <1>1 DEF Sent
  <2> QED BY <2>1, <2>2, <2>3, <2>4
<1>3. PICK s : s = Verdict(m)'
  OBVIOUS
<1>4. /\ s \in Nat
      /\ \/ s > 0 /\ [m |-> m, status |-> "applied", seq |-> s] \in answers'
         \/ s = 0 /\ Refused(m)'
  <2>1. AnswersFit' /\ Grows
    BY <1>1, <1>2, ServeAnswers, ServeGrows DEF SInv, history
  <2>2. CASE \E r \in answers' : r.m = m
    <3>1. PICK r \in answers' : r.m = m
      BY <2>2
    <3>2. \A q \in answers' : q.m = m => q = r
      BY <2>1, <3>1 DEF AnswersFit
    <3>3. Server!AnswerTo(m)' = r
      BY <3>1, <3>2 DEF Server!AnswerTo
    <3>4. Server!Answered(m)'
      BY <3>1 DEF Server!Answered
    <3>5. s = r.seq
      BY <1>3, <3>3, <3>4 DEF Verdict
    <3>6. r \in [m : Mutation, status : {"applied", "duplicate", "rejected"}, seq : Nat]
      BY <2>1, <3>1 DEF Grows
    <3>7. CASE r.status = "applied" /\ IsChange(r.seq, m)'
      <4>1. r.seq \in 1 .. Len(log') /\ Len(log') \in Nat
        BY <2>1, <3>7 DEF IsChange, Grows
      <4>2. r = [m |-> m, status |-> "applied", seq |-> s]
        BY <3>1, <3>5, <3>6, <3>7
      <4> QED BY <3>1, <3>5, <4>1, <4>2
    <3>8. CASE r.status = "rejected" /\ r.seq = 0
      BY <3>1, <3>5, <3>8 DEF Refused
    <3>9. \/ r.status = "applied" /\ IsChange(r.seq, m)'
          \/ r.status = "rejected" /\ r.seq = 0
      BY <2>1, <3>1 DEF AnswersFit, IsChange
    <3> QED BY <3>7, <3>8, <3>9
  <2>3. CASE ~\E r \in answers' : r.m = m
    <3>1. ~Server!Answered(m)'
      BY <2>3 DEF Server!Answered
    <3>2. s = 0
      BY <1>3, <3>1 DEF Verdict
    <3>3. m.mid \in Malformed
      <4>1. ASSUME NEW a, a.m = m, answers' = answers \union {a}
            PROVE  FALSE
        BY <2>3, <4>1
      <4>2. ~Effect(m) /\ ~Refusal(m)
        <5>1. PICK a : a = [m |-> m, status |-> "applied", seq |-> Len(log) + 1]
          OBVIOUS
        <5>2. PICK b : b = [m |-> m, status |-> "rejected", seq |-> 0]
          OBVIOUS
        <5>3. a.m = m /\ b.m = m
          BY <5>1, <5>2
        <5> QED BY <4>1, <5>1, <5>2, <5>3 DEF Effect, Refusal
      <4>3. UNCHANGED answers => Unanswered(m)
        BY <2>3 DEF Unanswered
      <4> QED BY <1>1, <4>2, <4>3, ServeSteps
    <3> QED BY <3>2, <3>3 DEF Refused
  <2> QED BY <2>2, <2>3
<1>5. PICK r : r = [at |-> "answered", mode |-> "sync", through |-> run[d].through,
                    m |-> m, seq |-> s]
  OBVIOUS
<1>6. r \in RunState /\ r.at = "answered" /\ r.m = m /\ r.seq = s
  BY <1>2, <1>4, <1>5, Places
<1>7. Goto(d, r)
  BY <1>1, <1>3, <1>5
<1>8. stale' \subseteq StillUnderWay(d)
  BY <1>1, StaleStays
<1>9. /\ \A k : Sent(k)' => Sent(k)
      /\ stale' \subseteq minted
      /\ run' \in [Device -> RunState] /\ run'[d] = r
      /\ \A e \in Device \ {d} : run'[e] = run[e]
  BY <1>6, <1>7, <1>8, Unsent
<1>10. RunFits(d)'
  <2>1. HeadFits(d, m)'
    BY <1>1, <1>2 DEF HeadFits
  <2>2. \/ r.seq > 0 /\ [m |-> r.m, status |-> "applied", seq |-> r.seq] \in answers'
        \/ r.seq = 0 /\ Refused(r.m)'
    BY <1>4, <1>6 DEF Refused
  <2> QED BY <1>6, <1>9, <2>1, <2>2 DEF RunFits, HeadFits, Refused
<1>11. FlagsOnly
  BY <1>1, MetaSame DEF SInv, TypeOK, history
<1> QED BY <1>1, <1>2, <1>9, <1>10, <1>11, NoEdit DEF history

LEMMA ServeStaleKeeps ==
  ASSUME SInv, NEW m \in stale, ServeStale(m)
  PROVE  SInv'
<1>1. m \in minted /\ Sent(m) /\ Serve(m) /\ m.dev \in Device
  BY DEF ServeStale, SInv, TypeOK, Sent, Mutation
<1>2. \A k : Sent(k)' => Sent(k)
  BY DEF ServeStale, Sent
<1>3. FlagsOnly
  BY MetaSame DEF SInv, ServeStale
<1>4. RunFits(m.dev)'
  <2>1. m \in Mutation
    BY <1>1 DEF SInv, TypeOK
  <2>2. Grows /\ RowsSame(m.dev) /\ RunFits(m.dev)
    BY <1>1, <2>1, ServeGrows DEF SInv, Fits, RowsSame, ServeStale
  <2>3. run' = run /\ TypeOK
    BY DEF ServeStale, SInv
  <2> QED BY <1>1, <2>2, <2>3, RunStays
<1>5. stale' \subseteq minted /\ run' \in [Device -> RunState]
  BY DEF ServeStale, SInv, TypeOK, history
<1> QED BY <1>1, <1>2, <1>3, <1>4, <1>5, NoEdit DEF ServeStale, history

\* The page holds the changes behind the cursor.
LEMMA servePullKeeps ==
  ASSUME SInv, NEW d \in Device, servePull(d)
  PROVE  SInv'
<1>1. PICK c : c = meta[d].cursor
  OBVIOUS
<1>2. PICK u : u = (IF run[d].until = None THEN Len(log) ELSE run[d].until)
  OBVIOUS
<1>3. PICK n : n = Server!UpTo(c, u, PageLimit)
  OBVIOUS
<1>4. PICK cs : cs = {ChangeAt(k) : k \in c + 1 .. n}
  OBVIOUS
<1>5. /\ run[d].at = "pulling" /\ run[d].after = c /\ run[d].mode \in {"sync", "restore"}
      /\ run[d].until \in Nat \union {None}
      /\ run[d].until # None => c <= run[d].until /\ run[d].until <= Len(log)
  BY <1>1, DeviceTypes, RunTypes DEF servePull, SInv, Fits, RunFits
<1>6. c \in Nat /\ Len(log) \in Nat /\ c <= Len(log)
  BY <1>1, DeviceTypes, LogTypes DEF SInv, Fits, NumbersFit
<1>7. u \in Nat /\ c <= u /\ u <= Len(log)
  BY <1>2, <1>5, <1>6
<1>8. n \in Nat /\ c <= n /\ n <= u
  BY <1>3, <1>6, <1>7, BoundAssumption DEF Server!UpTo
<1>9. cs \in SUBSET Change
  <2>1. \A k \in c + 1 .. n : ChangeAt(k) \in Change
    BY <1>6, <1>7, <1>8, LogTypes DEF SInv
  <2> QED BY <1>4, <2>1
<1>10. PICK r : r = [at |-> "paged", mode |-> run[d].mode, until |-> u, next |-> n, changes |-> cs]
  OBVIOUS
<1>11. r \in RunState /\ r.at = "paged" /\ r.until = u /\ r.next = n /\ r.changes = cs
  BY <1>5, <1>7, <1>8, <1>9, <1>10, Places
<1>12. Goto(d, r)
  BY <1>2, <1>3, <1>4, <1>5, <1>10 DEF servePull
<1>13. run'[d] = r
  BY <1>11, <1>12, Going DEF SInv
<1>14. UNCHANGED <<log, answers, ents, outbox, meta, minted, dropped, stale>>
  BY DEF servePull, serverVars, history
<1>15. RunFits(d)'
  <2>1. cs = {ChangeAt(k)' : k \in meta'[d].cursor + 1 .. n}
    BY <1>1, <1>4, <1>14 DEF ChangeAt
  <2>2. meta'[d].cursor = c /\ log' = log
    BY <1>1, <1>14
  <2> QED BY <1>7, <1>8, <1>11, <1>13, <2>1, <2>2 DEF RunFits, ChangeAt
<1>16. FlagsOnly /\ stale' \subseteq StillUnderWay(d)
  BY <1>14, MetaSame, StaleStays DEF SInv, TypeOK
<1> QED BY <1>11, <1>12, <1>14, <1>15, <1>16, Onward

\* A run that ends, well or not, only sets flags.
LEMMA EndKeeps ==
  ASSUME SInv, NEW d \in Device, Goto(d, Idle), FlagsOnly,
         stale' = stale \/ stale' = StillUnderWay(d),
         UNCHANGED <<log, answers, ents, outbox, minted, dropped>>
  PROVE  SInv'
BY Places, StaleStays, OnwardPlain

LEMMA SettingFlags ==
  ASSUME TypeOK, NEW d \in Device, NEW e \in BOOLEAN,
         NEW o \in {"idle", "restoring", "restore_failed"},
         meta' = [meta EXCEPT ![d].error = e, ![d].operation = o]
  PROVE  FlagsOnly
BY DEF TypeOK, FlagsOnly, Meta

LEMMA deferSyncKeeps ==
  ASSUME SInv, NEW d \in Device, deferSync(d)
  PROVE  SInv'
<1>1. FlagsOnly
  BY SettingError DEF SInv, TypeOK, deferSync, history
<1> QED BY <1>1, EndKeeps DEF deferSync, serverVars, history

LEMMA finishSyncKeeps ==
  ASSUME SInv, NEW d \in Device, finishSync(d)
  PROVE  SInv'
<1>1. FlagsOnly
  BY SettingError DEF SInv, TypeOK, finishSync, history
<1> QED BY <1>1, EndKeeps DEF finishSync, serverVars, history

LEMMA finishRestoreKeeps ==
  ASSUME SInv, NEW d \in Device, finishRestore(d)
  PROVE  SInv'
<1>1. FlagsOnly
  BY SettingFlags DEF SInv, TypeOK, finishRestore, history
<1> QED BY <1>1, EndKeeps DEF finishRestore, serverVars, history

LEMMA failKeeps ==
  ASSUME SInv, NEW d \in Device, fail(d)
  PROVE  SInv'
<1>1. OperationAfterFailure(d) \in {"idle", "restoring", "restore_failed"}
  BY DeviceTypes DEF SInv, OperationAfterFailure, Meta
<1>2. FlagsOnly
  BY <1>1, SettingFlags DEF SInv, TypeOK, fail, history
<1> QED BY <1>2, EndKeeps DEF fail, serverVars, history

LEMMA abandonKeeps ==
  ASSUME SInv, NEW d \in Device, abandon(d)
  PROVE  SInv'
<1>1. FlagsOnly
  BY MetaSame DEF SInv, TypeOK, abandon
<1> QED BY <1>1, EndKeeps DEF abandon

LEMMA resumeRestoreKeeps ==
  ASSUME SInv, NEW d \in Device, resumeRestore(d)
  PROVE  SInv'
<1>1. PICK r : r = [at |-> "pulling", mode |-> "restore", after |-> meta[d].cursor, until |-> None]
  OBVIOUS
<1>2. r \in RunState /\ r.at = "pulling" /\ Goto(d, r)
  BY <1>1, Places, DeviceTypes DEF SInv, resumeRestore, ResumeAfter
<1>3. run'[d] = r
  BY <1>2, Going DEF SInv
<1>4. FlagsOnly
  BY SettingFlags DEF SInv, resumeRestore
<1>5. RunFits(d)'
  BY <1>1, <1>3, <1>4 DEF RunFits, FlagsOnly
<1>6. stale' \subseteq StillUnderWay(d)
  BY StaleStays DEF resumeRestore, serverVars, history, SInv, TypeOK
<1> QED BY <1>2, <1>4, <1>5, <1>6, Onward DEF resumeRestore, serverVars, history

-----------------------------------------------------------------------------
(* The steps of a run that change rows *)

\* The other devices do not notice.
LEMMA OthersStay ==
  ASSUME SInv, NEW e \in Device, UNCHANGED <<log, answers>>, minted \subseteq minted',
         RowsSame(e), run'[e] = run[e]
  PROVE  Fits(e)'
<1>1. TypeOK /\ Fits(e) /\ Grows
  BY SameGrows DEF SInv
<1>2. OutboxFits(e)' /\ NumbersFit(e)'
  <2>1. PICK m : TRUE
    OBVIOUS
  <2> QED BY <1>1, OutboxStays, NumbersStay DEF Fits
<1>3. EditsShow(e)' /\ RestFits(e)'
  BY <1>1, EditsStay, RestStays DEF Fits, RowsSame
<1>4. RunFits(e)'
  BY <1>1, RunStays DEF Fits
<1> QED BY <1>2, <1>3, <1>4 DEF Fits

\* One device changes its rows, and the server is not asked.
LEMMA OneDevice ==
  ASSUME SInv, NEW d \in Device, UNCHANGED <<log, answers>>, minted \subseteq minted',
         TypeOK', MintedFits', stale' \subseteq minted', OrderFits', NothingLost', Fits(d)',
         \A e \in Device \ {d} : RowsSame(e) /\ run'[e] = run[e]
  PROVE  SInv'
<1>1. AnswersFit'
  BY DEF SInv, AnswersFit, IsChange
<1>2. LogFits'
  BY DEF SInv, LogFits
<1>3. ASSUME NEW e \in Device
      PROVE  Fits(e)'
  BY OthersStay
<1> QED BY <1>1, <1>2, <1>3 DEF SInv

LEMMA MintedSame ==
  ASSUME TypeOK, MintedFits, minted' = minted, \A e \in Device : meta'[e].next = meta[e].next
  PROVE  MintedFits'
<1>1. \A k \in minted : k.dev \in Device
  BY DEF TypeOK, Mutation
<1> QED BY <1>1 DEF MintedFits

\* The verdict of an applied mutation is its place in the log, behind all its row has shown.
LEMMA Acknowledged ==
  ASSUME SInv, NEW d \in Device, run[d].at = "answered", run[d].seq > 0
  PROVE  /\ run[d].m \in minted /\ run[d].m.dev = d /\ run[d].m \in Mutation
         /\ Applied(run[d].m)
         /\ \E x \in outbox[d] : x.m = run[d].m
         /\ run[d].seq \in meta[d].cursor + 1 .. Len(log)
         /\ log[run[d].seq].id = run[d].m.id /\ log[run[d].seq].by = run[d].m
         /\ run[d].m.id \in Id /\ ents[d][run[d].m.id] # None
         /\ ents[d][run[d].m.id].seq < run[d].seq
         /\ \A y \in outbox[d] : y.m = run[d].m \/ run[d].m.n < y.m.n
<1>1. PICK m, s : m = run[d].m /\ s = run[d].seq
  OBVIOUS
<1>2. PICK x \in outbox[d] : x.m = m
  BY <1>1, SentIsQueued
<1>3. m \in minted /\ m.dev = d /\ m \in Mutation /\ m.id \in Id
  BY <1>1, SentIsQueued DEF SInv, TypeOK, Mutation
<1>4. PICK r \in answers : r.m = m /\ r.status = "applied" /\ r.seq = s
  <2>1. [m |-> m, status |-> "applied", seq |-> s] \in answers
    BY <1>1, DeviceTypes, RunTypes DEF SInv, Fits, RunFits
  <2> QED BY <2>1
<1>5. s \in 1 .. Len(log) /\ log[s] = [id |-> m.id, by |-> m]
  BY <1>4, LogTypes DEF SInv, AnswersFit, IsChange
<1>6. Applied(m)
  BY <1>4, AppliedBy
<1>7. meta[d].cursor < s /\ ents[d][m.id] # None /\ ents[d][m.id].seq < s
  BY <1>2, <1>5, LogTypes DEF SInv, Fits, OutboxFits, QueuedLate
<1>8. s \in meta[d].cursor + 1 .. Len(log)
  BY <1>5, <1>7, DeviceTypes, LogTypes DEF SInv
<1>9. \A y \in outbox[d] : y.m = m \/ m.n < y.m.n
  BY <1>3, <1>6 DEF SInv, OrderFits, Live
<1> QED BY <1>1, <1>2, <1>3, <1>5, <1>6, <1>7, <1>8, <1>9

LEMMA acknowledgeKeeps ==
  ASSUME SInv, NEW d \in Device, acknowledge(d)
  PROVE  SInv'
<1>1. PICK m, s : m = run[d].m /\ s = run[d].seq
  OBVIOUS
<1>2. PICK i : i = m.id
  OBVIOUS
<1>3. /\ m \in minted /\ m.dev = d /\ m \in Mutation /\ Applied(m)
      /\ s \in meta[d].cursor + 1 .. Len(log)
      /\ log[s].id = i /\ log[s].by = m
      /\ i \in Id /\ ents[d][i] # None /\ ents[d][i].seq < s
      /\ \A y \in outbox[d] : y.m = m \/ m.n < y.m.n
  BY <1>1, <1>2, Acknowledged DEF acknowledge
<1>4. PICK h \in outbox[d] : h.m = m
  BY <1>1, Acknowledged DEF acknowledge
<1>5. /\ meta[d].cursor \in Nat /\ Len(log) \in Nat /\ s \in Nat /\ m.n \in Nat
      /\ ents[d][i] \in Entity /\ ents[d][i].seq \in Nat /\ TypeOK
      /\ \A j \in Id : ents[d][j] \in Entity \union {None}
  <2>1. TypeOK
    BY DEF SInv
  <2>2. meta[d].cursor \in Nat /\ Len(log) \in Nat /\ \A j \in Id : ents[d][j] \in Entity \union {None}
    BY <2>1, DeviceTypes, LogTypes
  <2>3. s \in Nat
    BY <1>3, <2>2
  <2> QED BY <1>3, <2>1, <2>2, <2>3 DEF Mutation, Entity
<1>6. /\ outbox' = [outbox EXCEPT ![d] = {x \in @ : x.m # m}]
      /\ UNCHANGED <<log, answers, stale, meta, minted, dropped>>
      /\ Goto(d, [at |-> "pushing", mode |-> "sync", through |-> run[d].through])
  BY <1>1 DEF acknowledge, serverVars, history
<1>7. ents' = IF NewerRevision(d, m) THEN ents ELSE [ents EXCEPT ![d][i].seq = s]
  BY <1>1, <1>2, <1>3, <1>5 DEF acknowledge
<1>8. \A x : x \in outbox'[d] <=> x \in outbox[d] /\ x.m # m
  BY <1>5, <1>6 DEF TypeOK
<1>9. /\ \A j \in Id \ {i} : ents'[d][j] = ents[d][j]
      /\ NewerRevision(d, m) => ents'[d][i] = ents[d][i]
      /\ ~NewerRevision(d, m) => /\ ents'[d][i] \in Entity /\ ents'[d][i].by = ents[d][i].by
                                 /\ ents'[d][i].seq = s
      /\ \A e \in Device \ {d} : ents'[e] = ents[e]
      /\ ents' \in [Device -> [Id -> Entity \union {None}]]
  BY <1>3, <1>5, <1>7 DEF TypeOK, Entity
<1>10. PICK r : r = [at |-> "pushing", mode |-> "sync", through |-> run[d].through]
  OBVIOUS
<1>11. r \in RunState /\ r.at = "pushing" /\ Goto(d, r)
  <2>1. run[d].through \in Nat
    BY <1>5, DeviceTypes, RunTypes DEF acknowledge
  <2> QED BY <1>6, <1>10, <2>1, Places
<1>12. /\ \A k : Sent(k)' => Sent(k)
       /\ stale' \subseteq minted
       /\ run' \in [Device -> RunState] /\ run'[d] = r
       /\ \A e \in Device \ {d} : run'[e] = run[e]
  <2>1. stale' \subseteq StillUnderWay(d)
    BY <1>6, StaleStays
  <2> QED BY <1>11, <2>1, Unsent
<1>13. TypeOK'
  <2>1. outbox' \in [Device -> SUBSET Item]
    BY <1>5, <1>6 DEF TypeOK
  <2> QED BY <1>5, <1>6, <1>9, <1>12, <2>1 DEF TypeOK
<1>14. OrderFits'
  <2>1. \A e \in Device : outbox'[e] \subseteq outbox[e]
    BY <1>5, <1>6 DEF TypeOK
  <2>2. ASSUME NEW k \in minted, Live(k)'
        PROVE  Live(k) \/ Front(k)
    BY <1>6, <1>12, <2>2, LiveUnserved
  <2> QED BY <1>5, <1>6, <2>1, <2>2, OrderStays DEF SInv
<1>15. NothingLost'
  <2>1. Grows
    BY <1>5, <1>6, SameGrows
  <2>2. ASSUME NEW e \in Device, NEW x \in outbox[e]
        PROVE  x \in outbox'[e] \/ Applied(x.m)'
    <3>1. CASE e = d /\ x.m = m
      <4>1. Applied(m)'
        BY <1>3, <1>6 DEF Applied
      <4> QED BY <3>1, <4>1 DEF Applied
    <3>2. CASE ~(e = d /\ x.m = m)
      BY <1>5, <1>6, <1>8, <3>2 DEF TypeOK
    <3> QED BY <3>1, <3>2
  <2> QED BY <1>5, <1>6, <2>1, <2>2, LossStays DEF SInv
<1>16. Fits(d)
  BY DEF SInv
<1>17. \A x \in outbox'[d] : x.m.id = i => NewerRevision(d, m)
  BY <1>2, <1>3, <1>8 DEF NewerRevision
<1>18. OutboxFits(d)'
  <2>1. ASSUME NEW x \in outbox'[d]
        PROVE  ents'[d][x.m.id] = ents[d][x.m.id]
    BY <1>5, <1>8, <1>9, <1>17, ItemTypes
  <2> QED BY <1>6, <1>8, <1>16, <2>1 DEF Fits, OutboxFits, QueuedLate, Refused
<1>19. RunFits(d)'
  BY <1>11, <1>12 DEF RunFits
<1>20. NumbersFit(d)'
  BY <1>3, <1>5, <1>6, <1>9, <1>16 DEF Fits, NumbersFit
<1>21. EditsShow(d)'
  <2>1. ASSUME NEW j \in Id, NEW x \in outbox'[d], x.m.id = j,
               ~\E y \in outbox'[d] : y.m.id = x.m.id /\ y.m.n > x.m.n
        PROVE  /\ ents'[d][j] # None
               /\ ents'[d][j].by = x.m.mid
               /\ ~ents'[d][j].canonical
    <3>1. m.n < x.m.n /\ x \in outbox[d]
      BY <1>3, <1>8
    <3>2. ~NewerRevision(d, x.m)
      <4>1. ASSUME NEW y \in outbox[d], y.m.id = x.m.id, y.m.n > x.m.n
            PROVE  FALSE
        <5>1. x.m.n \in Nat /\ y.m # m
          BY <1>5, <3>1, <4>1, ItemTypes
        <5> QED BY <1>8, <2>1, <4>1, <5>1
      <4> QED BY <4>1 DEF NewerRevision
    <3>3. ents'[d][j] = ents[d][j]
      BY <1>9, <1>17, <2>1
    <3> QED BY <1>16, <2>1, <3>1, <3>2, <3>3 DEF Fits, EditsShow, Queued
  <2> QED BY <2>1 DEF EditsShow, Queued, NewerRevision
<1>22. RestFits(d)'
  <2>1. ASSUME NEW j \in Id, j # i, {x \in outbox'[d] : x.m.id = j} = {}
        PROVE  IsCanonical(ents'[d][j], j, meta[d].cursor) \/ Confirmed(ents'[d][j], j, meta[d].cursor)
    <3>1. Queued(d, j) = {}
      BY <1>2, <1>8, <2>1 DEF Queued
    <3> QED BY <1>9, <1>16, <2>1, <3>1 DEF Fits, RestFits
  <2>2. ASSUME {x \in outbox'[d] : x.m.id = i} = {}
        PROVE  Confirmed(ents'[d][i], i, meta[d].cursor)
    <3>1. ~NewerRevision(d, m)
      <4>1. ASSUME NEW y \in outbox[d], y.m.id = i, y.m.n > m.n
            PROVE  FALSE
        <5>1. y.m # m
          BY <1>5, <4>1
        <5> QED BY <1>8, <2>2, <4>1, <5>1
      <4> QED BY <1>2, <4>1 DEF NewerRevision
    <3>2. ents[d][i].by = m.mid
      BY <1>2, <1>3, <1>4, <1>16, <3>1 DEF Fits, EditsShow, Queued
    <3>3. m # None
      BY <1>3, NoneAssumption
    <3>4. ents'[d][i] # None /\ ents'[d][i].by = m.mid /\ ents'[d][i].seq = s
      BY <1>9, <3>1, <3>2, NoneAssumption
    <3> QED BY <1>3, <3>3, <3>4 DEF Confirmed
  <2>3. \A j \in Id : {x \in outbox'[d] : x.m.id = j} = {} =>
          IsCanonical(ents'[d][j], j, meta[d].cursor) \/ Confirmed(ents'[d][j], j, meta[d].cursor)
    BY <2>1, <2>2
  <2> QED BY <1>6, <2>3 DEF RestFits, Queued, IsCanonical, Confirmed, ChangeAt
<1>23. Fits(d)'
  BY <1>18, <1>19, <1>20, <1>21, <1>22 DEF Fits
<1>24. \A e \in Device \ {d} : RowsSame(e) /\ run'[e] = run[e]
  BY <1>5, <1>6, <1>9, <1>12 DEF RowsSame, TypeOK
<1>25. MintedFits'
  BY <1>5, <1>6, MintedSame DEF SInv
<1> QED BY <1>6, <1>12, <1>13, <1>14, <1>15, <1>23, <1>24, <1>25, OneDevice

\* A refused row stays in its place.
LEMMA blockKeeps ==
  ASSUME SInv, NEW d \in Device, block(d)
  PROVE  SInv'
<1>1. PICK m : m = run[d].m
  OBVIOUS
<1>2. PICK f : f = [x \in outbox[d] |-> IF x.m = m THEN [x EXCEPT !.status = "blocked"] ELSE x]
  OBVIOUS
<1>3. /\ UNCHANGED <<log, answers, stale, ents, minted, dropped>>
      /\ outbox' = [outbox EXCEPT ![d] = {f[x] : x \in @}]
      /\ SetError(d, TRUE) /\ Goto(d, Idle)
      /\ run[d].at = "answered" /\ run[d].seq = 0
  BY <1>1, <1>2 DEF block, serverVars, history
<1>4. TypeOK /\ Fits(d) /\ FlagsOnly
  BY <1>3, SettingError DEF SInv
<1>5. m \in minted /\ Refused(m)
  BY <1>1, <1>3, <1>4, SentIsQueued DEF Fits, RunFits
<1>6. \A x \in outbox[d] :
        /\ f[x].m = x.m /\ f[x] \in Item
        /\ f[x] = x \/ (x.m = m /\ f[x].status = "blocked")
  BY <1>2, <1>4, DeviceTypes DEF Item
<1>7. outbox'[d] = {f[x] : x \in outbox[d]} /\ \A e \in Device \ {d} : outbox'[e] = outbox[e]
  BY <1>3, <1>4 DEF TypeOK
<1>8. /\ \A x \in outbox[d] : \E y \in outbox'[d] : y.m = x.m
      /\ \A y \in outbox'[d] : \E x \in outbox[d] : y.m = x.m /\ y = f[x]
  BY <1>6, <1>7
<1>9. /\ \A k : Sent(k)' => Sent(k)
      /\ stale' \subseteq minted
      /\ run' \in [Device -> RunState] /\ run'[d] = Idle
      /\ \A e \in Device \ {d} : run'[e] = run[e]
  <2>1. stale' \subseteq StillUnderWay(d)
    BY <1>3, StaleStays
  <2> QED BY <1>3, <2>1, Unsent, Places
<1>10. TypeOK'
  <2>1. outbox'[d] \subseteq Item
    BY <1>6, <1>7
  <2>2. outbox' \in [Device -> SUBSET Item]
    BY <1>3, <1>4, <1>7, <2>1 DEF TypeOK
  <2> QED BY <1>3, <1>4, <1>9, <2>2 DEF TypeOK, FlagsOnly
<1>11. OrderFits'
  <2>1. \A e \in Device : \A x \in outbox'[e] : \E y \in outbox[e] : y.m = x.m
    BY <1>7, <1>8
  <2>2. ASSUME NEW k \in minted, Live(k)'
        PROVE  Live(k) \/ Front(k)
    BY <1>3, <1>9, <2>2, LiveUnserved
  <2> QED BY <1>3, <1>4, <2>1, <2>2, OrderStays DEF SInv
<1>12. NothingLost'
  <2>1. Grows
    BY <1>3, <1>4, SameGrows
  <2>2. \A e \in Device : \A x \in outbox[e] : \E y \in outbox'[e] : y.m = x.m
    BY <1>7, <1>8
  <2> QED BY <1>3, <1>4, <2>1, <2>2, LossStays DEF SInv
<1>13. OutboxFits(d)'
  <2>1. ASSUME NEW y \in outbox'[d]
        PROVE  /\ y.m \in minted /\ y.m.dev = d /\ ents[d][y.m.id] # None
               /\ \A z \in outbox'[d] : z.m.n = y.m.n => z = y
               /\ y.status = "blocked" => Refused(y.m)
               /\ \A n \in DOMAIN log :
                    log[n].by = y.m => meta[d].cursor < n /\ ents[d][y.m.id].seq < n
    <3>1. PICK x \in outbox[d] : y.m = x.m /\ y = f[x]
      BY <1>8
    <3>2. /\ x.m \in minted /\ x.m.dev = d /\ ents[d][x.m.id] # None
          /\ x.status = "blocked" => Refused(x.m)
          /\ \A n \in DOMAIN log :
               log[n].by = x.m => meta[d].cursor < n /\ ents[d][x.m.id].seq < n
      BY <1>4 DEF Fits, OutboxFits, QueuedLate
    <3>3. ASSUME NEW z \in outbox'[d], z.m.n = y.m.n
          PROVE  z = y
      <4>1. PICK w \in outbox[d] : z.m = w.m /\ z = f[w]
        BY <1>8
      <4>2. w = x
        BY <1>4, <3>1, <3>3, <4>1 DEF Fits, OutboxFits
      <4> QED BY <3>1, <4>1, <4>2
    <3>4. y.status = "blocked" => Refused(y.m)
      BY <1>5, <1>6, <3>1, <3>2
    <3> QED BY <3>1, <3>2, <3>3, <3>4
  <2> QED BY <1>3, <1>4, <2>1 DEF OutboxFits, QueuedLate, Refused, FlagsOnly
<1>14. RunFits(d)'
  BY <1>9 DEF RunFits, Idle
<1>15. NumbersFit(d)'
  BY <1>3, <1>4 DEF Fits, NumbersFit, FlagsOnly
<1>16. EditsShow(d)'
  <2>1. ASSUME NEW i \in Id, NEW y \in outbox'[d], y.m.id = i, ~NewerRevision(d, y.m)'
        PROVE  /\ ents[d][i] # None
               /\ ents[d][i].by = y.m.mid
               /\ ~ents[d][i].canonical
    <3>1. PICK x \in outbox[d] : y.m = x.m
      BY <1>8
    <3>2. ~NewerRevision(d, x.m)
      BY <1>8, <2>1, <3>1 DEF NewerRevision
    <3> QED BY <1>4, <2>1, <3>1, <3>2 DEF Fits, EditsShow, Queued
  <2> QED BY <1>3, <2>1 DEF EditsShow, Queued, NewerRevision
<1>17. RestFits(d)'
  <2>1. ASSUME NEW i \in Id, {y \in outbox'[d] : y.m.id = i} = {}
        PROVE  Queued(d, i) = {}
    BY <1>8, <2>1 DEF Queued
  <2>2. meta'[d].cursor = meta[d].cursor
    BY <1>4 DEF FlagsOnly
  <2> QED BY <1>3, <1>4, <2>1, <2>2 DEF Fits, RestFits, Queued, IsCanonical, Confirmed, ChangeAt
<1>18. Fits(d)'
  BY <1>13, <1>14, <1>15, <1>16, <1>17 DEF Fits
<1>19. \A e \in Device \ {d} : RowsSame(e) /\ run'[e] = run[e]
  BY <1>3, <1>4, <1>7, <1>9 DEF RowsSame, FlagsOnly
<1>20. MintedFits'
  BY <1>3, <1>4, MintedSame DEF SInv, FlagsOnly
<1> QED BY <1>3, <1>9, <1>10, <1>11, <1>12, <1>18, <1>19, <1>20, OneDevice

\* An empty table is the server's at cursor 0, and what the queue held is dropped knowingly.
LEMMA restoreFromServerKeeps ==
  ASSUME SInv, NEW d \in Device, restoreFromServer(d)
  PROVE  SInv'
<1>1. /\ UNCHANGED <<log, answers, stale, minted>>
      /\ ents' = [ents EXCEPT ![d] = [i \in Id |-> None]]
      /\ outbox' = [outbox EXCEPT ![d] = {}]
      /\ dropped' = dropped \union {x.m.mid : x \in outbox[d]}
      /\ meta' = [meta EXCEPT ![d] = WipedMeta(d)]
  BY DEF restoreFromServer, serverVars
<1>2. TypeOK /\ Fits(d)
  BY DEF SInv
<1>3. /\ outbox'[d] = {} /\ \A e \in Device \ {d} : outbox'[e] = outbox[e]
      /\ \A i \in Id : ents'[d][i] = None
      /\ \A e \in Device \ {d} : ents'[e] = ents[e]
      /\ ents' \in [Device -> [Id -> Entity \union {None}]]
      /\ outbox' \in [Device -> SUBSET Item]
  BY <1>1, <1>2 DEF TypeOK
<1>4. /\ meta' \in [Device -> Meta] /\ meta'[d].cursor = 0
      /\ \A e \in Device \ {d} : meta'[e] = meta[e]
      /\ \A e \in Device : meta'[e].next = meta[e].next
  <2>1. /\ WipedMeta(d) \in Meta /\ WipedMeta(d).cursor = 0
        /\ WipedMeta(d).next = meta[d].next
    BY <1>2, DeviceTypes DEF WipedMeta, Meta
  <2> QED BY <1>1, <1>2, <2>1 DEF TypeOK
<1>5. PICK r : r = [at |-> "pulling", mode |-> "restore", after |-> 0, until |-> None]
  OBVIOUS
<1>6. r \in RunState /\ r.at = "pulling" /\ r.after = 0 /\ r.until = None /\ Goto(d, r)
  BY <1>5, Places DEF restoreFromServer, WipedMeta
<1>7. /\ \A k : Sent(k)' => Sent(k)
      /\ stale' \subseteq minted
      /\ run' \in [Device -> RunState] /\ run'[d] = r
      /\ \A e \in Device \ {d} : run'[e] = run[e]
  <2>1. stale' \subseteq StillUnderWay(d)
    BY <1>1, StaleStays
  <2> QED BY <1>6, <2>1, Unsent
<1>8. \A x \in outbox[d] : x.m.mid \in dropped' /\ x.m.mid \in Nat
  BY <1>1, <1>2, ItemTypes
<1>9. TypeOK'
  <2>1. dropped' \subseteq Nat
    BY <1>1, <1>2, <1>8 DEF TypeOK
  <2> QED BY <1>1, <1>2, <1>3, <1>4, <1>7, <2>1 DEF TypeOK
<1>10. OrderFits'
  <2>1. ASSUME NEW k \in minted, Live(k)'
        PROVE  Live(k) \/ Front(k)
    BY <1>1, <1>7, <2>1, LiveUnserved
  <2>2. \A e \in Device : outbox'[e] \subseteq outbox[e]
    BY <1>3
  <2> QED BY <1>1, <1>2, <2>1, <2>2, OrderStays DEF SInv
<1>11. NothingLost'
  <2>1. Grows /\ dropped \subseteq dropped'
    BY <1>1, <1>2, SameGrows
  <2>2. ASSUME NEW e \in Device, NEW x \in outbox[e]
        PROVE  x \in outbox'[e] \/ x.m.mid \in dropped'
    BY <1>3, <1>8
  <2> QED BY <1>1, <1>2, <2>1, <2>2, LossStays DEF SInv
<1>12. OutboxFits(d)' /\ EditsShow(d)'
  BY <1>3 DEF OutboxFits, EditsShow, Queued
<1>13. RunFits(d)'
  BY <1>4, <1>6, <1>7 DEF RunFits
<1>14. NumbersFit(d)' /\ RestFits(d)'
  <2>1. Len(log) \in Nat
    BY <1>2, LogTypes
  <2> QED BY <1>1, <1>3, <1>4, <2>1 DEF NumbersFit, RestFits, IsCanonical
<1>15. Fits(d)'
  BY <1>12, <1>13, <1>14 DEF Fits
<1>16. \A e \in Device \ {d} : RowsSame(e) /\ run'[e] = run[e]
  BY <1>3, <1>4, <1>7 DEF RowsSame
<1>17. MintedFits'
  BY <1>1, <1>2, <1>4, MintedSame DEF SInv
<1> QED BY <1>1, <1>7, <1>9, <1>10, <1>11, <1>15, <1>16, <1>17, OneDevice

-----------------------------------------------------------------------------
(* Edits *)

\* A number not used yet: the server has not heard of the mutation.
LEMMA Fresh ==
  ASSUME SInv, NEW m \in Mutation, m.mid = Cardinality(minted) + 1
  PROVE  /\ m \notin minted /\ ~Live(m)
         /\ \A n \in DOMAIN log : log[n].by # m
         /\ IsFiniteSet(minted \union {m})
         /\ Cardinality(minted \union {m}) = Cardinality(minted) + 1
         /\ \A k \in minted : k.mid \in 1 .. Cardinality(minted) + 1 /\ k.mid # m.mid
         /\ m.mid \in 1 .. Cardinality(minted) + 1
<1>1. IsFiniteSet(minted) /\ Cardinality(minted) \in Nat
  BY FS_CardinalityType DEF SInv, MintedFits
<1>2. \A k \in minted : k.mid \in 1 .. Cardinality(minted)
  BY DEF SInv, MintedFits
<1>3. m \notin minted
  BY <1>1, <1>2
<1>4. IsFiniteSet(minted \union {m}) /\ Cardinality(minted \union {m}) = Cardinality(minted) + 1
  BY <1>1, <1>3, FS_AddElement
<1>5. \A r \in answers : r.m # m
  BY <1>3 DEF SInv, AnswersFit
<1>6. ~Sent(m)
  BY <1>3, SentIsQueued DEF SInv, Sent
<1>7. ~Live(m)
  BY <1>5, <1>6, AppliedBy DEF Live
<1>8. ASSUME NEW n \in DOMAIN log
      PROVE  log[n].by # m
  <2>1. m # None
    BY NoneAssumption
  <2> QED BY <1>5, <2>1 DEF SInv, LogFits
<1>9. /\ m.mid \in 1 .. Cardinality(minted) + 1
      /\ \A k \in minted : k.mid \in 1 .. Cardinality(minted) + 1 /\ k.mid # m.mid
  BY <1>1, <1>2
<1> QED BY <1>3, <1>4, <1>7, <1>8, <1>9

\* A new edit joins the queue behind all that the server may take; the rows it replaces are
\* refused and dropped.
LEMMA Minting ==
  ASSUME SInv, NEW d \in Device, NEW m \in Mutation,
         m.mid = Cardinality(minted) + 1, m.dev = d, minted' = minted \union {m},
         NEW gone \in SUBSET outbox[d],
         \A x \in gone : x.status = "blocked" /\ x.m.mid \in dropped' /\ x.m.id = m.id,
         dropped \subseteq dropped', dropped' \subseteq Nat,
         outbox' = [outbox EXCEPT ![d] = (@ \ gone) \union {[m |-> m, status |-> "pending"]}],
         ents' \in [Device -> [Id -> Entity \union {None}]],
         \A e \in Device \ {d} : ents'[e] = ents[e],
         \A i \in Id \ {m.id} : ents'[d][i] = ents[d][i],
         ents'[d][m.id] # None,
         ents'[d][m.id].seq = IF ents[d][m.id] = None THEN 0 ELSE ents[d][m.id].seq,
         meta' \in [Device -> Meta],
         \A e \in Device : meta'[e].cursor = meta[e].cursor /\ meta[e].next <= meta'[e].next,
         m.n < meta'[d].next,
         UNCHANGED <<log, answers, stale, run>>,
         \A y \in outbox[d] \ gone : y.m.n # m.n,
         \A k \in minted : Live(k) /\ k.dev = d => k.n < m.n,
         EditsShow(d)'
  PROVE  SInv'
<1> USE DEF SInv
<1>1. PICK x : x = [m |-> m, status |-> "pending"]
  OBVIOUS
<1>2. x \in Item /\ x.m = m /\ x.status = "pending"
  BY <1>1 DEF Item
<1>3. /\ outbox'[d] = (outbox[d] \ gone) \union {x}
      /\ \A e \in Device \ {d} : outbox'[e] = outbox[e]
      /\ outbox' \in [Device -> SUBSET Item]
  BY <1>1, <1>2 DEF TypeOK
<1>4. /\ m \notin minted /\ ~Live(m)
      /\ \A n \in DOMAIN log : log[n].by # m
      /\ IsFiniteSet(minted') /\ Cardinality(minted') = Cardinality(minted) + 1
      /\ \A k \in minted : k.mid \in 1 .. Cardinality(minted) + 1 /\ k.mid # m.mid
      /\ m.mid \in 1 .. Cardinality(minted) + 1
  BY Fresh
<1>5. \A k \in minted' : k \in Mutation /\ k.dev \in Device /\ k.n \in Nat
  BY DEF TypeOK, Mutation
<1>6. TypeOK'
  BY <1>3, <1>5 DEF TypeOK
<1>7. MintedFits'
  <2>1. ASSUME NEW k \in minted
        PROVE  k.n < meta'[k.dev].next
    <3>1. k.n < meta[k.dev].next /\ k.dev \in Device /\ k.n \in Nat
      BY <1>5 DEF MintedFits
    <3>2. meta[k.dev].next <= meta'[k.dev].next
      BY <3>1
    <3>3. meta[k.dev].next \in Nat /\ meta'[k.dev].next \in Nat
      BY <3>1, DeviceTypes DEF Meta
    <3> QED BY <3>1, <3>2, <3>3
  <2> QED BY <1>4, <2>1 DEF MintedFits
<1>8. OrderFits'
  <2>1. ASSUME NEW k \in minted', Live(k)', NEW y \in outbox'[k.dev]
        PROVE  k = y.m \/ k.n < y.m.n
    <3>1. Live(k)
      BY <2>1 DEF Live, Applied, Sent, Refused
    <3>2. k \in minted /\ k.dev \in Device
      BY <1>4, <1>5, <3>1
    <3>3. CASE y \in outbox[k.dev]
      BY <3>1, <3>2, <3>3 DEF OrderFits
    <3>4. CASE y \notin outbox[k.dev]
      BY <1>2, <1>3, <2>1, <3>1, <3>2, <3>4
    <3> QED BY <3>3, <3>4
  <2> QED BY <2>1 DEF OrderFits
<1>9. NothingLost'
  <2>1. ASSUME NEW k \in minted
        PROVE  \/ k.mid \in dropped'
               \/ \E y \in outbox'[k.dev] : y.m = k
               \/ Applied(k)'
    <3>1. Applied(k) => Applied(k)'
      BY DEF Applied
    <3>2. ASSUME NEW y \in outbox[k.dev], y.m = k
          PROVE  y \in outbox'[k.dev] \/ k.mid \in dropped'
      BY <1>3, <1>5, <3>2
    <3> QED BY <3>1, <3>2 DEF NothingLost
  <2>2. \E y \in outbox'[d] : y.m = m
    BY <1>2, <1>3
  <2> QED BY <2>1, <2>2 DEF NothingLost
<1>10. Fits(d)
  OBVIOUS
<1>11. OutboxFits(d)'
  <2>1. ASSUME NEW y \in outbox'[d]
        PROVE  /\ y.m \in minted' /\ y.m.dev = d /\ ents'[d][y.m.id] # None
               /\ \A z \in outbox'[d] : z.m.n = y.m.n => z = y
               /\ y.status = "blocked" => Refused(y.m)
               /\ \A n \in DOMAIN log :
                    log[n].by = y.m => meta[d].cursor < n /\ ents'[d][y.m.id].seq < n
    <3>1. CASE y = x
      BY <1>2, <1>3, <1>4, <3>1
    <3>2. CASE y # x
      <4>1. y \in outbox[d] \ gone
        BY <1>3, <3>2
      <4>2. /\ y.m \in minted /\ y.m.dev = d /\ ents[d][y.m.id] # None /\ y.m.id \in Id
            /\ \A z \in outbox[d] : z.m.n = y.m.n => z = y
            /\ y.status = "blocked" => Refused(y.m)
            /\ \A n \in DOMAIN log :
                 log[n].by = y.m => meta[d].cursor < n /\ ents[d][y.m.id].seq < n
        BY <1>10, <4>1, ItemTypes DEF Fits, OutboxFits, QueuedLate
      <4>3. ents'[d][y.m.id] # None /\ ents'[d][y.m.id].seq = ents[d][y.m.id].seq
        BY <4>2
      <4>4. \A z \in outbox'[d] : z.m.n = y.m.n => z = y
        BY <1>2, <1>3, <4>1, <4>2
      <4> QED BY <4>2, <4>3, <4>4
    <3> QED BY <3>1, <3>2
  <2> QED BY <2>1 DEF OutboxFits, QueuedLate, Refused
<1>12. RunFits(d)'
  <2>1. PICK r : r = run[d]
    OBVIOUS
  <2>2. \A k : HeadFits(d, k) => HeadFits(d, k)'
    BY <1>3 DEF HeadFits
  <2>3. r.at \in {"sent", "answered"} => HeadFits(d, r.m)'
    BY <1>10, <2>1, <2>2 DEF Fits, RunFits
  <2> QED BY <1>10, <2>1, <2>3 DEF Fits, RunFits, HeadFits, Refused, ChangeAt
<1>13. NumbersFit(d)'
  <2>1. Len(log) \in Nat
    BY LogTypes
  <2>2. ASSUME NEW i \in Id, ents'[d][i] # None
        PROVE  ents'[d][i].seq <= Len(log)
    <3>1. ents[d][i] # None => ents[d][i].seq <= Len(log)
      BY <1>10 DEF Fits, NumbersFit
    <3>2. CASE i = m.id /\ ents[d][i] = None
      <4>1. ents'[d][i].seq = 0
        BY <3>2
      <4> QED BY <2>1, <4>1
    <3>3. CASE ~(i = m.id /\ ents[d][i] = None)
      <4>1. ents'[d][i].seq = ents[d][i].seq
        BY <3>3
      <4>2. ents[d][i] # None
        BY <2>2, <3>3
      <4> QED BY <3>1, <4>1, <4>2
    <3> QED BY <3>2, <3>3
  <2>3. meta'[d].cursor <= Len(log)
    BY <1>10 DEF Fits, NumbersFit
  <2> QED BY <2>2, <2>3 DEF NumbersFit
<1>14. RestFits(d)'
  <2>1. ASSUME NEW i \in Id, {y \in outbox'[d] : y.m.id = i} = {}
        PROVE  Queued(d, i) = {} /\ ents'[d][i] = ents[d][i]
    <3>1. i # m.id
      BY <1>2, <1>3, <2>1
    <3> QED BY <1>3, <2>1, <3>1 DEF Queued
  <2>2. ASSUME NEW i \in Id, Queued(d, i)' = {}
        PROVE  (IsCanonical(ents[d][i], i, meta[d].cursor) \/ Confirmed(ents[d][i], i, meta[d].cursor))'
    <3>1. Queued(d, i) = {} /\ ents'[d][i] = ents[d][i] /\ meta'[d].cursor = meta[d].cursor
      BY <2>1, <2>2 DEF Queued
    <3>2. \/ IsCanonical(ents[d][i], i, meta[d].cursor)
          \/ Confirmed(ents[d][i], i, meta[d].cursor)
      BY <1>10, <3>1 DEF Fits, RestFits
    <3> QED BY <3>1, <3>2 DEF IsCanonical, Confirmed, ChangeAt
  <2> QED BY <2>2 DEF RestFits
<1>15. Fits(d)'
  BY <1>11, <1>12, <1>13, <1>14 DEF Fits
<1>16. \A e \in Device \ {d} : RowsSame(e) /\ run'[e] = run[e]
  BY <1>3 DEF RowsSame
<1>17. stale' \subseteq minted' /\ minted \subseteq minted'
  OBVIOUS
<1> QED BY <1>6, <1>7, <1>8, <1>9, <1>15, <1>16, <1>17, OneDevice

LEMMA MintTypes ==
  ASSUME SInv, NEW d \in Device, NEW i \in Id, NEW n \in Nat
  PROVE  /\ Mint(d, i, n) \in Mutation /\ Mint(d, i, n).mid = Cardinality(minted) + 1
         /\ Mint(d, i, n).dev = d /\ Mint(d, i, n).id = i /\ Mint(d, i, n).n = n
<1>1. Cardinality(minted) + 1 \in Nat
  BY FS_CardinalityType DEF SInv, MintedFits
<1> QED BY <1>1 DEF Mint, Mutation

LEMMA enqueueMutationKeeps ==
  ASSUME SInv, NEW d \in Device, NEW i \in Id, enqueueMutation(d, i)
  PROVE  SInv'
<1>1. PICK m : m = Mint(d, i, meta[d].next)
  OBVIOUS
<1>2. TypeOK /\ Fits(d) /\ meta[d].next \in Nat
  BY DeviceTypes DEF SInv
<1>3. m \in Mutation /\ m.mid = Cardinality(minted) + 1 /\ m.dev = d /\ m.id = i /\ m.n = meta[d].next
  BY <1>1, <1>2, MintTypes
<1>4. /\ ents' = [ents EXCEPT ![d][i] =
           [by |-> m.mid, canonical |-> FALSE, seq |-> IF @ = None THEN 0 ELSE @.seq]]
      /\ outbox' = [outbox EXCEPT ![d] = @ \union {[m |-> m, status |-> "pending"]}]
      /\ meta' = [meta EXCEPT ![d].next = @ + 1]
      /\ minted' = minted \union {m}
      /\ UNCHANGED <<log, answers, stale, run, dropped>>
  BY <1>1 DEF enqueueMutation, serverVars
<1>5. PICK e : e = [by |-> m.mid, canonical |-> FALSE,
                    seq |-> IF ents[d][i] = None THEN 0 ELSE ents[d][i].seq]
  OBVIOUS
<1>6. /\ e \in Entity /\ e # None /\ e.by = m.mid /\ ~e.canonical
      /\ e.seq = IF ents[d][i] = None THEN 0 ELSE ents[d][i].seq
  <2>1. ents[d][i] \in Entity \union {None}
    BY <1>2, DeviceTypes
  <2>2. (IF ents[d][i] = None THEN 0 ELSE ents[d][i].seq) \in Nat /\ m.mid \in Nat
    BY <1>3, <2>1 DEF Entity, Mutation
  <2>3. PICK s \in Nat : s = IF ents[d][i] = None THEN 0 ELSE ents[d][i].seq
    BY <2>2
  <2>4. e = [by |-> m.mid, canonical |-> FALSE, seq |-> s]
    BY <1>5, <2>3
  <2>5. e \in Entity /\ e.by = m.mid /\ ~e.canonical /\ e.seq = s
    BY <2>2, <2>4 DEF Entity
  <2>6. e # None
    BY <2>5, NoneAssumption
  <2> QED BY <2>3, <2>5, <2>6
<1>7. /\ ents'[d][i] = e
      /\ \A j \in Id \ {i} : ents'[d][j] = ents[d][j]
      /\ \A c \in Device \ {d} : ents'[c] = ents[c]
      /\ ents' \in [Device -> [Id -> Entity \union {None}]]
  BY <1>2, <1>4, <1>5, <1>6 DEF TypeOK
<1>8. /\ meta' \in [Device -> Meta]
      /\ \A c \in Device : meta'[c].cursor = meta[c].cursor /\ meta[c].next <= meta'[c].next
      /\ m.n < meta'[d].next
  <2>1. \A c \in Device : meta[c] \in Meta /\ meta[c].next \in Nat
    BY <1>2, DeviceTypes
  <2>2. /\ meta' \in [Device -> Meta] /\ meta'[d].cursor = meta[d].cursor
        /\ meta'[d].next = meta[d].next + 1
        /\ \A c \in Device \ {d} : meta'[c] = meta[c]
    <3>1. PICK p : p = [meta[d] EXCEPT !.next = @ + 1]
      OBVIOUS
    <3>2. meta[d] \in Meta /\ meta[d].next + 1 \in Nat
      BY <1>2, <2>1
    <3>3. p \in Meta /\ p.cursor = meta[d].cursor /\ p.next = meta[d].next + 1
      BY <3>1, <3>2 DEF Meta
    <3>4. meta' = [meta EXCEPT ![d] = p]
      BY <1>4, <3>1
    <3> QED BY <1>2, <3>3, <3>4 DEF TypeOK
  <2>3. m.n < meta'[d].next /\ meta[d].next <= meta'[d].next
    BY <1>3, <2>1, <2>2
  <2>4. ASSUME NEW c \in Device \ {d}
        PROVE  meta'[c].cursor = meta[c].cursor /\ meta[c].next <= meta'[c].next
    BY <2>1, <2>2
  <2> QED BY <2>2, <2>3, <2>4
<1>9. \A k \in minted : k.dev = d => k.n < m.n
  BY <1>3 DEF SInv, MintedFits
<1>10. \A y \in outbox[d] : y.m.n < m.n /\ y.m.n \in Nat
  BY <1>2, <1>9, ItemTypes DEF Fits, OutboxFits
<1>11. \A y \in outbox[d] : y.m.n # m.n
  BY <1>3, <1>2, <1>10
<1>12. PICK x : x = [m |-> m, status |-> "pending"]
  OBVIOUS
<1>13. x.m = m /\ outbox'[d] = outbox[d] \union {x}
  BY <1>2, <1>4, <1>12 DEF TypeOK
<1>14. EditsShow(d)'
  <2>1. ASSUME NEW j \in Id, NEW y \in outbox'[d], y.m.id = j,
               ~\E z \in outbox'[d] : z.m.id = y.m.id /\ z.m.n > y.m.n
        PROVE  /\ ents'[d][j] # None
               /\ ents'[d][j].by = y.m.mid
               /\ ~ents'[d][j].canonical
    <3>1. CASE y = x
      BY <1>3, <1>6, <1>7, <1>13, <2>1, <3>1
    <3>2. CASE y # x
      <4>1. y \in outbox[d] /\ y.m.n < m.n /\ y.m.n \in Nat /\ m.n \in Nat
        BY <1>2, <1>3, <1>10, <1>13, <3>2
      <4>2. m.n > y.m.n
        BY <4>1
      <4>3. j # i
        BY <1>3, <1>13, <2>1, <4>2
      <4>4. ~NewerRevision(d, y.m)
        BY <1>13, <2>1 DEF NewerRevision
      <4> QED BY <1>2, <1>7, <2>1, <4>1, <4>3, <4>4 DEF Fits, EditsShow, Queued
    <3> QED BY <3>1, <3>2
  <2> QED BY <2>1 DEF EditsShow, Queued, NewerRevision
<1>15. PICK gone \in SUBSET outbox[d] : gone = {}
  OBVIOUS
<1>16. outbox' = [outbox EXCEPT ![d] = (@ \ gone) \union {[m |-> m, status |-> "pending"]}]
  BY <1>4, <1>15
<1>17. dropped' \subseteq Nat
  BY <1>2, <1>4 DEF TypeOK
<1>18. \A k \in minted : Live(k) /\ k.dev = d => k.n < m.n
  BY <1>9
<1>19. /\ \A x1 \in gone : x1.status = "blocked" /\ x1.m.mid \in dropped' /\ x1.m.id = m.id
       /\ \A y \in outbox[d] \ gone : y.m.n # m.n
       /\ dropped \subseteq dropped'
  BY <1>4, <1>11, <1>15
<1>20. /\ \A j \in Id \ {m.id} : ents'[d][j] = ents[d][j]
       /\ ents'[d][m.id] # None
       /\ ents'[d][m.id].seq = IF ents[d][m.id] = None THEN 0 ELSE ents[d][m.id].seq
       /\ \A c \in Device \ {d} : ents'[c] = ents[c]
       /\ ents' \in [Device -> [Id -> Entity \union {None}]]
  BY <1>3, <1>6, <1>7
<1>21. UNCHANGED <<log, answers, stale, run>> /\ minted' = minted \union {m}
  BY <1>4
<1> QED BY <1>3, <1>8, <1>14, <1>16, <1>17, <1>18, <1>19, <1>20, <1>21, Minting

\* The row repaired is refused, so nothing behind it has taken effect.
LEMMA repairBlockedMutationKeeps ==
  ASSUME SInv, NEW d \in Device, NEW x \in outbox[d], repairBlockedMutation(d, x)
  PROVE  SInv'
<1>1. PICK m, i : m = Mint(d, x.m.id, x.m.n) /\ i = x.m.id
  OBVIOUS
<1>2. TypeOK /\ Fits(d) /\ i \in Id /\ x.m.n \in Nat /\ x.m.mid \in Nat /\ x.m \in Mutation
  BY <1>1, ItemTypes DEF SInv
<1>3. m \in Mutation /\ m.mid = Cardinality(minted) + 1 /\ m.dev = d /\ m.id = i /\ m.n = x.m.n
  BY <1>1, <1>2, MintTypes
<1>4. /\ x.status = "blocked" /\ ents[d][i] # None
      /\ ents' = IF NewerRevision(d, x.m) THEN ents
                 ELSE [ents EXCEPT ![d][i].by = m.mid, ![d][i].canonical = FALSE]
      /\ outbox' = [outbox EXCEPT ![d] = (@ \ {x}) \union {[m |-> m, status |-> "pending"]}]
      /\ minted' = minted \union {m}
      /\ dropped' = dropped \union {x.m.mid}
      /\ UNCHANGED <<log, answers, stale, meta, run>>
  BY <1>1 DEF repairBlockedMutation, serverVars
<1>5. PICK e : e = [ents[d][i] EXCEPT !.by = m.mid, !.canonical = FALSE]
  OBVIOUS
<1>6. ents[d][i] \in Entity /\ m.mid \in Nat
  BY <1>2, <1>3, <1>4, DeviceTypes DEF Mutation
<1>7. e \in Entity /\ e # None /\ e.by = m.mid /\ ~e.canonical /\ e.seq = ents[d][i].seq
  <2>1. e \in Entity /\ e.by = m.mid /\ ~e.canonical /\ e.seq = ents[d][i].seq
    BY <1>5, <1>6 DEF Entity
  <2> QED BY <2>1, NoneAssumption
<1>8. /\ ~NewerRevision(d, x.m) => ents'[d][i] = e
      /\ NewerRevision(d, x.m) => ents'[d][i] = ents[d][i]
      /\ \A j \in Id \ {i} : ents'[d][j] = ents[d][j]
      /\ \A c \in Device \ {d} : ents'[c] = ents[c]
      /\ ents' \in [Device -> [Id -> Entity \union {None}]]
  <2>1. CASE NewerRevision(d, x.m)
    BY <1>2, <1>4, <2>1 DEF TypeOK
  <2>2. CASE ~NewerRevision(d, x.m)
    <3>1. ents' = [ents EXCEPT ![d][i] = e]
      BY <1>2, <1>4, <1>5, <2>2 DEF TypeOK
    <3> QED BY <1>2, <1>7, <2>2, <3>1 DEF TypeOK
  <2> QED BY <2>1, <2>2
<1>9. Refused(x.m) /\ x.m.dev = d /\ x.m \in minted /\ \A y \in outbox[d] : y.m.n = x.m.n => y = x
  BY <1>2, <1>4 DEF Fits, OutboxFits
<1>10. ~Live(x.m)
  <2>1. ASSUME NEW r \in answers, r.m = x.m, r.status = "applied"
        PROVE  FALSE
    BY <1>9, <2>1 DEF SInv, AnswersFit, Refused
  <2> QED BY <1>9, <2>1, AppliedBy DEF Live
<1>11. \A k \in minted : Live(k) /\ k.dev = d => k.n < m.n
  BY <1>3, <1>10 DEF SInv, OrderFits
<1>12. PICK w : w = [m |-> m, status |-> "pending"]
  OBVIOUS
<1>13. w.m = m /\ outbox'[d] = (outbox[d] \ {x}) \union {w}
  BY <1>2, <1>4, <1>12 DEF TypeOK
<1>14. \A y \in outbox[d] : y.m.n \in Nat
  BY <1>2, ItemTypes
<1>15. EditsShow(d)'
  <2>1. ASSUME NEW j \in Id, NEW y \in outbox'[d], y.m.id = j,
               ~\E z \in outbox'[d] : z.m.id = y.m.id /\ z.m.n > y.m.n
        PROVE  /\ ents'[d][j] # None
               /\ ents'[d][j].by = y.m.mid
               /\ ~ents'[d][j].canonical
    <3>1. CASE y = w
      <4>1. j = i /\ y.m = m
        BY <1>3, <1>13, <2>1, <3>1
      <4>2. ASSUME NEW z \in outbox[d], z.m.id = i, z.m.n > x.m.n
            PROVE  FALSE
        <5>1. z # x
          BY <1>2, <4>2
        <5> QED BY <1>3, <1>13, <2>1, <4>1, <4>2, <5>1
      <4>3. ~NewerRevision(d, x.m)
        BY <1>1, <4>2 DEF NewerRevision
      <4> QED BY <1>7, <1>8, <4>1, <4>3
    <3>2. CASE y # w
      <4>1. y \in outbox[d] /\ y # x
        BY <1>13, <3>2
      <4>2. ~NewerRevision(d, y.m)
        <5>1. ASSUME NEW z \in outbox[d], z.m.id = y.m.id, z.m.n > y.m.n
              PROVE  FALSE
          <6>1. CASE z = x
            BY <1>1, <1>3, <1>13, <2>1, <5>1, <6>1
          <6>2. CASE z # x
            BY <1>13, <2>1, <5>1, <6>2
          <6> QED BY <6>1, <6>2
        <5> QED BY <5>1 DEF NewerRevision
      <4>3. /\ ents[d][j] # None
            /\ ents[d][j].by = y.m.mid
            /\ ~ents[d][j].canonical
        BY <1>2, <2>1, <4>1, <4>2 DEF Fits, EditsShow, Queued
      <4>4. CASE j = i
        <5>1. y.m.n \in Nat /\ x.m.n \in Nat /\ y.m.n # x.m.n
          BY <1>2, <1>9, <1>14, <4>1
        <5>2. ~(x.m.n > y.m.n)
          BY <1>1, <2>1, <4>1, <4>2, <4>4 DEF NewerRevision
        <5>3. y.m.n > x.m.n
          BY <5>1, <5>2
        <5>4. NewerRevision(d, x.m)
          BY <1>1, <2>1, <4>1, <4>4, <5>3 DEF NewerRevision
        <5> QED BY <1>8, <4>3, <4>4, <5>4
      <4>5. CASE j # i
        BY <1>8, <4>3, <4>5
      <4> QED BY <4>4, <4>5
    <3> QED BY <3>1, <3>2
  <2> QED BY <2>1 DEF EditsShow, Queued, NewerRevision
<1>16. PICK gone \in SUBSET outbox[d] : gone = {x}
  OBVIOUS
<1>17. outbox' = [outbox EXCEPT ![d] = (@ \ gone) \union {[m |-> m, status |-> "pending"]}]
  BY <1>4, <1>16
<1>18. dropped' \subseteq Nat /\ dropped \subseteq dropped'
  BY <1>2, <1>4 DEF TypeOK
<1>19. /\ \A g \in gone : g.status = "blocked" /\ g.m.mid \in dropped' /\ g.m.id = m.id
       /\ \A y \in outbox[d] \ gone : y.m.n # m.n
  BY <1>1, <1>3, <1>4, <1>9, <1>16
<1>20. /\ \A j \in Id \ {m.id} : ents'[d][j] = ents[d][j]
       /\ ents'[d][m.id] # None
       /\ ents'[d][m.id].seq = IF ents[d][m.id] = None THEN 0 ELSE ents[d][m.id].seq
       /\ \A c \in Device \ {d} : ents'[c] = ents[c]
       /\ ents' \in [Device -> [Id -> Entity \union {None}]]
  <2>1. ents'[d][i] # None /\ ents'[d][i].seq = ents[d][i].seq
    BY <1>4, <1>7, <1>8
  <2> QED BY <1>3, <1>4, <1>8, <2>1
<1>21. /\ meta' \in [Device -> Meta]
       /\ \A c \in Device : meta'[c].cursor = meta[c].cursor /\ meta[c].next <= meta'[c].next
       /\ m.n < meta'[d].next
  <2>1. \A c \in Device : meta[c].next \in Nat
    BY <1>2, DeviceTypes
  <2>2. \A c \in Device : meta[c].next <= meta[c].next
    BY <2>1
  <2>3. x.m.n < meta[d].next
    BY <1>9 DEF SInv, MintedFits
  <2> QED BY <1>2, <1>3, <1>4, <2>2, <2>3 DEF TypeOK
<1>22. UNCHANGED <<log, answers, stale, run>> /\ minted' = minted \union {m}
  BY <1>4
<1> QED BY <1>3, <1>11, <1>15, <1>17, <1>18, <1>19, <1>20, <1>21, <1>22, Minting

-----------------------------------------------------------------------------
(* The pull *)

LEMMA PulledRow ==
  ASSUME NEW v \in Nat, NEW s \in Nat
  PROVE  [by |-> v, canonical |-> TRUE, seq |-> s] \in Entity
BY DEF Entity

\* One row of AppliedTo
RowAfter(e, i, changes) ==
  LET cs == {a \in changes : a.id = i}
  IN IF cs = {} THEN e ELSE applyChange(e, CHOOSE a \in cs : \A z \in cs : z.seq <= a.seq)

\* What the changes behind the cursor make of a row
LEMMA PagedRow ==
  ASSUME TypeOK, NEW c \in Nat, NEW n \in Nat, c <= n, n <= Len(log),
         NEW changes, changes = {ChangeAt(k) : k \in c + 1 .. n},
         NEW e \in Entity \union {None}, NEW i \in Id,
         IsCanonical(e, i, c) \/ Confirmed(e, i, c),
         NEW b, b = RowAfter(e, i, changes)
  PROVE  /\ b \in Entity \union {None}
         /\ IsCanonical(b, i, n) \/ Confirmed(b, i, n)
<1>1. /\ Len(log) \in Nat
      /\ \A k \in c + 1 .. n : /\ k \in Nat /\ k \in 1 .. Len(log)
                               /\ ChangeAt(k).seq = k /\ ChangeAt(k).id = log[k].id
                               /\ ChangeAt(k) \in Change
  BY LogTypes
<1>2. PICK cs : cs = {a \in changes : a.id = i}
  OBVIOUS
<1>3. /\ cs = {} => b = e
      /\ cs # {} => b = applyChange(e, CHOOSE a \in cs : \A z \in cs : z.seq <= a.seq)
  BY <1>2 DEF RowAfter
<1>4. e # None => e.seq \in Nat
  BY DEF Entity
<1>5. CASE cs = {}
  <2>1. \A k \in c + 1 .. n : log[k].id # i
    BY <1>1, <1>2, <1>5
  <2>2. CASE IsCanonical(e, i, c)
    <3>1. CASE e = None
      <4>1. \A k \in 1 .. n : k \in 1 .. c \/ k \in c + 1 .. n
        OBVIOUS
      <4> QED BY <1>3, <1>5, <2>1, <2>2, <3>1, <4>1 DEF IsCanonical
    <3>2. CASE e # None
      <4>1. e.seq \in 1 .. c /\ e.seq \in 1 .. n
        BY <2>2, <3>2 DEF IsCanonical
      <4>2. \A k \in e.seq + 1 .. n : k \in e.seq + 1 .. c \/ k \in c + 1 .. n
        BY <4>1
      <4>3. \A k \in e.seq + 1 .. c : log[k].id # i
        BY <2>2, <3>2 DEF IsCanonical
      <4>4. \A k \in e.seq + 1 .. n : log[k].id # i
        BY <2>1, <4>2, <4>3
      <4>5. IsCanonical(e, i, n)
        BY <2>2, <3>2, <4>1, <4>4 DEF IsCanonical
      <4> QED BY <1>3, <1>5, <4>5
    <3> QED BY <3>1, <3>2
  <2>3. CASE Confirmed(e, i, c)
    <3>1. e.seq \in c + 1 .. Len(log) /\ e.seq \notin c + 1 .. n
      BY <2>1, <2>3 DEF Confirmed
    <3>2. e.seq \in n + 1 .. Len(log)
      BY <1>1, <3>1
    <3> QED BY <1>3, <1>5, <2>3, <3>2 DEF Confirmed
  <2> QED BY <1>3, <1>5, <2>2, <2>3
<1>6. CASE cs # {}
  <2> DEFINE T == {k \in c + 1 .. n : log[k].id = i}
  <2>1. T \in SUBSET Nat /\ \A k \in T : k <= n
    OBVIOUS
  <2>2. T # {}
    BY <1>1, <1>2, <1>6
  <2> HIDE DEF T
  <2>3. PICK k \in T : \A j \in T : j <= k
    BY <2>1, <2>2, Greatest
  <2>4. k \in c + 1 .. n /\ log[k].id = i /\ k \in 1 .. n /\ k \in Nat
    BY <2>3 DEF T
  <2>5. \A j \in c + 1 .. n : log[j].id = i => j <= k
    BY <2>3 DEF T
  <2>6. ChangeAt(k) \in cs
    BY <1>1, <1>2, <2>4
  <2>7. \A a \in cs : \E j \in c + 1 .. n : a = ChangeAt(j) /\ log[j].id = i /\ a.seq = j
    BY <1>1, <1>2
  <2>8. \A a \in cs : a.seq <= ChangeAt(k).seq
    BY <1>1, <2>4, <2>5, <2>7
  <2>9. PICK a : a = CHOOSE z \in cs : \A y \in cs : y.seq <= z.seq
    OBVIOUS
  <2>10. a \in cs /\ \A y \in cs : y.seq <= a.seq
    BY <2>6, <2>8, <2>9
  <2>11. a = ChangeAt(k)
    <3>1. PICK j \in c + 1 .. n : a = ChangeAt(j) /\ log[j].id = i /\ a.seq = j
      BY <2>7, <2>10
    <3>2. j <= k /\ k <= j
      BY <1>1, <2>4, <2>5, <2>6, <2>10, <3>1
    <3>3. j = k
      BY <2>4, <3>2
    <3> QED BY <3>1, <3>3
  <2>12. b = applyChange(e, a)
    BY <1>3, <1>6, <2>9
  <2>13. a.seq = k /\ a.id = i /\ a \in Change
    BY <1>1, <2>4, <2>11
  <2>14. CASE e = None \/ e.seq <= k
    <3>1. b = [by |-> a.by, canonical |-> TRUE, seq |-> k]
      BY <2>12, <2>13, <2>14 DEF applyChange
    <3>2. a.by \in Nat /\ a = [seq |-> k, id |-> i, by |-> a.by]
      BY <2>13 DEF Change
    <3>3. b \in Entity /\ b.seq = k /\ b.canonical /\ b.by = a.by
      <4>1. PICK v \in Nat : v = a.by
        BY <3>2
      <4>2. b = [by |-> v, canonical |-> TRUE, seq |-> k]
        BY <3>1, <4>1
      <4>3. b.seq = k /\ b.by = a.by
        BY <4>1, <4>2
      <4>4. b.canonical = TRUE
        BY <4>2
      <4>5. b \in Entity
        BY <2>4, <4>2, PulledRow
      <4> QED BY <4>3, <4>4, <4>5
    <3>4. b # None
      BY <3>3, NoneAssumption
    <3>5. [id |-> i, by |-> b.by, seq |-> b.seq] = ChangeAt(b.seq)
      BY <2>11, <3>2, <3>3
    <3>6. \A j \in b.seq + 1 .. n : log[j].id # i
      <4>1. ASSUME NEW j \in k + 1 .. n
            PROVE  log[j].id # i
        <5>1. j \in c + 1 .. n /\ ~(j <= k)
          BY <2>4
        <5> QED BY <2>5, <5>1
      <4> QED BY <3>3, <4>1
    <3> QED BY <2>4, <3>3, <3>4, <3>5, <3>6 DEF IsCanonical
  <2>15. CASE ~(e = None \/ e.seq <= k)
    <3>1. b = e
      BY <2>12, <2>13, <2>15 DEF applyChange
    <3>2. e # None /\ e.seq > k /\ e.seq \in Nat
      BY <1>4, <2>4, <2>15
    <3>3. ~IsCanonical(e, i, c)
      <4>1. e.seq \notin 1 .. c
        BY <2>4, <3>2
      <4> QED BY <3>2, <4>1 DEF IsCanonical
    <3>4. Confirmed(e, i, c)
      BY <3>3
    <3>5. e.seq \in c + 1 .. Len(log) /\ log[e.seq].id = i
      BY <3>4 DEF Confirmed
    <3>6. e.seq \notin c + 1 .. n
      BY <2>4, <2>5, <3>2, <3>5
    <3>7. e.seq \in n + 1 .. Len(log)
      BY <1>1, <3>5, <3>6
    <3> QED BY <3>1, <3>4, <3>7 DEF Confirmed
  <2> QED BY <2>14, <2>15
<1> QED BY <1>5, <1>6

\* A page moves the cursor, and the rows with it.
LEMMA applyPageKeeps ==
  ASSUME SInv, NEW d \in Device, applyPage(d)
  PROVE  SInv'
<1>1. PICK c, n, u, cs : c = meta[d].cursor /\ n = run[d].next /\ u = run[d].until /\ cs = run[d].changes
  OBVIOUS
<1>2. TypeOK /\ Fits(d)
  BY DEF SInv
<1>3. /\ outbox[d] = {}
      /\ ents' = [ents EXCEPT ![d] = AppliedTo(ents[d], cs)]
      /\ meta' = [meta EXCEPT ![d].cursor = n]
      /\ UNCHANGED <<log, answers, stale, outbox, minted, dropped>>
  BY <1>1 DEF applyPage, PageMayApply, serverVars, history
<1>4. /\ run[d].at = "paged" /\ run[d].mode \in {"sync", "restore"}
      /\ c \in Nat /\ n \in Nat /\ u \in Nat /\ c <= n /\ n <= u /\ u <= Len(log) /\ Len(log) \in Nat
      /\ cs = {ChangeAt(k) : k \in c + 1 .. n}
  <2>1. run[d].at = "paged"
    BY DEF applyPage
  <2>2. run[d].mode \in {"sync", "restore"} /\ n \in Nat /\ u \in Nat /\ c \in Nat /\ Len(log) \in Nat
    BY <1>1, <1>2, <2>1, DeviceTypes, RunTypes, LogTypes
  <2> QED BY <1>1, <1>2, <2>1, <2>2 DEF Fits, RunFits
<1>5. ASSUME NEW i \in Id
      PROVE  /\ AppliedTo(ents[d], cs)[i] \in Entity \union {None}
             /\ \/ IsCanonical(AppliedTo(ents[d], cs)[i], i, n)
                \/ Confirmed(AppliedTo(ents[d], cs)[i], i, n)
  <2>1. PICK e : e = ents[d][i]
    OBVIOUS
  <2>2. e \in Entity \union {None}
    BY <1>2, <2>1, DeviceTypes
  <2>3. IsCanonical(e, i, c) \/ Confirmed(e, i, c)
    BY <1>1, <1>2, <1>3, <2>1 DEF Fits, RestFits, Queued
  <2>4. PICK b : b = RowAfter(e, i, cs)
    OBVIOUS
  <2>5. n <= Len(log)
    BY <1>4
  <2>6. /\ b \in Entity \union {None}
        /\ IsCanonical(b, i, n) \/ Confirmed(b, i, n)
    BY <1>2, <1>4, <2>2, <2>3, <2>4, <2>5, PagedRow
  <2>7. AppliedTo(ents[d], cs)[i] = b
    BY <2>1, <2>4 DEF AppliedTo, RowAfter
  <2> QED BY <2>6, <2>7
<1>6. PICK es : es = AppliedTo(ents[d], cs)
  OBVIOUS
<1>7. es \in [Id -> Entity \union {None}]
  <2>1. es = [i \in Id |-> es[i]]
    BY <1>6 DEF AppliedTo
  <2> QED BY <1>5, <1>6, <2>1
<1>8. /\ ents'[d] = es /\ \A e \in Device \ {d} : ents'[e] = ents[e]
      /\ ents' \in [Device -> [Id -> Entity \union {None}]]
  BY <1>2, <1>3, <1>6, <1>7 DEF TypeOK
<1>9. /\ meta' \in [Device -> Meta] /\ meta'[d].cursor = n
      /\ \A e \in Device \ {d} : meta'[e] = meta[e]
      /\ \A e \in Device : meta'[e].next = meta[e].next
  <2>1. PICK p : p = [meta[d] EXCEPT !.cursor = n]
    OBVIOUS
  <2>2. p \in Meta /\ p.cursor = n /\ p.next = meta[d].next
    BY <1>2, <1>4, <2>1, DeviceTypes DEF Meta
  <2>3. meta' = [meta EXCEPT ![d] = p]
    BY <1>3, <2>1
  <2> QED BY <1>2, <2>2, <2>3 DEF TypeOK
<1>10. PICK r : r = IF n < u
                    THEN [at |-> "pulling", mode |-> run[d].mode, after |-> n, until |-> u]
                    ELSE [at |-> "pulled", mode |-> run[d].mode]
  OBVIOUS
<1>11. /\ r \in RunState /\ r.at \in {"pulling", "pulled"} /\ Goto(d, r)
       /\ r.at = "pulling" => r.after = n /\ r.until = u
  <2>1. Goto(d, r)
    BY <1>1, <1>10 DEF applyPage
  <2>2. CASE n < u
    BY <1>4, <1>10, <2>1, <2>2, Places
  <2>3. CASE ~(n < u)
    BY <1>4, <1>10, <2>1, <2>3, Places
  <2> QED BY <2>2, <2>3
<1>12. /\ \A k : Sent(k)' => Sent(k)
       /\ stale' \subseteq minted
       /\ run' \in [Device -> RunState] /\ run'[d] = r
       /\ \A e \in Device \ {d} : run'[e] = run[e]
  <2>1. stale' \subseteq StillUnderWay(d)
    BY <1>3, StaleStays
  <2> QED BY <1>11, <2>1, Unsent
<1>13. TypeOK'
  BY <1>2, <1>3, <1>8, <1>9, <1>12 DEF TypeOK
<1>14. OrderFits'
  <2>1. ASSUME NEW k \in minted, Live(k)'
        PROVE  Live(k) \/ Front(k)
    BY <1>3, <1>12, <2>1, LiveUnserved
  <2> QED BY <1>2, <1>3, <2>1, OrderStays DEF SInv
<1>15. NothingLost'
  <2>1. Grows
    BY <1>2, <1>3, SameGrows
  <2> QED BY <1>2, <1>3, <2>1, LossStays DEF SInv
<1>16. OutboxFits(d)' /\ EditsShow(d)'
  BY <1>3 DEF OutboxFits, EditsShow, Queued
<1>17. RunFits(d)'
  BY <1>3, <1>4, <1>9, <1>11, <1>12 DEF RunFits
<1>18. RestFits(d)'
  <2>1. \A i \in Id : IsCanonical(es[i], i, n) \/ Confirmed(es[i], i, n)
    BY <1>5, <1>6
  <2> QED BY <1>3, <1>8, <1>9, <2>1 DEF RestFits, IsCanonical, Confirmed, ChangeAt
<1>19. NumbersFit(d)'
  <2>1. ASSUME NEW i \in Id, es[i] # None
        PROVE  es[i].seq <= Len(log)
    <3>1. es[i].seq \in 1 .. n \/ es[i].seq \in n + 1 .. Len(log)
      BY <1>5, <1>6, <2>1 DEF IsCanonical, Confirmed
    <3> QED BY <1>4, <3>1
  <2>2. n <= Len(log)
    BY <1>4
  <2> QED BY <1>3, <1>8, <1>9, <2>1, <2>2 DEF NumbersFit
<1>20. Fits(d)'
  BY <1>16, <1>17, <1>18, <1>19 DEF Fits
<1>21. \A e \in Device \ {d} : RowsSame(e) /\ run'[e] = run[e]
  BY <1>3, <1>8, <1>9, <1>12 DEF RowsSame
<1>22. MintedFits'
  BY <1>2, <1>3, <1>9, MintedSame DEF SInv
<1> QED BY <1>3, <1>12, <1>13, <1>14, <1>15, <1>20, <1>21, <1>22, OneDevice

-----------------------------------------------------------------------------
(* The invariant holds *)

LEMMA InitSInv ==
  ASSUME Init
  PROVE  SInv
<1>1. PICK l : l = [n \in 1 .. Len(Seeds) |-> [id |-> Seeds[n], by |-> None]]
  OBVIOUS
<1>2. Len(Seeds) \in Nat /\ \A n \in 1 .. Len(Seeds) : Seeds[n] \in Id
  BY SeedsAssumption, Element
<1>3. /\ l \in Seq([id : Id, by : Mutation \union {None}])
      /\ DOMAIN l = 1 .. Len(Seeds)
      /\ \A n \in 1 .. Len(Seeds) : l[n].by = None /\ l[n].id = Seeds[n]
  <2> DEFINE Entry == [id : Id, by : Mutation \union {None}]
  <2>1. ASSUME NEW n \in 1 .. Len(Seeds)
        PROVE  l[n] \in Entry /\ l[n].by = None /\ l[n].id = Seeds[n]
    BY <1>1, <1>2
  <2>2. l = [n \in 1 .. Len(Seeds) |-> l[n]]
    BY <1>1
  <2> HIDE DEF Entry
  <2>3. l \in Seq(Entry)
    BY <1>2, <2>1, <2>2
  <2> QED BY <1>1, <2>1, <2>3 DEF Entry
<1>4. log = l
  BY <1>1 DEF Init
<1>5. TypeOK
  <2>1. Idle \in RunState
    BY Places
  <2> QED BY <1>3, <1>4, <2>1 DEF Init, TypeOK, Meta
<1>6. AnswersFit /\ MintedFits /\ stale \subseteq minted /\ OrderFits /\ NothingLost
  BY FS_EmptySet DEF Init, AnswersFit, MintedFits, OrderFits, NothingLost
<1>7. LogFits
  BY <1>3, <1>4, SeedsAssumption DEF LogFits
<1>8. ASSUME NEW d \in Device
      PROVE  Fits(d)
  <2>1. Len(log) \in Nat
    BY <1>5, LogTypes
  <2>2. run[d] = Idle /\ outbox[d] = {} /\ meta[d].cursor = 0 /\ \A i \in Id : ents[d][i] = None
    BY DEF Init
  <2>3. OutboxFits(d) /\ EditsShow(d)
    BY <2>2 DEF OutboxFits, EditsShow, Queued
  <2>4. RunFits(d)
    BY <2>2 DEF RunFits, Idle
  <2>5. NumbersFit(d) /\ RestFits(d)
    BY <2>1, <2>2 DEF NumbersFit, RestFits, IsCanonical
  <2> QED BY <2>3, <2>4, <2>5 DEF Fits
<1> QED BY <1>5, <1>6, <1>7, <1>8 DEF SInv

LEMMA StepSInv == SInv /\ [Next]_vars => SInv'
<1> SUFFICES ASSUME SInv, [Next]_vars PROVE SInv'
  OBVIOUS
<1>1. CASE UNCHANGED vars
  <2>1. UNCHANGED <<log, answers, stale, ents, outbox, meta, run, minted, dropped>>
    BY <1>1 DEF vars, serverVars, history
  <2>2. TypeOK'
    BY <2>1 DEF SInv, TypeOK
  <2>3. AnswersFit' /\ LogFits' /\ MintedFits' /\ stale' \subseteq minted'
    BY <2>1 DEF SInv, AnswersFit, IsChange, LogFits, MintedFits
  <2>4. OrderFits'
    BY <2>1 DEF SInv, OrderFits, Live, Applied, Sent, Refused
  <2>5. NothingLost'
    BY <2>1 DEF SInv, NothingLost, Applied
  <2>6. \A d \in Device : Fits(d)'
    BY <2>1, OthersStay DEF RowsSame
  <2> QED BY <2>2, <2>3, <2>4, <2>5, <2>6 DEF SInv
<1>2. ASSUME NEW d \in Device, Step(d) PROVE SInv'
  BY <1>2, bootstrapSyncKeeps, sendNextKeeps, servePushKeeps, acknowledgeKeeps, blockKeeps,
     pushDoneKeeps, servePullKeeps, applyPageKeeps, deferSyncKeeps, finishSyncKeeps,
     finishRestoreKeeps DEF Step
<1>3. ASSUME NEW d \in Device, AutoSync(d) \/ Retry(d) PROVE SInv'
  BY <1>3, runSyncKeeps DEF AutoSync, Retry
<1>4. ASSUME NEW d \in Device, fail(d) \/ abandon(d) \/ restoreFromServer(d) \/ resumeRestore(d)
      PROVE SInv'
  BY <1>4, failKeeps, abandonKeeps, restoreFromServerKeeps, resumeRestoreKeeps
<1>5. ASSUME NEW m \in stale, ServeStale(m) PROVE SInv'
  BY <1>5, ServeStaleKeeps
<1>6. ASSUME NEW d \in Device, NEW i \in Id, enqueueMutation(d, i) PROVE SInv'
  BY <1>6, enqueueMutationKeeps
<1>7. ASSUME NEW d \in Device, NEW x \in outbox[d], repairBlockedMutation(d, x) PROVE SInv'
  BY <1>7, repairBlockedMutationKeeps
<1> QED BY <1>1, <1>2, <1>3, <1>4, <1>5, <1>6, <1>7 DEF Next, Act

LEMMA AlwaysSInv == Spec => []SInv
<1>1. Init => SInv
  BY InitSInv
<1>2. SInv /\ [Next]_vars => SInv'
  BY StepSInv
<1> QED BY <1>1, <1>2, PTL DEF Spec

-----------------------------------------------------------------------------
(* Results *)

\* Every state of the server and of the devices is well formed.
THEOREM TypeCorrect == Spec => []TypeOK
<1>1. SInv => TypeOK
  BY DEF SInv
<1> QED BY <1>1, AlwaysSInv, PTL

\* Whatever is lost, late, retried or cut short, an edit stays in its device's queue until the
\* server has applied it, unless a repair or a restore has knowingly dropped it.
THEOREM NothingIsLost == Spec => []NothingLost
<1>1. SInv => NothingLost
  BY DEF SInv
<1> QED BY <1>1, AlwaysSInv, PTL

\* A row shows the user's newest unpushed edit: no pull, late acknowledgement or repair of an
\* older one overwrites it.
THEOREM LastEditIsShown == Spec => []LastEditShows
<1>1. SInv => LastEditShows
  BY DEF SInv, Fits, EditsShow, LastEditShows
<1> QED BY <1>1, AlwaysSInv, PTL

\* A row without an unpushed edit is what the server's feed has made of it up to the cursor, or
\* an edit of this device that the server has confirmed beyond it.
THEOREM RestIsServers == Spec => []RestIsServerState
<1>1. SInv => RestIsServerState
  BY DEF SInv, Fits, RestFits, Confirmed, RestIsServerState
<1> QED BY <1>1, AlwaysSInv, PTL

\* A change comes after its vehicle's, and what comes before the page the device has.
LEMMA SInvPages == SInv => PageAlwaysApplies
<1> SUFFICES ASSUME SInv, NEW d \in Device, run[d].at = "paged", outbox[d] = {},
                    NEW c \in run[d].changes, Parent[c.id] # None
             PROVE  \/ ents[d][Parent[c.id]] # None
                    \/ \E b \in run[d].changes : b.id = Parent[c.id] /\ b.seq < c.seq
  BY DEF PageAlwaysApplies, Applies
<1>1. TypeOK /\ Fits(d)
  BY DEF SInv
<1>2. PICK s, n : s = meta[d].cursor /\ n = run[d].next
  OBVIOUS
<1>3. /\ s \in Nat /\ n \in Nat /\ n <= Len(log) /\ Len(log) \in Nat
      /\ run[d].changes = {ChangeAt(k) : k \in s + 1 .. n}
  <2>1. s \in Nat /\ n \in Nat /\ run[d].until \in Nat /\ Len(log) \in Nat
    BY <1>1, <1>2, DeviceTypes, RunTypes, LogTypes
  <2> QED BY <1>1, <1>2, <2>1 DEF Fits, RunFits
<1>4. PICK k \in s + 1 .. n : c = ChangeAt(k)
  BY <1>3
<1>5. k \in 1 .. Len(log) /\ c.seq = k /\ c.id = log[k].id /\ c.id \in Id
  BY <1>1, <1>3, <1>4, LogTypes
<1>6. PICK p \in Id : p = Parent[c.id]
  BY <1>5, ParentAssumption
<1>7. PICK j \in 1 .. k - 1 : log[j].id = p
  BY <1>1, <1>5, <1>6, LogTypes DEF SInv, LogFits
<1>8. CASE j \in s + 1 .. n
  <2>1. ChangeAt(j).id = p /\ ChangeAt(j).seq = j
    BY <1>1, <1>3, <1>7, <1>8, LogTypes
  <2>2. ChangeAt(j) \in run[d].changes
    BY <1>3, <1>8
  <2>3. j < k
    BY <1>3
  <2> QED BY <1>5, <1>6, <2>1, <2>2, <2>3
<1>9. CASE j \notin s + 1 .. n
  <2>1. j \in 1 .. s
    BY <1>3, <1>9
  <2>2. IsCanonical(ents[d][p], p, s) \/ Confirmed(ents[d][p], p, s)
    BY <1>1, <1>2 DEF Fits, RestFits, Queued
  <2>3. ents[d][p] # None
    BY <1>7, <2>1, <2>2 DEF IsCanonical, Confirmed
  <2> QED BY <1>6, <2>3
<1> QED BY <1>8, <1>9

\* A page that finds the queue empty can always be applied.
THEOREM PagesApply == Spec => []PageAlwaysApplies
BY SInvPages, AlwaysSInv, PTL

\* Only what is on its way takes effect.
LEMMA LogSteps ==
  ASSUME SInv, [Next]_vars
  PROVE  /\ dropped \subseteq dropped'
         /\ log' = log \/ \E m \in minted : Effect(m)
<1>1. CASE UNCHANGED vars
  BY <1>1 DEF vars, serverVars, history
<1>2. ASSUME NEW m \in minted, Serve(m)
      PROVE  log' = log \/ Effect(m)
  BY <1>2, ServeSteps DEF Refusal
<1>3. ASSUME NEW d \in Device, servePush(d)
      PROVE  dropped' = dropped /\ (log' = log \/ \E m \in minted : Effect(m))
  <2>1. run[d].m \in minted /\ Serve(run[d].m)
    BY <1>3, SentIsQueued DEF servePush
  <2> QED BY <1>2, <1>3, <2>1 DEF servePush, history
<1>4. ASSUME NEW m \in stale, ServeStale(m)
      PROVE  dropped' = dropped /\ (log' = log \/ \E k \in minted : Effect(k))
  <2>1. m \in minted /\ Serve(m)
    BY <1>4 DEF ServeStale, SInv
  <2> QED BY <1>2, <1>4, <2>1 DEF ServeStale, history
<1>5. ASSUME NEW d \in Device, Step(d)
      PROVE  dropped' = dropped /\ (log' = log \/ \E m \in minted : Effect(m))
  BY <1>3, <1>5 DEF Step, bootstrapSync, sendNext, acknowledge, block, pushDone, servePull,
     applyPage, deferSync, finishSync, finishRestore, serverVars, history
<1>6. ASSUME NEW d \in Device,
             AutoSync(d) \/ Retry(d) \/ fail(d) \/ abandon(d) \/ restoreFromServer(d) \/ resumeRestore(d)
      PROVE  dropped \subseteq dropped' /\ log' = log
  BY <1>6 DEF AutoSync, Retry, runSync, fail, abandon, restoreFromServer, resumeRestore,
     serverVars, history
<1>7. ASSUME NEW d \in Device, NEW i \in Id, enqueueMutation(d, i)
      PROVE  dropped' = dropped /\ log' = log
  BY <1>7 DEF enqueueMutation, serverVars
<1>8. ASSUME NEW d \in Device, NEW x \in outbox[d], repairBlockedMutation(d, x)
      PROVE  dropped \subseteq dropped' /\ log' = log
  BY <1>8 DEF repairBlockedMutation, serverVars
<1> QED BY <1>1, <1>4, <1>5, <1>6, <1>7, <1>8 DEF Next, Act

\* What takes effect and is not dropped is queued, behind all that has taken effect.
LEMMA EffectLast ==
  ASSUME SInv, NEW m \in minted, Unanswered(m), m.mid \notin dropped,
         NEW p \in DOMAIN log, log[p].by # None, log[p].by.dev = m.dev
  PROVE  log[p].by.n < m.n
<1>1. PICK k : k = log[p].by
  OBVIOUS
<1>2. PICK r \in answers : r.m = k /\ r.status = "applied"
  BY <1>1 DEF SInv, LogFits
<1>3. k \in minted /\ k # m /\ Live(k)
  BY <1>2, AppliedBy DEF SInv, AnswersFit, Unanswered, Live
<1>4. ~Applied(m)
  BY AppliedBy DEF Unanswered
<1>5. PICK x \in outbox[m.dev] : x.m = m
  BY <1>4 DEF SInv, NothingLost
<1> QED BY <1>1, <1>3, <1>5 DEF SInv, OrderFits

LEMMA StepOrder == SInv /\ ServerKeepsLocalOrder /\ [Next]_vars => ServerKeepsLocalOrder'
<1> SUFFICES ASSUME SInv, ServerKeepsLocalOrder, [Next]_vars PROVE ServerKeepsLocalOrder'
  OBVIOUS
<1>1. /\ dropped \subseteq dropped'
      /\ log' = log \/ \E m \in minted : Effect(m)
  BY LogSteps
<1>2. CASE log' = log
  BY <1>1, <1>2 DEF ServerKeepsLocalOrder
<1>3. ASSUME NEW m \in minted, Effect(m)
      PROVE  ServerKeepsLocalOrder'
  <2>1. m \in Mutation /\ TypeOK
    BY DEF SInv, TypeOK
  <2>2. PICK l : l = Len(log) + 1
    OBVIOUS
  <2>3. /\ DOMAIN log' = 1 .. l /\ log'[l] = [id |-> m.id, by |-> m]
        /\ \A n \in 1 .. Len(log) : log'[n] = log[n]
    BY <1>3, <2>1, <2>2, EffectLog
  <2>4. Len(log) \in Nat /\ DOMAIN log = 1 .. Len(log)
    BY <2>1, LogTypes
  <2>5. ASSUME NEW p \in DOMAIN log', NEW q \in DOMAIN log', p < q,
               log'[p].by # None, log'[q].by # None, log'[p].by.dev = log'[q].by.dev,
               log'[q].by.mid \notin dropped'
        PROVE  log'[p].by.n < log'[q].by.n
    <3>1. p \in DOMAIN log /\ log'[p] = log[p]
      BY <2>2, <2>3, <2>4, <2>5
    <3>2. CASE q = l
      BY <1>1, <1>3, <2>3, <2>5, <3>1, <3>2, EffectLast DEF Effect
    <3>3. CASE q # l
      <4>1. q \in DOMAIN log /\ log'[q] = log[q]
        BY <2>2, <2>3, <2>4, <3>3
      <4> QED BY <1>1, <2>5, <3>1, <4>1 DEF ServerKeepsLocalOrder
    <3> QED BY <3>2, <3>3
  <2> QED BY <2>5 DEF ServerKeepsLocalOrder
<1> QED BY <1>1, <1>2, <1>3

\* The server's log holds the edits of each device in the order they were made, except for those
\* the device has dropped.
THEOREM OrderIsKept == Spec => []ServerKeepsLocalOrder
<1>1. Init => ServerKeepsLocalOrder
  <2> SUFFICES ASSUME Init PROVE ServerKeepsLocalOrder
    OBVIOUS
  <2>1. \A n \in DOMAIN log : log[n].by = None
    BY DEF Init
  <2> QED BY <2>1 DEF ServerKeepsLocalOrder
<1> QED BY <1>1, AlwaysSInv, StepOrder, PTL DEF Spec

-----------------------------------------------------------------------------
(* A page, change by change *)

\* Of two changes of a row the newer one decides.
LEMMA NewerDecides ==
  ASSUME NEW e \in Entity \union {None}, NEW b \in Change, NEW c \in Change, b.seq < c.seq
  PROVE  applyChange(applyChange(e, b), c) = applyChange(e, c)
<1>1. PICK x : x = [by |-> b.by, canonical |-> TRUE, seq |-> b.seq]
  OBVIOUS
<1>2. x # None /\ x.seq = b.seq
  <2>1. x \in Entity
    BY <1>1 DEF Entity, Change
  <2> QED BY <1>1, <2>1, NoneAssumption
<1>3. b.seq \in Nat /\ c.seq \in Nat
  BY DEF Change
<1>4. e # None => e.seq \in Nat
  BY DEF Entity
<1>5. applyChange(x, c) = [by |-> c.by, canonical |-> TRUE, seq |-> c.seq]
  BY <1>2, <1>3 DEF applyChange
<1>6. CASE e = None \/ e.seq <= b.seq
  <2>1. applyChange(e, b) = x
    BY <1>1, <1>6 DEF applyChange
  <2>2. applyChange(e, c) = [by |-> c.by, canonical |-> TRUE, seq |-> c.seq]
    BY <1>3, <1>4, <1>6 DEF applyChange
  <2> QED BY <1>5, <2>1, <2>2
<1>7. CASE ~(e = None \/ e.seq <= b.seq)
  BY <1>7 DEF applyChange
<1> QED BY <1>6, <1>7

\* The rows after k changes of a page: its newest change so far decides a row.
RowsAfter(rows, es, page, k) ==
  \A i \in Id :
    /\ (\A j \in 1 .. k : page[j].id # i) => rows[k][i] = es[i]
    /\ \A j \in 1 .. k :
         page[j].id = i /\ (\A l \in 1 .. k : j < l => page[l].id # i) =>
           rows[k][i] = applyChange(es[i], page[j])

LEMMA OneChange ==
  ASSUME NEW es \in [Id -> Entity \union {None}], NEW n \in Nat, NEW page \in [1 .. n -> Change],
         \A j, k \in 1 .. n : j < k => page[j].seq < page[k].seq,
         NEW rows, NEW k \in Nat, rows[k] = [i \in Id |-> rows[k][i]], k < n, RowsAfter(rows, es, page, k),
         rows[k + 1] = [rows[k] EXCEPT ![page[k + 1].id] = applyChange(@, page[k + 1])]
  PROVE  rows[k + 1] = [i \in Id |-> rows[k + 1][i]] /\ RowsAfter(rows, es, page, k + 1)
<1>1. PICK c : c = page[k + 1]
  OBVIOUS
<1>2. c \in Change /\ c.id \in Id /\ k + 1 \in 1 .. n /\ \A j \in 1 .. k : j \in 1 .. n
  BY <1>1 DEF Change
<1>3. rows[k + 1] = [i \in Id |-> rows[k + 1][i]]
  OBVIOUS
<1>4. /\ rows[k + 1][c.id] = applyChange(rows[k][c.id], c)
      /\ \A i \in Id : i # c.id => rows[k + 1][i] = rows[k][i]
  BY <1>1, <1>2
<1>5. ASSUME NEW i \in Id
      PROVE  /\ (\A j \in 1 .. k + 1 : page[j].id # i) => rows[k + 1][i] = es[i]
             /\ \A j \in 1 .. k + 1 :
                  page[j].id = i /\ (\A l \in 1 .. k + 1 : j < l => page[l].id # i) =>
                    rows[k + 1][i] = applyChange(es[i], page[j])
  <2>1. /\ (\A j \in 1 .. k : page[j].id # i) => rows[k][i] = es[i]
        /\ \A j \in 1 .. k :
             page[j].id = i /\ (\A l \in 1 .. k : j < l => page[l].id # i) =>
               rows[k][i] = applyChange(es[i], page[j])
    BY DEF RowsAfter
  <2>2. \A j \in 1 .. k : j \in 1 .. k + 1
    OBVIOUS
  <2>3. \A j \in 1 .. k + 1 : j # k + 1 => j \in 1 .. k
    OBVIOUS
  <2>4. k + 1 \in 1 .. k + 1
    OBVIOUS
  <2>5. CASE i # c.id
    <3>1. rows[k + 1][i] = rows[k][i] /\ page[k + 1].id # i
      BY <1>1, <1>4, <2>5
    <3>2. (\A j \in 1 .. k + 1 : page[j].id # i) => rows[k + 1][i] = es[i]
      BY <2>1, <2>2, <3>1
    <3>3. ASSUME NEW j \in 1 .. k + 1, page[j].id = i, \A l \in 1 .. k + 1 : j < l => page[l].id # i
          PROVE  rows[k + 1][i] = applyChange(es[i], page[j])
      <4>1. j \in 1 .. k
        BY <2>3, <3>1, <3>3
      <4> QED BY <2>1, <2>2, <3>1, <3>3, <4>1
    <3> QED BY <3>2, <3>3
  <2>6. CASE i = c.id
    <3>1. page[k + 1].id = i /\ rows[k + 1][i] = applyChange(rows[k][i], c)
      BY <1>1, <1>4, <2>6
    <3>2. applyChange(rows[k][i], c) = applyChange(es[i], c)
      <4>1. CASE \A j \in 1 .. k : page[j].id # i
        BY <2>1, <4>1
      <4>2. CASE \E j \in 1 .. k : page[j].id = i
        <5>1. PICK T : T = {j \in 1 .. k : page[j].id = i}
          OBVIOUS
        <5>2. T \in SUBSET Nat /\ T # {} /\ \A j \in T : j <= k
          BY <4>2, <5>1
        <5>3. PICK j \in T : \A l \in T : l <= j
          BY <5>2, Greatest
        <5>4. j \in 1 .. k /\ page[j].id = i
          BY <5>1
        <5>5. \A l \in 1 .. k : j < l => page[l].id # i
          BY <5>1, <5>3, <5>4
        <5>6. rows[k][i] = applyChange(es[i], page[j])
          BY <2>1, <5>4, <5>5
        <5>7. page[j] \in Change /\ page[j].seq < c.seq
          BY <1>1, <1>2, <5>4
        <5>8. es[i] \in Entity \union {None}
          OBVIOUS
        <5> QED BY <1>2, <5>6, <5>7, <5>8, NewerDecides
      <4> QED BY <4>1, <4>2
    <3>3. ASSUME NEW j \in 1 .. k + 1, \A l \in 1 .. k + 1 : j < l => page[l].id # i PROVE j = k + 1
      BY <2>4, <3>1, <3>3
    <3> QED BY <1>1, <2>4, <3>1, <3>2, <3>3
  <2> QED BY <2>5, <2>6
<1> QED BY <1>3, <1>5 DEF RowsAfter

\* pullChanges applies the changes of a page one by one as they ascend, and each after its
\* vehicle: AppliedTo says what that comes to, and Applies that every vehicle is there in time.
THEOREM PagesAreAppliedInTurn ==
  ASSUME NEW es \in [Id -> Entity \union {None}], NEW n \in Nat, NEW page \in [1 .. n -> Change],
         \A j, k \in 1 .. n : j < k => page[j].seq < page[k].seq,
         NEW rows, rows[0] = es,
         \A k \in 1 .. n :
           rows[k] = [rows[k - 1] EXCEPT ![page[k].id] = applyChange(@, page[k])],
         NEW changes, changes = {page[k] : k \in 1 .. n}
  PROVE  /\ rows[n] = AppliedTo(es, changes)
         /\ Applies(es, changes) <=>
              \A k \in 1 .. n : LET p == Parent[page[k].id]
                                IN p # None => rows[k - 1][p] # None
<1> DEFINE RightAt(k)  == rows[k] = [i \in Id |-> rows[k][i]] /\ RowsAfter(rows, es, page, k)
           Wrong == {k \in Nat : k <= n /\ ~RightAt(k)}
<1>1. RightAt(0)
  BY DEF RowsAfter
<1>2. ASSUME NEW k \in Nat, k < n, RightAt(k) PROVE RightAt(k + 1)
  <2>1. k + 1 \in 1 .. n /\ (k + 1) - 1 = k
    BY <1>2
  <2>2. rows[k + 1] = [rows[k] EXCEPT ![page[k + 1].id] = applyChange(@, page[k + 1])]
    <3>1. rows[k + 1] = [rows[(k + 1) - 1] EXCEPT ![page[k + 1].id] = applyChange(@, page[k + 1])]
      BY <2>1
    <3> QED BY <2>1, <3>1
  <2> QED BY <1>2, <2>2, OneChange
<1>3. Wrong = {}
  <2> HIDE DEF RightAt
  <2> SUFFICES ASSUME Wrong # {} PROVE FALSE
    OBVIOUS
  <2>1. PICK k \in Wrong : \A j \in Wrong : k <= j
    <3>1. Wrong \in SUBSET Nat
      OBVIOUS
    <3> HIDE DEF Wrong
    <3> QED BY <3>1, Least
  <2>2. k \in Nat /\ k <= n /\ k # 0
    BY <1>1
  <2>3. k - 1 \in Nat /\ k - 1 < n /\ k - 1 \notin Wrong /\ (k - 1) + 1 = k
    BY <2>1, <2>2
  <2>4. RightAt(k - 1)
    BY <2>2, <2>3
  <2>5. RightAt((k - 1) + 1)
    BY <1>2, <2>3, <2>4
  <2> QED BY <2>1, <2>3, <2>5
<1>4. \A k \in 0 .. n : RightAt(k)
  <2> HIDE DEF RightAt
  <2> QED BY <1>3
<1>5. \A k \in 1 .. n : page[k] \in Change /\ page[k].id \in Id /\ page[k].seq \in Nat
  BY DEF Change
<1>6. rows[n] = AppliedTo(es, changes)
  <2>1. rows[n] = [i \in Id |-> rows[n][i]] /\ RowsAfter(rows, es, page, n)
    <3>1. n \in 0 .. n
      OBVIOUS
    <3>2. RightAt(n)
      <4> HIDE DEF RightAt
      <4> QED BY <1>4, <3>1
    <3> QED BY <3>2
  <2>2. ASSUME NEW i \in Id PROVE rows[n][i] = AppliedTo(es, changes)[i]
    <3>1. PICK cs : cs = {c \in changes : c.id = i}
      OBVIOUS
    <3>2. AppliedTo(es, changes)[i] =
            IF cs = {} THEN es[i]
            ELSE applyChange(es[i], CHOOSE c \in cs : \A b \in cs : b.seq <= c.seq)
      BY <3>1 DEF AppliedTo
    <3>3. CASE cs = {}
      <4>1. \A j \in 1 .. n : page[j].id # i
        BY <3>1, <3>3
      <4> QED BY <2>1, <3>2, <3>3, <4>1 DEF RowsAfter
    <3>4. CASE cs # {}
      <4>1. PICK T : T = {j \in 1 .. n : page[j].id = i}
        OBVIOUS
      <4>2. T \in SUBSET Nat /\ T # {} /\ \A j \in T : j <= n
        BY <3>1, <3>4, <4>1
      <4>3. PICK j \in T : \A l \in T : l <= j
        BY <4>2, Greatest
      <4>4. j \in 1 .. n /\ page[j].id = i
        BY <4>1
      <4>5. \A l \in 1 .. n : j < l => page[l].id # i
        BY <4>1, <4>3, <4>4
      <4>6. rows[n][i] = applyChange(es[i], page[j])
        BY <2>1, <4>4, <4>5 DEF RowsAfter
      <4>7. page[j] \in cs
        BY <3>1, <4>4
      <4>8. \A b \in cs : b = page[j] \/ b.seq < page[j].seq
        <5>1. ASSUME NEW b \in cs PROVE b = page[j] \/ b.seq < page[j].seq
          <6>1. PICK l \in 1 .. n : b = page[l] /\ page[l].id = i
            BY <3>1
          <6>2. l <= j
            BY <4>1, <4>3, <6>1
          <6> QED BY <4>4, <6>1, <6>2
        <5> QED BY <5>1
      <4>9. \A b \in cs : b.seq \in Nat
        BY <1>5, <3>1
      <4>10. PICK c : c = CHOOSE x \in cs : \A b \in cs : b.seq <= x.seq
        OBVIOUS
      <4>11. \A b \in cs : b.seq <= page[j].seq
        BY <4>7, <4>8, <4>9
      <4>12. c \in cs /\ page[j].seq <= c.seq
        BY <4>7, <4>10, <4>11
      <4>13. c = page[j]
        BY <4>7, <4>8, <4>9, <4>12
      <4> QED BY <3>2, <3>4, <4>6, <4>10, <4>13
    <3> QED BY <3>3, <3>4
  <2>3. AppliedTo(es, changes) = [i \in Id |-> AppliedTo(es, changes)[i]]
    BY DEF AppliedTo
  <2> QED BY <2>1, <2>2, <2>3
<1>7. ASSUME NEW k \in 1 .. n, NEW p \in Id
      PROVE  rows[k - 1][p] # None <=> es[p] # None \/ \E j \in 1 .. k - 1 : page[j].id = p
  <2>1. k - 1 \in 0 .. n /\ k - 1 \in Nat /\ \A j \in 1 .. k - 1 : j \in 1 .. n
    OBVIOUS
  <2>2. RowsAfter(rows, es, page, k - 1)
    BY <1>4, <2>1
  <2>3. CASE \A j \in 1 .. k - 1 : page[j].id # p
    BY <2>2, <2>3 DEF RowsAfter
  <2>4. CASE \E j \in 1 .. k - 1 : page[j].id = p
    <3>1. PICK T : T = {j \in 1 .. k - 1 : page[j].id = p}
      OBVIOUS
    <3>2. T \in SUBSET Nat /\ T # {} /\ \A j \in T : j <= k - 1
      BY <2>4, <3>1
    <3>3. PICK j \in T : \A l \in T : l <= j
      BY ONLY <3>2, <2>1, Greatest
    <3>4. j \in 1 .. k - 1 /\ page[j].id = p
      BY <3>1
    <3>5. \A l \in 1 .. k - 1 : j < l => page[l].id # p
      BY <3>1, <3>3, <3>4
    <3>6. rows[k - 1][p] = applyChange(es[p], page[j])
      BY <2>2, <3>4, <3>5 DEF RowsAfter
    <3>7. page[j] \in Change
      BY <2>1, <3>4
    <3>8. applyChange(es[p], page[j]) # None
      <4>1. PICK x : x = [by |-> page[j].by, canonical |-> TRUE, seq |-> page[j].seq]
        OBVIOUS
      <4>2. x \in Entity
        BY <3>7, <4>1 DEF Entity, Change
      <4> QED BY <4>1, <4>2, NoneAssumption DEF applyChange
    <3> QED BY <2>4, <3>6, <3>8
  <2> QED BY <2>3, <2>4
<1>8. ASSUME NEW k \in 1 .. n, NEW p
      PROVE  (\E j \in 1 .. k - 1 : page[j].id = p) <=> \E b \in changes : b.id = p /\ b.seq < page[k].seq
  <2>1. ASSUME NEW j \in 1 .. k - 1, page[j].id = p
        PROVE  \E b \in changes : b.id = p /\ b.seq < page[k].seq
    <3>1. j \in 1 .. n /\ j < k
      OBVIOUS
    <3>2. page[j] \in changes /\ page[j].seq < page[k].seq
      BY <3>1
    <3> QED BY <2>1, <3>2
  <2>2. ASSUME NEW b \in changes, b.id = p, b.seq < page[k].seq
        PROVE  \E j \in 1 .. k - 1 : page[j].id = p
    <3>1. PICK j \in 1 .. n : b = page[j]
      OBVIOUS
    <3>2. j < k
      <4>1. ~(k < j) /\ j # k
        BY <1>5, <2>2, <3>1
      <4> QED BY <4>1
    <3>3. j \in 1 .. k - 1
      BY <3>2
    <3> QED BY <2>2, <3>1, <3>3
  <2> QED BY <2>1, <2>2
<1>9. \A k \in 1 .. n : Parent[page[k].id] # None => Parent[page[k].id] \in Id
  BY <1>5, ParentAssumption
<1>10. Applies(es, changes) <=>
         \A k \in 1 .. n :
           Parent[page[k].id] # None =>
             es[Parent[page[k].id]] # None
               \/ \E b \in changes : b.id = Parent[page[k].id] /\ b.seq < page[k].seq
  BY DEF Applies
<1>11. ASSUME NEW k \in 1 .. n, Parent[page[k].id] # None
       PROVE  rows[k - 1][Parent[page[k].id]] # None <=>
                es[Parent[page[k].id]] # None
                  \/ \E b \in changes : b.id = Parent[page[k].id] /\ b.seq < page[k].seq
  <2>1. PICK p \in Id : p = Parent[page[k].id]
    BY <1>9, <1>11
  <2>2. rows[k - 1][p] # None <=> es[p] # None \/ \E j \in 1 .. k - 1 : page[j].id = p
    BY <1>7
  <2>3. (\E j \in 1 .. k - 1 : page[j].id = p) <=> \E b \in changes : b.id = p /\ b.seq < page[k].seq
    BY <1>8
  <2> QED BY <2>1, <2>2, <2>3
<1>12. Applies(es, changes) <=>
         \A k \in 1 .. n : Parent[page[k].id] # None => rows[k - 1][Parent[page[k].id]] # None
  BY <1>10, <1>11
<1> QED BY <1>6, <1>12
=============================================================================
