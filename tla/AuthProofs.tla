------------------------------ MODULE AuthProofs ------------------------------
(***************************************************************************)
(* What Auth promises for every number of handlers, accounts, sessions,    *)
(* passwords, Google subjects and tokens.  The invariant says what a       *)
(* handler may still rely on of what it read some statements ago: an       *)
(* account stays, its version only grows, and with the same version it has *)
(* the same password.                                                      *)
(***************************************************************************)
EXTENDS Auth, TLAPS

-----------------------------------------------------------------------------
(* The invariant *)

\* Credential b opens account a as it is now.
Matches(a, b) == b = account[a].pass \/ [account |-> a, subject |-> b] \in identity

\* Account a has been at this version, with this credential.
WasOpen(a, version, b) ==
  /\ account[a] # None
  /\ version <= account[a].version
  /\ version = account[a].version => Matches(a, b)

\* A transaction to link carries the password of the version it carries.
LinkFits(g) ==
  g.purpose = "link" =>
    /\ g.account \in Account
    /\ account[g.account] # None
    /\ g.version <= account[g.account].version
    /\ g.version = account[g.account].version => account[g.account].pass = g.proof

\* What a handler still relies on
ReqFits(r) ==
  /\ r.at = "opening" => WasOpen(r.account, r.version, r.by)
  /\ r.at = "issuing" =>
       /\ account[r.account] # None
       /\ r.then.at = "opening" => WasOpen(r.then.account, r.then.version, r.then.by)
  /\ r.at \in {"refreshing", "resolving"} =>
       account[r.read.account] # None /\ r.since <= account[r.read.account].version
  /\ r.at = "authorized" => account[r.read.account] # None /\ r.since <= r.read.version
  /\ r.at = "verifying" => account[r.account] # None
  /\ r.at \in {"checking", "changing"} =>
       /\ account[r.account] # None
       /\ r.token \in DOMAIN mails
       /\ mails[r.token] = [kind |-> "reset", account |-> r.account, version |-> r.version]
  /\ r.at \in {"saving", "exchanging", "claimed", "locked", "linking"} => LinkFits(r.google)
  /\ r.at = "linking" => r.google.purpose = "link"
  /\ r.at = "known" => [account |-> r.account, subject |-> r.subject] \in identity

ReqsFit == \A h \in Handler : ReqFits(req[h])

SessionFits(s) ==
  session[s] # None => /\ s \in Issued
                       /\ WasOpen(session[s].account, session[s].version, opened[s])
SessionsFit == \A s \in Sid : SessionFits(s)

StatesFit == \A x \in 1 .. MaxStates : state[x] # None => LinkFits(state[x])

MailsFit == \A t \in DOMAIN mails : account[mails[t].account] # None

IdentitiesFit == \A i \in identity : account[i.account] # None

ResetFits(a) ==
  IF account[a] = None
  THEN resets[a] = <<>>
  ELSE /\ account[a].version = Len(resets[a]) + 1
       /\ \A n \in DOMAIN resets[a] :
            /\ resets[a][n] \in DOMAIN mails
            /\ mails[resets[a][n]] = [kind |-> "reset", account |-> a, version |-> n]
ResetsFit == \A a \in Account : ResetFits(a)

CInv == TypeOK /\ ReqsFit /\ SessionsFit /\ StatesFit /\ MailsFit /\ IdentitiesFit /\ ResetsFit

\* A live token is the one its index names, and no newer one was mailed.
TokensFit ==
  \A t \in token :
    /\ tokenIndex[mails[t].kind][mails[t].account] = t
    /\ \A u \in DOMAIN mails :
         mails[u].kind = mails[t].kind /\ mails[u].account = mails[t].account => u <= t

\* What a handler holds while it links or creates
LocksFit(h, r) ==
  /\ r.at \in {"locked", "absent", "linking"} => subjectLock[r.subject] = h
  /\ r.at = "absent" => \A i \in identity : i.subject # r.subject
  /\ r.at = "linking" => /\ rowLock[r.google.account] = h
                         /\ account[r.google.account].version = r.google.version

LInv == \A h \in Handler : LocksFit(h, req[h])

-----------------------------------------------------------------------------
(* What a handler remembers, by how far it is *)

LEMMA Shapes ==
  ASSUME NEW r \in ReqState
  PROVE  /\ r.at = "creating" => r \in Creating
         /\ r.at = "opening" => r \in Opening
         /\ r.at = "rotating" => r \in Rotating
         /\ r.at \in {"refreshing", "resolving", "authorized"} => r \in Entering
         /\ r.at = "issuing" => r \in Issuing
         /\ r.at = "verifying" => r \in Verifying
         /\ r.at \in {"checking", "changing"} => r \in Resetting
         /\ r.at \in {"saving", "exchanging"} => r \in Leaving
         /\ r.at \in {"claimed", "locked", "absent", "linking"} => r \in Claiming
         /\ r.at = "known" => r \in Knowing
         /\ r.at = "refused" => r \in Refused
<1>1. CASE r = Idle BY <1>1 DEF Idle
<1>2. CASE r \in Creating BY <1>2 DEF Creating
<1>3. CASE r \in Opening BY <1>3 DEF Opening
<1>4. CASE r \in Rotating BY <1>4 DEF Rotating
<1>5. CASE r \in Entering BY <1>5 DEF Entering
<1>6. CASE r \in Issuing BY <1>6 DEF Issuing
<1>7. CASE r \in Verifying BY <1>7 DEF Verifying
<1>8. CASE r \in Resetting BY <1>8 DEF Resetting
<1>9. CASE r \in Leaving BY <1>9 DEF Leaving
<1>10. CASE r \in Claiming BY <1>10 DEF Claiming
<1>11. CASE r \in Knowing BY <1>11 DEF Knowing
<1>12. CASE r \in Refused BY <1>12 DEF Refused
<1> QED
  BY <1>1, <1>2, <1>3, <1>4, <1>5, <1>6, <1>7, <1>8, <1>9, <1>10, <1>11, <1>12 DEF ReqState

LEMMA IdleFits == Idle \in ReqState /\ ReqFits(Idle) /\ ReqFits(Idle)' /\ Idle.at = "idle"
BY DEF Idle, ReqState, ReqFits

-----------------------------------------------------------------------------
(* Nothing a handler relies on is taken back *)

AccountsLater ==
  \A a \in Account :
    account[a] # None =>
      /\ account'[a] # None
      /\ account[a].version <= account'[a].version
      /\ account[a].version = account'[a].version => account[a].pass = account'[a].pass

Later ==
  /\ AccountsLater
  /\ identity \subseteq identity'
  /\ \A t \in DOMAIN mails : t \in DOMAIN mails' /\ mails'[t] = mails[t]

\* Handler h goes on as r, and may; the others stay where they are.
Moves(h) == \E r \in ReqState : req' = [req EXCEPT ![h] = r] /\ ReqFits(r)'

SessionsOnlyEnd == opened' = opened /\ \A s \in Sid : session'[s] \in {session[s], None}
StatesOnlyEnd == \A x \in 1 .. MaxStates : state'[x] \in {state[x], None}

LEMMA VersionType ==
  ASSUME TypeOK, NEW a \in Account, account[a] # None
  PROVE  account[a] \in AccountRow /\ account[a].version \in Nat \ {0}
BY DEF TypeOK, AccountRow

LEMMA WasOpenLater ==
  ASSUME TypeOK, TypeOK', Later, NEW a \in Account, NEW version \in Nat, NEW b,
         WasOpen(a, version, b)
  PROVE  WasOpen(a, version, b)'
<1>1. account[a] # None /\ account'[a] # None
  BY DEF WasOpen, Later, AccountsLater
<1>2. account[a].version \in Nat /\ account'[a].version \in Nat
  BY <1>1 DEF TypeOK, AccountRow
<1>3. /\ account[a].version <= account'[a].version
      /\ account[a].version = account'[a].version => account[a].pass = account'[a].pass
  BY <1>1 DEF Later, AccountsLater
<1>4. version <= account[a].version /\ (version = account[a].version => Matches(a, b))
  BY DEF WasOpen
<1>5. ASSUME version = account'[a].version PROVE Matches(a, b)'
  <2>1. version = account[a].version /\ account[a].pass = account'[a].pass
    BY <1>2, <1>3, <1>4, <1>5
  <2> QED BY <1>4, <2>1 DEF Matches, Later
<1> QED BY <1>1, <1>2, <1>3, <1>4, <1>5 DEF WasOpen

LEMMA LinkFitsLater ==
  ASSUME TypeOK, TypeOK', Later, NEW g \in GoogleState, LinkFits(g)
  PROVE  LinkFits(g)'
<1> SUFFICES ASSUME g.purpose = "link"
             PROVE  /\ g.account \in Account
                    /\ account'[g.account] # None
                    /\ g.version <= account'[g.account].version
                    /\ g.version = account'[g.account].version => account'[g.account].pass = g.proof
  BY DEF LinkFits
<1>1. PICK a : a = g.account
  OBVIOUS
<1>2. /\ a \in Account /\ account[a] # None /\ g.version <= account[a].version
      /\ g.version = account[a].version => account[a].pass = g.proof
  BY <1>1 DEF LinkFits
<1>3. /\ account'[a] # None /\ account[a].version <= account'[a].version
      /\ account[a].version = account'[a].version => account[a].pass = account'[a].pass
  BY <1>2 DEF Later, AccountsLater
<1>4. account[a].version \in Nat /\ account'[a].version \in Nat /\ g.version \in Nat
  BY <1>2, <1>3 DEF TypeOK, AccountRow, GoogleState
<1> QED BY <1>1, <1>2, <1>3, <1>4

LEMMA ReqFitsLater ==
  ASSUME TypeOK, TypeOK', Later, NEW r \in ReqState, ReqFits(r)
  PROVE  ReqFits(r)'
<1>1. r.at = "opening" => WasOpen(r.account, r.version, r.by)'
  BY Shapes, WasOpenLater DEF ReqFits, Opening
<1>2. ASSUME r.at = "issuing"
      PROVE  /\ account'[r.account] # None
             /\ r.then.at = "opening" => WasOpen(r.then.account, r.then.version, r.then.by)'
  <2>1. r \in Issuing /\ r.account \in Account
    BY <1>2, Shapes DEF Issuing
  <2>2. account'[r.account] # None
    BY <1>2, <2>1 DEF ReqFits, Later, AccountsLater
  <2>3. ASSUME r.then.at = "opening"
        PROVE  WasOpen(r.then.account, r.then.version, r.then.by)'
    <3>1. r.then \in Opening
      BY <2>1, <2>3 DEF Issuing, Idle
    <3>2. WasOpen(r.then.account, r.then.version, r.then.by)
      BY <1>2, <2>3 DEF ReqFits
    <3> QED BY <3>1, <3>2, WasOpenLater DEF Opening
  <2> QED BY <2>2, <2>3
<1>3. ASSUME r.at \in {"refreshing", "resolving", "authorized"}
      PROVE  /\ account'[r.read.account] # None
             /\ r.at # "authorized" => r.since <= account'[r.read.account].version
             /\ r.at = "authorized" => r.since <= r.read.version
  <2>1. r \in Entering /\ r.read.account \in Account /\ r.since \in Nat
    BY <1>3, Shapes DEF Entering, Session
  <2>2. PICK a : a = r.read.account
    OBVIOUS
  <2>3. /\ account[a] # None
        /\ r.at # "authorized" => r.since <= account[a].version
        /\ r.at = "authorized" => r.since <= r.read.version
    BY <1>3, <2>2 DEF ReqFits
  <2>4. account'[a] # None /\ account[a].version <= account'[a].version
    BY <2>1, <2>2, <2>3 DEF Later, AccountsLater
  <2>5. account[a].version \in Nat /\ account'[a].version \in Nat
    BY <2>1, <2>2, <2>3, <2>4 DEF TypeOK, AccountRow
  <2> QED BY <2>1, <2>2, <2>3, <2>4, <2>5
<1>4. r.at = "verifying" => account'[r.account] # None
  BY Shapes DEF ReqFits, Verifying, Later, AccountsLater
<1>5. ASSUME r.at \in {"checking", "changing"}
      PROVE  /\ account'[r.account] # None
             /\ r.token \in DOMAIN mails'
             /\ mails'[r.token] = [kind |-> "reset", account |-> r.account, version |-> r.version]
  <2>1. r.account \in Account
    BY <1>5, Shapes DEF Resetting
  <2> QED BY <1>5, <2>1 DEF ReqFits, Later, AccountsLater
<1>6. ASSUME r.at \in {"saving", "exchanging", "claimed", "locked", "linking"}
      PROVE  LinkFits(r.google)'
  <2>1. r.google \in GoogleState
    BY <1>6, Shapes DEF Leaving, Claiming
  <2>2. LinkFits(r.google)
    BY <1>6 DEF ReqFits
  <2> QED BY <2>1, <2>2, LinkFitsLater
<1>7. r.at = "linking" => r.google.purpose = "link"
  BY DEF ReqFits
<1>8. r.at = "known" => [account |-> r.account, subject |-> r.subject] \in identity'
  BY DEF ReqFits, Later
<1> QED BY <1>1, <1>2, <1>3, <1>4, <1>5, <1>6, <1>7, <1>8 DEF ReqFits

-----------------------------------------------------------------------------
(* Steps that leave accounts, identities and the history alone *)

SessionsEnd ==
  /\ session' \in [Sid -> Session \union {None}]
  /\ \A s \in Sid : session'[s] \in {session[s], None}

StatesStay ==
  /\ state' \in [1 .. MaxStates -> GoogleState \union {None}]
  /\ \A x \in 1 .. MaxStates :
       state'[x] \in {state[x], None} \/ (state'[x] \in GoogleState /\ LinkFits(state'[x]))

LocksTyped ==
  /\ subjectLock' \in [Subject -> Handler \union {None}]
  /\ rowLock' \in [Account -> Handler \union {None}]

TokensGo ==
  /\ token' \subseteq token
  /\ tokenIndex' \in [Kind -> [Account -> 0 .. Len(mails)]]

Quiet ==
  /\ UNCHANGED <<account, identity, history>>
  /\ SessionsEnd /\ StatesStay /\ LocksTyped /\ TokensGo
  /\ req' = req \/ \E h \in Handler : Moves(h)

LEMMA ReleasedType ==
  ASSUME NEW S, NEW lock \in [S -> Handler \union {None}], NEW h \in Handler
  PROVE  /\ Released(lock, h) \in [S -> Handler \union {None}]
         /\ \A x \in S : Released(lock, h)[x] = IF lock[x] = h THEN None ELSE lock[x]
BY DEF Released

LEMMA ReqsStep ==
  ASSUME TypeOK, TypeOK', ReqsFit, Later, req' = req \/ \E h \in Handler : Moves(h)
  PROVE  ReqsFit'
<1> SUFFICES ASSUME NEW k \in Handler PROVE \A r : r = req'[k] => ReqFits(r)'
  BY DEF ReqsFit
<1>1. req[k] \in ReqState /\ ReqFits(req[k])
  BY DEF TypeOK, ReqsFit
<1>2. \A r : r = req[k] => ReqFits(r)'
  BY <1>1, ReqFitsLater
<1>3. CASE req' = req
  BY <1>2, <1>3
<1>4. ASSUME NEW h \in Handler, Moves(h) PROVE \A r : r = req'[k] => ReqFits(r)'
  <2>1. PICK s \in ReqState : req' = [req EXCEPT ![h] = s] /\ ReqFits(s)'
    BY <1>4 DEF Moves
  <2>2. req'[k] = s \/ req'[k] = req[k]
    BY <2>1 DEF TypeOK
  <2> QED BY <1>2, <2>1, <2>2
<1> QED BY <1>3, <1>4

LEMMA SessionsStep ==
  ASSUME TypeOK, TypeOK', SessionsFit, Later, SessionsEnd, opened' = opened
  PROVE  SessionsFit'
<1> SUFFICES ASSUME NEW s \in Sid, session'[s] # None
             PROVE  /\ s \in Issued'
                    /\ \A a, v, b : a = session'[s].account /\ v = session'[s].version
                                     /\ b = opened'[s] => WasOpen(a, v, b)'
  BY DEF SessionsFit, SessionFits
<1>1. session'[s] = session[s] /\ session[s] # None
  BY DEF SessionsEnd
<1>2. /\ s \in Issued /\ session[s] \in Session
      /\ WasOpen(session[s].account, session[s].version, opened[s])
  BY <1>1 DEF SessionsFit, SessionFits, TypeOK
<1>3. PICK a, v, b : a = session[s].account /\ v = session[s].version /\ b = opened[s]
  OBVIOUS
<1>4. a \in Account /\ v \in Nat /\ WasOpen(a, v, b)
  BY <1>2, <1>3 DEF Session
<1>5. WasOpen(a, v, b)'
  BY <1>4, WasOpenLater
<1>6. session'[s].account = a /\ session'[s].version = v /\ opened'[s] = b
  BY <1>1, <1>3
<1> QED BY <1>2, <1>5, <1>6 DEF Issued

LEMMA StatesStep ==
  ASSUME TypeOK, TypeOK', StatesFit, Later, StatesStay
  PROVE  StatesFit'
<1> SUFFICES ASSUME NEW x \in 1 .. MaxStates, state'[x] # None
             PROVE  \A g : g = state'[x] => LinkFits(g)'
  BY DEF StatesFit
<1>1. state'[x] \in GoogleState /\ LinkFits(state'[x])
  BY DEF StatesStay, StatesFit, TypeOK
<1> QED BY <1>1, LinkFitsLater

LEMMA QuietTypes ==
  ASSUME TypeOK, Quiet
  PROVE  TypeOK'
<1>1. req' \in [Handler -> ReqState]
  <2>1. CASE req' = req
    BY <2>1 DEF TypeOK
  <2>2. ASSUME NEW h \in Handler, Moves(h) PROVE req' \in [Handler -> ReqState]
    BY <2>2 DEF TypeOK, Moves
  <2> QED BY <2>1, <2>2 DEF Quiet
<1>2. account' = account /\ identity' = identity /\ opened' = opened /\ mails' = mails
      /\ resets' = resets
  BY DEF Quiet, history
<1> QED BY <1>1, <1>2 DEF TypeOK, Quiet, SessionsEnd, StatesStay, LocksTyped, TokensGo

LEMMA QuietStep ==
  ASSUME CInv, Quiet
  PROVE  CInv' /\ Later
<1>1. account' = account /\ identity' = identity /\ opened' = opened /\ mails' = mails
      /\ resets' = resets
  BY DEF Quiet, history
<1>2. TypeOK'
  BY QuietTypes DEF CInv
<1>3. Later
  <2>1. \A a \in Account : account[a] # None => account[a].version <= account[a].version
    BY DEF CInv, TypeOK, AccountRow
  <2> QED BY <1>1, <2>1 DEF Later, AccountsLater
<1>4. ReqsFit'
  BY <1>2, <1>3, ReqsStep DEF CInv, Quiet
<1>5. SessionsFit' /\ StatesFit'
  BY <1>1, <1>2, <1>3, SessionsStep, StatesStep DEF CInv, Quiet
<1>6. MailsFit' /\ IdentitiesFit' /\ ResetsFit'
  BY <1>1 DEF CInv, MailsFit, IdentitiesFit, ResetsFit, ResetFits
<1> QED BY <1>2, <1>3, <1>4, <1>5, <1>6 DEF CInv

\* The frames of a step that changes none of them
LEMMA NoneEnd ==
  ASSUME TypeOK, session' = session
  PROVE  SessionsEnd
BY DEF TypeOK, SessionsEnd

LEMMA StatesSame ==
  ASSUME TypeOK, state' = state
  PROVE  StatesStay
BY DEF TypeOK, StatesStay

LEMMA LocksSame ==
  ASSUME TypeOK, UNCHANGED <<subjectLock, rowLock>>
  PROVE  LocksTyped
BY DEF TypeOK, LocksTyped

LEMMA TokensSame ==
  ASSUME TypeOK, UNCHANGED <<token, tokenIndex>>
  PROVE  TokensGo
BY DEF TypeOK, TokensGo

LEMMA IssuedType ==
  ASSUME TypeOK
  PROVE  Issued \subseteq Sid /\ Issued \subseteq Nat /\ Len(opened) \in Nat
<1>1. Len(opened) \in Nat /\ Len(opened) <= MaxSessions
  BY DEF TypeOK
<1> QED BY <1>1, BoundAssumption DEF Issued, Sid

LEMMA Goes ==
  ASSUME CInv, UNCHANGED <<account, identity, history>>,
         SessionsEnd, StatesStay, LocksTyped, TokensGo,
         NEW h \in Handler, NEW r \in ReqState, ReqFits(r), Goto(h, r)
  PROVE  Quiet
<1>1. ReqFits(r)'
  BY DEF ReqFits, WasOpen, Matches, LinkFits, history
<1>2. Moves(h)
  BY <1>1 DEF Moves, Goto
<1> QED BY <1>2 DEF Quiet

\* A step of h alone
LEMMA GoesAlone ==
  ASSUME CInv, UNCHANGED <<pgVars, redisVars, history>>,
         NEW h \in Handler, NEW r \in ReqState, ReqFits(r), Goto(h, r)
  PROVE  Quiet
BY Goes, NoneEnd, StatesSame, LocksSame, TokensSame DEF CInv, pgVars, redisVars

LEMMA ReqType ==
  ASSUME CInv, NEW h \in Handler
  PROVE  req[h] \in ReqState /\ ReqFits(req[h])
BY DEF CInv, TypeOK, ReqsFit

\* Requests that come in
LEMMA SignupQuiet ==
  ASSUME CInv, NEW h \in Handler, NEW e \in Email, NEW p \in Password, Signup(h, e, p)
  PROVE  Quiet
<1>1. PICK r : r = [at |-> "creating", email |-> e, pass |-> p]
  OBVIOUS
<1>2. r \in ReqState /\ ReqFits(r)
  BY <1>1 DEF ReqState, Creating, ReqFits
<1> QED BY <1>1, <1>2, GoesAlone DEF Signup

LEMMA LoginQuiet ==
  ASSUME CInv, NEW h \in Handler, NEW e \in Email, NEW p \in Password, Login(h, e, p)
  PROVE  Quiet
<1>1. PICK a \in AccountByEmail(e) :
        /\ account[a].pass = p
        /\ Goto(h, [at |-> "opening", account |-> a, version |-> account[a].version,
                    by |-> p, old |-> 0])
  BY DEF Login
<1>2. a \in Account /\ account[a] # None /\ account[a].version \in Nat
  BY VersionType DEF AccountByEmail, Accounts, CInv
<1>3. PICK r : r = [at |-> "opening", account |-> a, version |-> account[a].version,
                    by |-> p, old |-> 0]
  OBVIOUS
<1>4. r \in ReqState
  BY <1>2, <1>3 DEF ReqState, Opening
<1>5. ReqFits(r)
  BY <1>1, <1>2, <1>3 DEF ReqFits, WasOpen, Matches
<1> QED BY <1>1, <1>3, <1>4, <1>5, GoesAlone DEF Login

LEMMA GetSessionQuiet ==
  ASSUME CInv, NEW h \in Handler, NEW s \in Issued, GetSession(h, s)
  PROVE  Quiet
<1>1. s \in Sid /\ s \in Nat /\ session[s] # None
  BY IssuedType DEF GetSession, CInv
<1>2. PICK a : a = session[s].account
  OBVIOUS
<1>3. session[s] \in Session /\ a \in Account /\ account[a] # None /\ account[a].version \in Nat
  BY <1>1, <1>2, VersionType DEF CInv, TypeOK, Session, SessionsFit, SessionFits, WasOpen
<1>4. PICK r : r = [at |-> "refreshing", sid |-> s, read |-> session[s],
                    since |-> account[session[s].account].version]
  OBVIOUS
<1>5. r \in ReqState
  BY <1>1, <1>2, <1>3, <1>4 DEF ReqState, Entering
<1>6. ReqFits(r)
  BY <1>2, <1>3, <1>4 DEF ReqFits
<1> QED BY <1>4, <1>5, <1>6, GoesAlone DEF GetSession

LEMMA CreateVerificationTokenQuiet ==
  ASSUME CInv, NEW h \in Handler, NEW e \in Email, CreateVerificationToken(h, e)
  PROVE  Quiet
<1>1. PICK a \in AccountByEmail(e) :
        Goto(h, [at |-> "issuing", kind |-> "verification", account |-> a, version |-> 0,
                 then |-> Idle])
  BY DEF CreateVerificationToken
<1>2. PICK r : r = [at |-> "issuing", kind |-> "verification", account |-> a, version |-> 0,
                    then |-> Idle]
  OBVIOUS
<1>3. r \in ReqState
  BY <1>2 DEF ReqState, Issuing, Kind, AccountByEmail, Accounts
<1>4. ReqFits(r)
  BY <1>2, IdleFits DEF ReqFits, AccountByEmail, Accounts
<1> QED BY <1>1, <1>2, <1>3, <1>4, GoesAlone DEF CreateVerificationToken

LEMMA CreateResetTokenQuiet ==
  ASSUME CInv, NEW h \in Handler, NEW e \in Email, CreateResetToken(h, e)
  PROVE  Quiet
<1>1. PICK a \in AccountByEmail(e) :
        Goto(h, [at |-> "issuing", kind |-> "reset", account |-> a,
                 version |-> account[a].version, then |-> Idle])
  BY DEF CreateResetToken
<1>2. PICK r : r = [at |-> "issuing", kind |-> "reset", account |-> a,
                    version |-> account[a].version, then |-> Idle]
  OBVIOUS
<1>3. a \in Account /\ account[a] # None /\ account[a].version \in Nat
  BY VersionType DEF AccountByEmail, Accounts, CInv
<1>4. r \in ReqState
  BY <1>2, <1>3 DEF ReqState, Issuing, Kind
<1>5. ReqFits(r)
  BY <1>2, <1>3, IdleFits DEF ReqFits
<1> QED BY <1>1, <1>2, <1>4, <1>5, GoesAlone DEF CreateResetToken

LEMMA ConsumeTokenGoes ==
  ASSUME CInv, NEW h \in Handler, NEW t \in Nat, NEW r \in ReqState, ReqFits(r),
         ConsumeToken(h, t, r)
  PROVE  Quiet
<1>1. TokensGo
  BY DEF ConsumeToken, CInv, TypeOK, TokensGo
<1> QED BY <1>1, Goes, NoneEnd, StatesSame, LocksSame DEF CInv, ConsumeToken, pgVars

LEMMA VerifyEmailQuiet ==
  ASSUME CInv, NEW h \in Handler, NEW t \in DOMAIN mails, VerifyEmail(h, t)
  PROVE  Quiet
<1>1. PICK r : r = [at |-> "verifying", account |-> mails[t].account]
  OBVIOUS
<1>2. t \in Nat /\ mails[t] \in Mail
  BY DEF CInv, TypeOK
<1>3. r \in ReqState /\ ReqFits(r)
  BY <1>1, <1>2 DEF ReqState, Verifying, Mail, ReqFits, CInv, MailsFit
<1> QED BY <1>1, <1>2, <1>3, ConsumeTokenGoes DEF VerifyEmail

LEMMA ResetPasswordQuiet ==
  ASSUME CInv, NEW h \in Handler, NEW t \in DOMAIN mails, NEW p \in Password,
         ResetPassword(h, t, p)
  PROVE  Quiet
<1>1. PICK r : r = [at |-> "checking", token |-> t, account |-> mails[t].account,
                    version |-> mails[t].version, pass |-> p]
  OBVIOUS
<1>2. t \in Nat /\ mails[t] \in Mail /\ mails[t].kind = "reset"
  BY DEF CInv, TypeOK, ResetPassword
<1>3. r \in ReqState
  BY <1>1, <1>2 DEF ReqState, Resetting, Mail
<1>4. mails[t] = [kind |-> "reset", account |-> mails[t].account, version |-> mails[t].version]
  BY <1>2 DEF Mail
<1>5. ReqFits(r)
  BY <1>1, <1>4 DEF ReqFits, CInv, MailsFit
<1> QED BY <1>1, <1>2, <1>3, <1>5, ConsumeTokenGoes DEF ResetPassword

LEMMA TakeGoogleStateQuiet ==
  ASSUME CInv, NEW h \in Handler, NEW x \in DOMAIN state, NEW s, TakeGoogleState(h, x, s)
  PROVE  Quiet
<1>1. PICK g : g = state[x]
  OBVIOUS
<1>2. x \in 1 .. MaxStates /\ g \in GoogleState /\ LinkFits(g)
  BY <1>1 DEF TakeGoogleState, CInv, TypeOK, StatesFit
<1>3. PICK r : r = [at |-> "exchanging", google |-> g]
  OBVIOUS
<1>4. r \in ReqState /\ ReqFits(r)
  BY <1>2, <1>3 DEF ReqState, Leaving, ReqFits
<1>5. StatesStay
  BY <1>2 DEF TakeGoogleState, CInv, TypeOK, StatesStay
<1>6. Goto(h, r) \/ Goto(h, Idle)
  BY <1>1, <1>3 DEF TakeGoogleState
<1> QED BY <1>4, <1>5, <1>6, IdleFits, Goes, NoneEnd, LocksSame, TokensSame
        DEF CInv, TakeGoogleState, pgVars

LEMMA BeginLoginQuiet ==
  ASSUME CInv, NEW h \in Handler, NEW x \in DOMAIN state, NEW s \in Issued \union {0},
         BeginLogin(h, x, s)
  PROVE  Quiet
<1>1. x \in 1 .. MaxStates /\ s \in Nat
  BY DEF CInv, TypeOK, Issued
<1>2. PICK g : g = [purpose |-> "login", sid |-> s, account |-> None, version |-> 0,
                    proof |-> None]
  OBVIOUS
<1>3. g \in GoogleState /\ LinkFits(g)
  BY <1>1, <1>2 DEF GoogleState, LinkFits
<1>4. state' = [state EXCEPT ![x] = g]
  BY <1>2 DEF BeginLogin
<1>5. StatesStay
  BY <1>1, <1>3, <1>4 DEF CInv, TypeOK, StatesStay
<1> QED BY <1>5, NoneEnd, LocksSame, TokensSame DEF CInv, BeginLogin, pgVars, Quiet

LEMMA RequestQuiet ==
  ASSUME CInv, NEW h \in Handler, Request(h)
  PROVE  Quiet
BY SignupQuiet, LoginQuiet, GetSessionQuiet, CreateVerificationTokenQuiet,
   CreateResetTokenQuiet, VerifyEmailQuiet, ResetPasswordQuiet, BeginLoginQuiet,
   TakeGoogleStateQuiet DEF Request

LEMMA ReleasedLocks ==
  ASSUME CInv, NEW h \in Handler
  PROVE  /\ Released(subjectLock, h) \in [Subject -> Handler \union {None}]
         /\ Released(rowLock, h) \in [Account -> Handler \union {None}]
BY ReleasedType DEF CInv, TypeOK

\* A handler goes on with what it has
LEMMA refreshSessionQuiet ==
  ASSUME CInv, NEW h \in Handler, refreshSession(h)
  PROVE  Quiet
<1>1. PICK r : r = req[h]
  OBVIOUS
<1>2. r.at = "refreshing" /\ r \in Entering /\ ReqFits(r)
  BY <1>1, ReqType, Shapes DEF refreshSession
<1>3. PICK q : q = [r EXCEPT !.at = "resolving"]
  OBVIOUS
<1>4. q \in ReqState /\ ReqFits(q)
  BY <1>2, <1>3 DEF ReqState, Entering, ReqFits
<1>5. SessionsEnd /\ session' = session
  BY DEF refreshSession, CInv, TypeOK, SessionsEnd
<1>6. Goto(h, q) \/ Goto(h, Idle)
  BY <1>1, <1>3 DEF refreshSession
<1> QED BY <1>4, <1>5, <1>6, IdleFits, Goes, StatesSame, LocksSame, TokensSame
        DEF CInv, refreshSession, pgVars

LEMMA ResolveSessionQuiet ==
  ASSUME CInv, NEW h \in Handler, ResolveSession(h)
  PROVE  Quiet
<1>1. PICK r : r = req[h]
  OBVIOUS
<1>2. r.at = "resolving" /\ r \in Entering /\ ReqFits(r)
  BY <1>1, ReqType, Shapes DEF ResolveSession
<1>3. PICK q : q = [r EXCEPT !.at = "authorized"]
  OBVIOUS
<1>4. q \in ReqState
  BY <1>2, <1>3 DEF ReqState, Entering
<1>5. CASE account[r.read.account].version = r.read.version
  <2>1. q.at = "authorized" /\ q.read = r.read /\ q.since = r.since
    BY <1>2, <1>3 DEF Entering
  <2>2. account[r.read.account] # None /\ r.since <= account[r.read.account].version
    BY <1>2 DEF ReqFits
  <2>3. ReqFits(q)
    BY <1>5, <2>1, <2>2 DEF ReqFits
  <2>4. Goto(h, q)
    BY <1>1, <1>3, <1>5 DEF ResolveSession
  <2> QED BY <1>4, <2>3, <2>4, GoesAlone DEF ResolveSession
<1>6. CASE account[r.read.account].version # r.read.version
  BY <1>1, <1>6, IdleFits, GoesAlone DEF ResolveSession
<1> QED BY <1>5, <1>6

LEMMA IdleQuiet ==
  ASSUME CInv, NEW h \in Handler, Serve(h) \/ Refuse(h)
  PROVE  Quiet
BY IdleFits, GoesAlone DEF Serve, Refuse

LEMMA EndingQuiet ==
  ASSUME CInv, NEW h \in Handler, Logout(h) \/ RotateSession(h) \/ RotationFails(h)
  PROVE  Quiet
<1>1. SessionsEnd
  BY DEF Logout, RotateSession, RotationFails, CInv, TypeOK, SessionsEnd
<1>2. /\ Goto(h, Idle)
      /\ UNCHANGED <<pgVars, token, tokenIndex, state, history>>
  BY DEF Logout, RotateSession, RotationFails
<1> QED BY <1>1, <1>2, IdleFits, Goes, StatesSame, LocksSame, TokensSame DEF CInv, pgVars

LEMMA CheckResetSubjectQuiet ==
  ASSUME CInv, NEW h \in Handler, CheckResetSubject(h)
  PROVE  Quiet
<1>1. PICK r : r = req[h]
  OBVIOUS
<1>2. r.at = "checking" /\ r \in Resetting /\ ReqFits(r)
  BY <1>1, ReqType, Shapes DEF CheckResetSubject
<1>3. PICK q : q = [r EXCEPT !.at = "changing"]
  OBVIOUS
<1>4. q \in ReqState /\ ReqFits(q)
  BY <1>2, <1>3 DEF ReqState, Resetting, ReqFits
<1>5. Goto(h, q) \/ Goto(h, Idle)
  BY <1>1, <1>3 DEF CheckResetSubject
<1> QED BY <1>4, <1>5, IdleFits, GoesAlone DEF CheckResetSubject

LEMMA BeginLinkQuiet ==
  ASSUME CInv, NEW h \in Handler, NEW p \in Password, BeginLink(h, p)
  PROVE  Quiet
<1>1. PICK r : r = req[h]
  OBVIOUS
<1>2. r.at = "authorized" /\ r \in Entering /\ ReqFits(r)
  BY <1>1, ReqType, Shapes DEF BeginLink
<1>3. PICK a : a = r.read.account
  OBVIOUS
<1>4. a \in Account /\ account[a] # None /\ account[a].pass = p /\ r.sid \in Nat
      /\ account[a].version \in Nat
  BY <1>1, <1>2, <1>3, VersionType DEF Entering, Session, ReqFits, BeginLink, CInv
<1>5. PICK g : g = [purpose |-> "link", sid |-> r.sid, account |-> a,
                    version |-> account[a].version, proof |-> p]
  OBVIOUS
<1>6. g \in GoogleState /\ LinkFits(g)
  BY <1>4, <1>5 DEF GoogleState, LinkFits
<1>7. PICK q : q = [at |-> "saving", google |-> g]
  OBVIOUS
<1>8. q \in ReqState /\ ReqFits(q)
  BY <1>6, <1>7 DEF ReqState, Leaving, ReqFits
<1>9. Goto(h, q)
  BY <1>1, <1>3, <1>5, <1>7 DEF BeginLink
<1> QED BY <1>8, <1>9, GoesAlone DEF BeginLink

LEMMA SaveGoogleStateQuiet ==
  ASSUME CInv, NEW h \in Handler, NEW x \in DOMAIN state, SaveGoogleState(h, x)
  PROVE  Quiet
<1>1. PICK r : r = req[h]
  OBVIOUS
<1>2. r.google \in GoogleState /\ LinkFits(r.google)
  BY <1>1, ReqType, Shapes DEF SaveGoogleState, Leaving, ReqFits
<1>3. state' = [state EXCEPT ![x] = r.google] /\ x \in 1 .. MaxStates
  BY <1>1 DEF SaveGoogleState, CInv, TypeOK
<1>4. StatesStay
  BY <1>2, <1>3 DEF CInv, TypeOK, StatesStay
<1> QED BY <1>4, IdleFits, Goes, NoneEnd, LocksSame, TokensSame
        DEF CInv, SaveGoogleState, pgVars

LEMMA VerifyQuiet ==
  ASSUME CInv, NEW h \in Handler, NEW subject \in Subject, Verify(h, subject)
  PROVE  Quiet
<1>1. PICK g : g = req[h].google
  OBVIOUS
<1>2. g \in GoogleState /\ LinkFits(g)
  BY <1>1, ReqType, Shapes DEF Verify, Leaving, ReqFits
<1>3. PICK q : q = [at |-> "claimed", google |-> g, subject |-> subject]
  OBVIOUS
<1>4. q \in ReqState /\ ReqFits(q)
  BY <1>2, <1>3 DEF ReqState, Claiming, ReqFits
<1>5. Goto(h, q) \/ Goto(h, Idle)
  BY <1>1, <1>3 DEF Verify
<1> QED BY <1>4, <1>5, IdleFits, GoesAlone DEF Verify

LEMMA LockGoogleSubjectQuiet ==
  ASSUME CInv, NEW h \in Handler, LockGoogleSubject(h)
  PROVE  Quiet
<1>1. PICK r : r = req[h]
  OBVIOUS
<1>2. r.at = "claimed" /\ r \in Claiming /\ ReqFits(r)
  BY <1>1, ReqType, Shapes DEF LockGoogleSubject
<1>3. PICK q : q = [r EXCEPT !.at = "locked"]
  OBVIOUS
<1>4. q \in ReqState /\ ReqFits(q)
  BY <1>2, <1>3 DEF ReqState, Claiming, ReqFits
<1>5. LocksTyped
  BY DEF LockGoogleSubject, CInv, TypeOK, LocksTyped
<1>6. Goto(h, q)
  BY <1>1, <1>3 DEF LockGoogleSubject
<1> QED BY <1>4, <1>5, <1>6, Goes, NoneEnd, StatesSame, TokensSame
        DEF CInv, LockGoogleSubject, redisVars

LEMMA GoogleAccountIDQuiet ==
  ASSUME CInv, NEW h \in Handler, GoogleAccountID(h)
  PROVE  Quiet
<1>1. PICK r : r = req[h]
  OBVIOUS
<1>2. r.at = "locked" /\ r \in Claiming
  BY <1>1, ReqType, Shapes DEF GoogleAccountID
<1>3. LocksTyped
  BY ReleasedLocks DEF GoogleAccountID, CInv, TypeOK, LocksTyped
<1>4. \E q \in ReqState : ReqFits(q) /\ Goto(h, q)
  <2>1. CASE {i \in identity : i.subject = r.subject} = {}
    <3>1. PICK q : q = [r EXCEPT !.at = "absent"]
      OBVIOUS
    <3>2. q \in ReqState /\ ReqFits(q)
      BY <1>2, <3>1 DEF ReqState, Claiming, ReqFits
    <3> QED BY <1>1, <2>1, <3>1, <3>2 DEF GoogleAccountID
  <2>2. CASE {i \in identity : i.subject = r.subject} # {}
    <3>1. PICK i \in identity :
            /\ i.subject = r.subject
            /\ Goto(h, [at |-> "known", account |-> i.account, subject |-> r.subject,
                        old |-> r.google.sid])
      BY <1>1, <2>2 DEF GoogleAccountID
    <3>2. PICK q : q = [at |-> "known", account |-> i.account, subject |-> r.subject,
                        old |-> r.google.sid]
      OBVIOUS
    <3>3. i \in [account : Account, subject : Subject] /\ r.google.sid \in Nat
      BY <1>2 DEF CInv, TypeOK, Claiming, GoogleState
    <3>4. i = [account |-> i.account, subject |-> r.subject]
      BY <3>1, <3>3
    <3>5. q \in ReqState /\ ReqFits(q)
      BY <3>1, <3>2, <3>3, <3>4 DEF ReqState, Knowing, ReqFits
    <3> QED BY <3>1, <3>2, <3>5
  <2> QED BY <2>1, <2>2
<1> QED BY <1>3, <1>4, Goes, NoneEnd, StatesSame, TokensSame
        DEF CInv, GoogleAccountID, redisVars

LEMMA AccountByIDQuiet ==
  ASSUME CInv, NEW h \in Handler, AccountByID(h)
  PROVE  Quiet
<1>1. PICK r : r = req[h]
  OBVIOUS
<1>2. r.at = "known" /\ r \in Knowing /\ ReqFits(r)
  BY <1>1, ReqType, Shapes DEF AccountByID
<1>3. PICK a : a = r.account
  OBVIOUS
<1>4. [account |-> a, subject |-> r.subject] \in identity /\ a \in Account
  BY <1>2, <1>3 DEF ReqFits, Knowing
<1>5. account[a] # None /\ account[a].version \in Nat
  BY <1>4, VersionType DEF CInv, IdentitiesFit
<1>6. PICK q : q = [at |-> "opening", account |-> a, version |-> account[a].version,
                    by |-> r.subject, old |-> r.old]
  OBVIOUS
<1>7. q \in ReqState
  BY <1>2, <1>4, <1>5, <1>6 DEF ReqState, Opening, Knowing
<1>8. ReqFits(q)
  BY <1>4, <1>5, <1>6 DEF ReqFits, WasOpen, Matches
<1>9. Goto(h, q)
  BY <1>1, <1>3, <1>6 DEF AccountByID
<1> QED BY <1>7, <1>8, <1>9, GoesAlone DEF AccountByID

LEMMA LockAccountAuthVersionQuiet ==
  ASSUME CInv, NEW h \in Handler, LockAccountAuthVersion(h)
  PROVE  Quiet
<1>1. PICK r : r = req[h]
  OBVIOUS
<1>2. r.at = "locked" /\ r \in Claiming /\ ReqFits(r) /\ r.google.purpose = "link"
  BY <1>1, ReqType, Shapes DEF LockAccountAuthVersion
<1>3. PICK q : q = [r EXCEPT !.at = "linking"]
  OBVIOUS
<1>4. q \in ReqState /\ ReqFits(q)
  BY <1>2, <1>3 DEF ReqState, Claiming, ReqFits
<1>5. LocksTyped
  BY ReleasedLocks DEF LockAccountAuthVersion, CInv, TypeOK, LocksTyped
<1>6. Goto(h, q) \/ Goto(h, Idle)
  BY <1>1, <1>3 DEF LockAccountAuthVersion
<1> QED BY <1>4, <1>5, <1>6, IdleFits, Goes, NoneEnd, StatesSame, TokensSame
        DEF CInv, LockAccountAuthVersion, redisVars

LEMMA failQuiet ==
  ASSUME CInv, NEW h \in Handler, fail(h)
  PROVE  Quiet
<1>1. LocksTyped
  BY ReleasedLocks DEF fail, LocksTyped
<1> QED BY <1>1, IdleFits, Goes, NoneEnd, StatesSame, TokensSame DEF CInv, fail, redisVars

\* Time
LEMMA TimeQuiet ==
  ASSUME CInv,
         \/ \E x \in DOMAIN state : BurnGoogleState(x)
         \/ \E s \in Issued : ExpireSession(s)
         \/ \E t \in token : ExpireToken(t)
  PROVE  Quiet
<1>1. ASSUME NEW x \in DOMAIN state, BurnGoogleState(x) PROVE Quiet
  <2>1. StatesStay
    BY <1>1 DEF BurnGoogleState, CInv, TypeOK, StatesStay
  <2> QED BY <1>1, <2>1, NoneEnd, LocksSame, TokensSame DEF BurnGoogleState, CInv, Quiet, pgVars
<1>2. ASSUME NEW s \in Issued, ExpireSession(s) PROVE Quiet
  <2>1. SessionsEnd
    BY <1>2 DEF ExpireSession, CInv, TypeOK, SessionsEnd
  <2> QED BY <1>2, <2>1, StatesSame, LocksSame, TokensSame DEF ExpireSession, CInv, Quiet, pgVars
<1>3. ASSUME NEW t \in token, ExpireToken(t) PROVE Quiet
  <2>1. Len(mails) \in Nat
    BY DEF CInv, TypeOK
  <2>2. TokensGo
    BY <1>3, <2>1 DEF ExpireToken, CInv, TypeOK, TokensGo
  <2> QED BY <1>3, <2>2, NoneEnd, StatesSame, LocksSame DEF ExpireToken, CInv, Quiet, pgVars
<1> QED BY <1>1, <1>2, <1>3

\* Work that says or stores nothing that lasts
QuietWork(h) ==
  \/ refreshSession(h) \/ ResolveSession(h) \/ Serve(h) \/ Logout(h) \/ CheckResetSubject(h)
  \/ \E p \in Password : BeginLink(h, p)
  \/ \E x \in DOMAIN state : SaveGoogleState(h, x)
  \/ \E subject \in Subject : Verify(h, subject)
  \/ LockGoogleSubject(h) \/ GoogleAccountID(h) \/ AccountByID(h) \/ Refuse(h)
  \/ RotateSession(h) \/ RotationFails(h) \/ LockAccountAuthVersion(h) \/ fail(h)

LEMMA WorkQuiet ==
  ASSUME CInv, NEW h \in Handler, QuietWork(h)
  PROVE  Quiet
BY refreshSessionQuiet, ResolveSessionQuiet, IdleQuiet, EndingQuiet, CheckResetSubjectQuiet,
   BeginLinkQuiet, SaveGoogleStateQuiet, VerifyQuiet, LockGoogleSubjectQuiet,
   GoogleAccountIDQuiet, AccountByIDQuiet, LockAccountAuthVersionQuiet, failQuiet DEF QuietWork

-----------------------------------------------------------------------------
(* Steps that change accounts, identities or the history *)

LEMMA LoudStep ==
  ASSUME CInv, TypeOK', Later, NEW h \in Handler, Moves(h), SessionsFit', StatesStay,
         \A t \in DOMAIN mails' : t \in DOMAIN mails \/ account'[mails'[t].account] # None,
         \A i \in identity' : i \in identity \/ account'[i.account] # None,
         ResetsFit'
  PROVE  CInv'
<1>1. ReqsFit' /\ StatesFit'
  BY ReqsStep, StatesStep DEF CInv
<1>2. MailsFit'
  <2> SUFFICES ASSUME NEW t \in DOMAIN mails' PROVE account'[mails'[t].account] # None
    BY DEF MailsFit
  <2>1. CASE t \in DOMAIN mails
    <3>1. mails'[t] = mails[t]
      BY <2>1 DEF Later
    <3>2. mails[t].account \in Account /\ account[mails[t].account] # None
      <4>1. mails[t] \in Mail
        BY <2>1 DEF CInv, TypeOK
      <4> QED BY <2>1, <4>1 DEF Mail, CInv, MailsFit
    <3> QED BY <3>1, <3>2 DEF Later, AccountsLater
  <2> QED BY <2>1
<1>3. IdentitiesFit'
  <2> SUFFICES ASSUME NEW i \in identity PROVE account'[i.account] # None
    BY DEF IdentitiesFit
  <2>1. i.account \in Account /\ account[i.account] # None
    BY DEF CInv, TypeOK, IdentitiesFit
  <2> QED BY <2>1 DEF Later, AccountsLater
<1> QED BY <1>1, <1>2, <1>3 DEF CInv

\* The resets of one account change at most.
LEMMA ResetsStep ==
  ASSUME CInv, TypeOK', Later, NEW a \in Account, ResetFits(a)',
         \A b \in Account \ {a} : account'[b] = account[b] /\ resets'[b] = resets[b]
  PROVE  ResetsFit'
<1> SUFFICES ASSUME NEW b \in Account, b # a PROVE ResetFits(b)'
  BY DEF ResetsFit
<1>1. account'[b] = account[b] /\ resets'[b] = resets[b] /\ ResetFits(b)
  BY DEF CInv, ResetsFit
<1>2. \A t \in DOMAIN mails : t \in DOMAIN mails' /\ mails'[t] = mails[t]
  BY DEF Later
<1> QED BY <1>1, <1>2 DEF ResetFits

LEMMA ResetsSame ==
  ASSUME CInv, Later, account' = account, resets' = resets
  PROVE  ResetsFit'
BY DEF CInv, ResetsFit, ResetFits, Later

\* A new account has nothing before it.
LEMMA NewAccount ==
  ASSUME CInv, NEW a \in Account, NEW row \in AccountRow, row.version = 1,
         account[a] = None, account' = [account EXCEPT ![a] = row],
         identity \subseteq identity', UNCHANGED history, TypeOK'
  PROVE  Later /\ account'[a] = row /\ account'[a] # None /\ ResetsFit'
<1>1. account'[a] = row /\ \A b \in Account \ {a} : account'[b] = account[b]
  BY DEF CInv, TypeOK
<1>2. account'[a] # None
  BY <1>1, NoneAssumption
<1>3. \A b \in Account : account[b] # None => account[b].version <= account[b].version
  BY DEF CInv, TypeOK, AccountRow
<1>4. Later
  BY <1>1, <1>2, <1>3 DEF Later, AccountsLater, history
<1>5. resets'[a] = <<>> /\ Len(<<>>) = 0 /\ DOMAIN <<>> = {}
  BY DEF CInv, ResetsFit, ResetFits, history
<1>6. ResetFits(a)'
  BY <1>1, <1>2, <1>5 DEF ResetFits
<1>7. ResetsFit'
  BY <1>1, <1>4, <1>6, ResetsStep DEF history
<1> QED BY <1>1, <1>2, <1>4, <1>7

LEMMA CreateAccountStep ==
  ASSUME CInv, NEW h \in Handler, NEW a \in Account, CreateAccount(h, a)
  PROVE  CInv' /\ Later
<1>1. PICK c : c = req[h]
  OBVIOUS
<1>2. c \in Creating
  BY <1>1, ReqType, Shapes DEF CreateAccount
<1>3. CASE AccountByEmail(c.email) # {}
  <2>1. Goto(h, Idle) /\ UNCHANGED <<pgVars, redisVars, history>>
    BY <1>1, <1>3 DEF CreateAccount, pgVars
  <2> QED BY <2>1, IdleFits, GoesAlone, QuietStep
<1>4. CASE AccountByEmail(c.email) = {}
  <2>1. PICK row : row = [email |-> c.email, pass |-> c.pass, version |-> 1, verified |-> FALSE]
    OBVIOUS
  <2>2. PICK o : o = [at |-> "opening", account |-> a, version |-> 1, by |-> c.pass, old |-> 0]
    OBVIOUS
  <2>3. PICK r : r = [at |-> "issuing", kind |-> "verification", account |-> a, version |-> 0,
                      then |-> o]
    OBVIOUS
  <2>4. /\ account[a] = None /\ account' = [account EXCEPT ![a] = row]
        /\ req' = [req EXCEPT ![h] = r]
        /\ UNCHANGED <<identity, subjectLock, rowLock, redisVars, history>>
    BY <1>1, <1>4, <2>1, <2>2, <2>3 DEF CreateAccount, Goto
  <2>5. row \in AccountRow /\ row.version = 1 /\ row.pass = c.pass
    BY <1>2, <2>1 DEF AccountRow, Creating
  <2>6. r \in ReqState
    BY <1>2, <2>2, <2>3 DEF ReqState, Issuing, Opening, Kind, Creating
  <2>7. TypeOK'
    BY <2>4, <2>5, <2>6 DEF CInv, TypeOK, redisVars, history
  <2>8. Later /\ account'[a] = row /\ account'[a] # None /\ ResetsFit'
    BY <2>4, <2>5, <2>7, NewAccount
  <2>9. ReqFits(r)'
    <3>1. WasOpen(a, 1, c.pass)'
      BY <2>5, <2>8 DEF WasOpen, Matches
    <3> QED BY <2>2, <2>3, <2>8, <3>1 DEF ReqFits
  <2>10. Moves(h)
    BY <2>4, <2>6, <2>9 DEF Moves
  <2>11. SessionsEnd /\ StatesStay
    BY <2>4, NoneEnd, StatesSame DEF CInv, redisVars
  <2>12. SessionsFit'
    BY <2>4, <2>7, <2>8, <2>11, SessionsStep DEF CInv, history
  <2> QED BY <2>4, <2>7, <2>8, <2>10, <2>11, <2>12, LoudStep DEF history
<1> QED BY <1>3, <1>4

LEMMA CreateGoogleAccountStep ==
  ASSUME CInv, NEW h \in Handler, NEW a \in Account, NEW trusted \in BOOLEAN,
         CreateGoogleAccount(h, a, trusted)
  PROVE  CInv' /\ Later
<1>1. PICK c : c = req[h]
  OBVIOUS
<1>2. c \in Claiming /\ c.subject \in Subject /\ c.google.sid \in Nat
  BY <1>1, ReqType, Shapes DEF CreateGoogleAccount, Claiming, GoogleState
<1>3. LocksTyped
  BY ReleasedLocks DEF CreateGoogleAccount, CInv, TypeOK, LocksTyped
<1>4. CASE AccountByEmail(EmailOf[c.subject]) # {}
  <2>1. PICK r : r = [at |-> "refused", subject |-> c.subject]
    OBVIOUS
  <2>2. r \in ReqState /\ ReqFits(r)
    BY <1>2, <2>1 DEF ReqState, Refused, ReqFits
  <2>3. Goto(h, r) /\ UNCHANGED <<account, identity, redisVars, history>>
    BY <1>1, <1>4, <2>1 DEF CreateGoogleAccount
  <2> QED BY <1>3, <2>2, <2>3, Goes, NoneEnd, StatesSame, TokensSame, QuietStep
          DEF CInv, redisVars
<1>5. CASE AccountByEmail(EmailOf[c.subject]) = {}
  <2>1. PICK row : row = [email |-> EmailOf[c.subject], pass |-> None, version |-> 1,
                          verified |-> trusted]
    OBVIOUS
  <2>2. PICK i : i = [account |-> a, subject |-> c.subject]
    OBVIOUS
  <2>3. PICK r : r = [at |-> "opening", account |-> a, version |-> 1, by |-> c.subject,
                      old |-> c.google.sid]
    OBVIOUS
  <2>4. /\ account[a] = None /\ account' = [account EXCEPT ![a] = row]
        /\ identity' = identity \union {i} /\ req' = [req EXCEPT ![h] = r]
        /\ UNCHANGED <<redisVars, history>>
    BY <1>1, <1>5, <2>1, <2>2, <2>3 DEF CreateGoogleAccount, Goto
  <2>5. row \in AccountRow /\ row.version = 1
    BY <1>2, <2>1, EmailOfAssumption DEF AccountRow
  <2>6. r \in ReqState
    BY <1>2, <2>3 DEF ReqState, Opening
  <2>7. TypeOK'
    <3>1. i \in [account : Account, subject : Subject]
      BY <1>2, <2>2
    <3> QED BY <1>3, <2>4, <2>5, <2>6, <3>1 DEF CInv, TypeOK, redisVars, history, LocksTyped
  <2>8. Later /\ account'[a] = row /\ account'[a] # None /\ ResetsFit'
    BY <2>4, <2>5, <2>7, NewAccount
  <2>9. ReqFits(r)'
    <3>1. WasOpen(a, 1, c.subject)'
      BY <2>2, <2>4, <2>5, <2>8 DEF WasOpen, Matches
    <3> QED BY <2>3, <3>1 DEF ReqFits
  <2>10. Moves(h)
    BY <2>4, <2>6, <2>9 DEF Moves
  <2>11. SessionsEnd /\ StatesStay
    BY <2>4, NoneEnd, StatesSame DEF CInv, redisVars
  <2>12. SessionsFit'
    BY <2>4, <2>7, <2>8, <2>11, SessionsStep DEF CInv, history
  <2>13. \A j \in identity' : j \in identity \/ account'[j.account] # None
    BY <2>2, <2>4, <2>8
  <2> QED BY <2>4, <2>7, <2>8, <2>10, <2>11, <2>12, <2>13, LoudStep DEF history
<1> QED BY <1>4, <1>5

LEMMA createSessionStep ==
  ASSUME CInv, NEW h \in Handler, createSession(h)
  PROVE  CInv' /\ Later
<1>1. PICK c : c = req[h]
  OBVIOUS
<1>2. c \in Opening /\ c.at = "opening" /\ WasOpen(c.account, c.version, c.by)
  BY <1>1, ReqType, Shapes DEF createSession, ReqFits
<1>3. PICK n : n = Len(opened)
  OBVIOUS
<1>4. n \in Nat /\ n + 1 <= MaxSessions /\ n + 1 \in Sid /\ Issued = 1 .. n
  BY <1>3, IssuedType, BoundAssumption DEF CInv, createSession, Sid, Issued
<1>5. PICK s : s = [account |-> c.account, version |-> c.version]
  OBVIOUS
<1>6. /\ session' = [session EXCEPT ![n + 1] = s]
      /\ opened' = Append(opened, c.by)
      /\ UNCHANGED <<pgVars, token, tokenIndex, state, mails, resets>>
  BY <1>1, <1>3, <1>5 DEF createSession
<1>7. PICK r : r = IF c.old = 0 THEN Idle
                   ELSE [at |-> "rotating", old |-> c.old, new |-> n + 1]
  OBVIOUS
<1>8. r \in ReqState /\ ReqFits(r)'
  <2>1. CASE c.old = 0
    BY <1>7, <2>1, IdleFits
  <2>2. CASE c.old # 0
    BY <1>2, <1>4, <1>7, <2>2 DEF ReqState, Rotating, Opening, ReqFits
  <2> QED BY <2>1, <2>2
<1>9. req' = [req EXCEPT ![h] = r]
  BY <1>1, <1>3, <1>7 DEF createSession, Goto
<1>10. opened \in Seq(Password \union Subject) /\ c.by \in Password \union Subject
  BY <1>2 DEF CInv, TypeOK, Opening
<1>11. /\ opened' \in Seq(Password \union Subject) /\ Len(opened') = n + 1
       /\ opened'[n + 1] = c.by /\ \A k \in 1 .. n : opened'[k] = opened[k]
  BY <1>3, <1>6, <1>10
<1>12. TypeOK'
  <2>1. s \in Session
    BY <1>2, <1>5 DEF Opening, Session
  <2>2. session' \in [Sid -> Session \union {None}] /\ req' \in [Handler -> ReqState]
    BY <1>6, <1>8, <1>9, <2>1 DEF CInv, TypeOK
  <2> QED BY <1>4, <1>6, <1>11, <2>2 DEF CInv, TypeOK, pgVars
<1>13. account' = account /\ identity' = identity /\ mails' = mails /\ resets' = resets
       /\ state' = state
  BY <1>6 DEF pgVars
<1>14. Later
  <2>1. \A a \in Account : account[a] # None => account[a].version <= account[a].version
    BY DEF CInv, TypeOK, AccountRow
  <2> QED BY <1>13, <2>1 DEF Later, AccountsLater
<1>15. Moves(h)
  BY <1>8, <1>9 DEF Moves
<1>16. SessionsFit'
  <2> SUFFICES ASSUME NEW x \in Sid, session'[x] # None
               PROVE  /\ x \in Issued'
                      /\ \A a, v, b : a = session'[x].account /\ v = session'[x].version
                                       /\ b = opened'[x] => WasOpen(a, v, b)'
    BY DEF SessionsFit, SessionFits
  <2>1. Issued' = 1 .. n + 1
    BY <1>11 DEF Issued
  <2>2. CASE x = n + 1
    <3>1. session'[x] = s /\ opened'[x] = c.by
      BY <1>4, <1>6, <1>11, <2>2 DEF CInv, TypeOK
    <3>2. \A a, v, b : WasOpen(a, v, b) => WasOpen(a, v, b)'
      BY <1>13 DEF WasOpen, Matches
    <3> QED BY <1>2, <1>4, <1>5, <2>1, <2>2, <3>1, <3>2
  <2>3. CASE x # n + 1
    <3>1. session'[x] = session[x]
      BY <1>6, <2>3 DEF CInv, TypeOK
    <3>2. x \in 1 .. n /\ WasOpen(session[x].account, session[x].version, opened[x])
      BY <1>4, <3>1 DEF CInv, SessionsFit, SessionFits
    <3>3. opened'[x] = opened[x] /\ x \in 1 .. n + 1
      BY <1>4, <1>11, <3>2
    <3>4. \A a, v, b : WasOpen(a, v, b) => WasOpen(a, v, b)'
      BY <1>13 DEF WasOpen, Matches
    <3> QED BY <2>1, <3>1, <3>2, <3>3, <3>4
  <2> QED BY <2>2, <2>3
<1>17. StatesStay /\ ResetsFit'
  BY <1>13, <1>14, StatesSame, ResetsSame DEF CInv
<1> QED BY <1>12, <1>13, <1>14, <1>15, <1>16, <1>17, LoudStep

LEMMA CreateTokenStep ==
  ASSUME CInv, NEW h \in Handler, CreateToken(h)
  PROVE  CInv' /\ Later
<1>1. PICK c : c = req[h]
  OBVIOUS
<1>2. /\ c \in Issuing /\ c.at = "issuing" /\ account[c.account] # None
      /\ c.then.at = "opening" => WasOpen(c.then.account, c.then.version, c.then.by)
  BY <1>1, ReqType, Shapes DEF CreateToken, ReqFits
<1>3. PICK n : n = Len(mails)
  OBVIOUS
<1>4. PICK m : m = [kind |-> c.kind, account |-> c.account, version |-> c.version]
  OBVIOUS
<1>5. /\ token' = (token \ {tokenIndex[c.kind][c.account]}) \union {n + 1}
      /\ tokenIndex' = [tokenIndex EXCEPT ![c.kind][c.account] = n + 1]
      /\ mails' = Append(mails, m) /\ req' = [req EXCEPT ![h] = c.then]
      /\ UNCHANGED <<pgVars, session, state, opened, resets>>
  BY <1>1, <1>3, <1>4 DEF CreateToken, Goto
<1>6. mails \in Seq(Mail) /\ m \in Mail /\ n \in Nat /\ DOMAIN mails = 1 .. n
  BY <1>2, <1>3, <1>4 DEF CInv, TypeOK, Issuing, Mail
<1>7. /\ mails' \in Seq(Mail) /\ Len(mails') = n + 1 /\ DOMAIN mails' = 1 .. n + 1
      /\ mails'[n + 1] = m /\ \A t \in 1 .. n : mails'[t] = mails[t]
  BY <1>3, <1>5, <1>6
<1>8. account' = account /\ identity' = identity /\ resets' = resets /\ state' = state
      /\ session' = session /\ opened' = opened /\ subjectLock' = subjectLock
      /\ rowLock' = rowLock
  BY <1>5 DEF pgVars
<1>9. Later
  <2>1. \A a \in Account : account[a] # None => account[a].version <= account[a].version
    BY DEF CInv, TypeOK, AccountRow
  <2> QED BY <1>6, <1>7, <1>8, <2>1 DEF Later, AccountsLater
<1>10. c.then \in ReqState /\ ReqFits(c.then)'
  <2>1. CASE c.then = Idle
    BY <2>1, IdleFits
  <2>2. CASE c.then \in Opening
    <3>1. PICK o : o = c.then
      OBVIOUS
    <3>2. o.at = "opening" /\ o \in ReqState
      BY <2>2, <3>1 DEF Opening, ReqState
    <3>3. WasOpen(o.account, o.version, o.by)'
      BY <1>2, <1>8, <3>1, <3>2 DEF WasOpen, Matches
    <3>4. ReqFits(o)'
      BY <3>2, <3>3 DEF ReqFits
    <3> QED BY <3>1, <3>2, <3>4
  <2> QED BY <1>2, <2>1, <2>2 DEF Issuing
<1>11. Moves(h)
  BY <1>5, <1>10 DEF Moves
<1>12. TypeOK'
  <2>1. token' \subseteq DOMAIN mails'
    BY <1>5, <1>6, <1>7 DEF CInv, TypeOK
  <2>2. tokenIndex' \in [Kind -> [Account -> 0 .. n + 1]]
    <3>1. \A k \in Kind, a \in Account : tokenIndex[k][a] \in 0 .. n + 1
      BY <1>3, <1>6 DEF CInv, TypeOK
    <3>2. tokenIndex \in [Kind -> [Account -> 0 .. n + 1]]
      BY <3>1 DEF CInv, TypeOK
    <3>3. n + 1 \in 0 .. n + 1
      BY <1>6
    <3> QED BY <1>5, <3>2, <3>3
  <2>3. req' \in [Handler -> ReqState]
    BY <1>5, <1>10 DEF CInv, TypeOK
  <2> QED BY <1>7, <1>8, <2>1, <2>2, <2>3 DEF CInv, TypeOK
<1>13. SessionsEnd /\ StatesStay /\ ResetsFit'
  BY <1>8, <1>9, NoneEnd, StatesSame, ResetsSame DEF CInv
<1>14. SessionsFit'
  BY <1>8, <1>9, <1>12, <1>13, SessionsStep DEF CInv
<1>15. \A t \in DOMAIN mails' : t \in DOMAIN mails \/ account'[mails'[t].account] # None
  BY <1>2, <1>4, <1>6, <1>7, <1>8
<1> QED BY <1>8, <1>9, <1>11, <1>12, <1>13, <1>14, <1>15, LoudStep

LEMMA SetEmailVerifiedStep ==
  ASSUME CInv, NEW h \in Handler, SetEmailVerified(h)
  PROVE  CInv' /\ Later
<1>1. PICK a : a = req[h].account
  OBVIOUS
<1>2. a \in Account /\ account[a] # None /\ account[a] \in AccountRow
  BY <1>1, ReqType, Shapes, VersionType DEF SetEmailVerified, Verifying, ReqFits, CInv
<1>3. /\ account' = [account EXCEPT ![a].verified = TRUE]
      /\ req' = [req EXCEPT ![h] = Idle]
      /\ UNCHANGED <<identity, subjectLock, rowLock, redisVars, history>>
  BY <1>1 DEF SetEmailVerified, Goto
<1>4. /\ account'[a] \in AccountRow /\ account'[a].version = account[a].version
      /\ account'[a].pass = account[a].pass
      /\ \A b \in Account \ {a} : account'[b] = account[b]
  BY <1>2, <1>3 DEF CInv, TypeOK, AccountRow
<1>5. account' \in [Account -> AccountRow \union {None}] /\ account'[a] # None
  BY <1>2, <1>3, <1>4, NoneAssumption DEF CInv, TypeOK
<1>6. TypeOK'
  BY <1>3, <1>5, IdleFits DEF CInv, TypeOK, redisVars, history
<1>7. Later
  <2>1. \A b \in Account : account[b] # None => account[b].version <= account[b].version
    BY DEF CInv, TypeOK, AccountRow
  <2> QED BY <1>3, <1>4, <1>5, <2>1 DEF Later, AccountsLater, history
<1>8. Moves(h)
  BY <1>3, IdleFits DEF Moves
<1>9. SessionsEnd /\ StatesStay
  BY <1>3, NoneEnd, StatesSame DEF CInv, redisVars
<1>10. SessionsFit'
  BY <1>3, <1>6, <1>7, <1>9, SessionsStep DEF CInv, history
<1>11. ResetFits(a)'
  BY <1>2, <1>3, <1>4, <1>5 DEF CInv, ResetsFit, ResetFits, history
<1>12. ResetsFit'
  BY <1>2, <1>3, <1>4, <1>6, <1>7, <1>11, ResetsStep DEF history
<1> QED BY <1>3, <1>6, <1>7, <1>8, <1>9, <1>10, <1>12, LoudStep DEF history

LEMMA LinkGoogleStep ==
  ASSUME CInv, NEW h \in Handler, LinkGoogle(h)
  PROVE  CInv' /\ Later
<1>1. PICK c : c = req[h]
  OBVIOUS
<1>2. /\ c \in Claiming /\ c.subject \in Subject /\ c.google.account \in Account
      /\ account[c.google.account] # None
  BY <1>1, ReqType, Shapes DEF LinkGoogle, Claiming, ReqFits, LinkFits
<1>3. PICK new : new = [account |-> c.google.account, subject |-> c.subject]
  OBVIOUS
<1>4. /\ identity' \in {identity, identity \union {new}}
      /\ req' = [req EXCEPT ![h] = Idle]
      /\ subjectLock' = Released(subjectLock, h) /\ rowLock' = Released(rowLock, h)
      /\ UNCHANGED <<account, redisVars, history>>
  BY <1>1, <1>3 DEF LinkGoogle, Goto
<1>5. TypeOK'
  <2>1. new \in [account : Account, subject : Subject]
    BY <1>2, <1>3
  <2> QED BY <1>4, <2>1, IdleFits, ReleasedLocks DEF CInv, TypeOK, redisVars, history
<1>6. Later
  <2>1. \A b \in Account : account[b] # None => account[b].version <= account[b].version
    BY DEF CInv, TypeOK, AccountRow
  <2> QED BY <1>4, <2>1 DEF Later, AccountsLater, history
<1>7. Moves(h)
  BY <1>4, IdleFits DEF Moves
<1>8. SessionsEnd /\ StatesStay /\ ResetsFit'
  BY <1>4, <1>6, NoneEnd, StatesSame, ResetsSame DEF CInv, redisVars, history
<1>9. SessionsFit'
  BY <1>4, <1>5, <1>6, <1>8, SessionsStep DEF CInv, history
<1>10. \A i \in identity' : i \in identity \/ account'[i.account] # None
  BY <1>2, <1>3, <1>4
<1> QED BY <1>4, <1>5, <1>6, <1>7, <1>8, <1>9, <1>10, LoudStep DEF history

LEMMA SetPasswordStep ==
  ASSUME CInv, NEW h \in Handler, SetPassword(h)
  PROVE  CInv' /\ Later
<1>1. PICK r : r = req[h]
  OBVIOUS
<1>2. PICK a : a = r.account
  OBVIOUS
<1>3. /\ r \in Resetting /\ a \in Account /\ account[a] # None /\ account[a] \in AccountRow
      /\ r.token \in DOMAIN mails /\ r.pass \in Password
      /\ mails[r.token] = [kind |-> "reset", account |-> a, version |-> r.version]
  BY <1>1, <1>2, ReqType, Shapes, VersionType DEF SetPassword, Resetting, ReqFits, CInv
<1>4. CASE ~(account[a].version = r.version /\ account[a].pass # None)
  <2>1. Goto(h, Idle) /\ UNCHANGED <<pgVars, redisVars, history>>
    BY <1>1, <1>2, <1>4 DEF SetPassword, pgVars, history
  <2> QED BY <2>1, IdleFits, GoesAlone, QuietStep
<1>5. CASE account[a].version = r.version /\ account[a].pass # None
  <2>1. /\ account' = [account EXCEPT ![a].pass = r.pass, ![a].version = @ + 1]
        /\ resets' = [resets EXCEPT ![a] = Append(@, r.token)]
        /\ req' = [req EXCEPT ![h] = Idle]
        /\ UNCHANGED <<identity, subjectLock, rowLock, redisVars, opened, mails>>
    BY <1>1, <1>2, <1>5 DEF SetPassword, Goto
  <2>2. account[a].version \in Nat \ {0} /\ r.token \in Nat
    BY <1>3 DEF AccountRow, CInv, TypeOK
  <2>3. /\ account'[a] \in AccountRow /\ account'[a].version = account[a].version + 1
        /\ \A b \in Account \ {a} : account'[b] = account[b]
    <3>1. PICK row : row = account[a]
      OBVIOUS
    <3>2. PICK mid : mid = [row EXCEPT !.pass = r.pass]
      OBVIOUS
    <3>3. PICK new : new = [mid EXCEPT !.version = row.version + 1]
      OBVIOUS
    <3>4. mid \in AccountRow /\ mid.version = row.version /\ row.version + 1 \in Nat \ {0}
      BY <1>3, <2>2, <3>1, <3>2 DEF AccountRow
    <3>5. new \in AccountRow /\ new.version = row.version + 1
      BY <3>3, <3>4 DEF AccountRow
    <3>6. account'[a] = new /\ \A b \in Account \ {a} : account'[b] = account[b]
      BY <1>3, <2>1, <3>1, <3>2, <3>3 DEF CInv, TypeOK, AccountRow
    <3> QED BY <3>1, <3>5, <3>6
  <2>4. account' \in [Account -> AccountRow \union {None}] /\ account'[a] # None
    BY <1>3, <2>1, <2>3, NoneAssumption DEF CInv, TypeOK
  <2>5. PICK old : old = resets[a]
    OBVIOUS
  <2>6. old \in Seq(Nat) /\ resets'[a] = Append(old, r.token)
    BY <1>3, <2>1, <2>5 DEF CInv, TypeOK
  <2>7. resets' \in [Account -> Seq(Nat)]
    BY <1>3, <2>1, <2>2, <2>5, <2>6 DEF CInv, TypeOK
  <2>8. TypeOK'
    BY <2>1, <2>4, <2>7, IdleFits DEF CInv, TypeOK, redisVars
  <2>9. Later
    <3>1. \A b \in Account : account[b] # None => account[b].version <= account[b].version
      BY DEF CInv, TypeOK, AccountRow
    <3>2. account[a].version <= account'[a].version /\ account[a].version # account'[a].version
      BY <2>2, <2>3
    <3> QED BY <2>1, <2>3, <2>4, <3>1, <3>2 DEF Later, AccountsLater
  <2>10. ResetFits(a)'
    <3>1. PICK n : n = Len(old)
      OBVIOUS
    <3>2. /\ n \in Nat /\ account[a].version = n + 1 /\ DOMAIN old = 1 .. n
          /\ \A k \in 1 .. n : /\ old[k] \in DOMAIN mails
                               /\ mails[old[k]] = [kind |-> "reset", account |-> a, version |-> k]
      BY <1>3, <2>5, <2>6, <3>1 DEF CInv, ResetsFit, ResetFits
    <3>3. PICK new : new = resets'[a]
      OBVIOUS
    <3>4. /\ Len(new) = n + 1 /\ DOMAIN new = 1 .. n + 1 /\ new[n + 1] = r.token
          /\ \A k \in 1 .. n : new[k] = old[k]
      BY <2>2, <2>6, <3>1, <3>3
    <3>5. \A k \in 1 .. n + 1 :
             /\ new[k] \in DOMAIN mails
             /\ mails[new[k]] = [kind |-> "reset", account |-> a, version |-> k]
      BY <1>3, <1>5, <3>2, <3>4
    <3>6. account'[a].version = Len(new) + 1 /\ mails' = mails
      BY <2>1, <2>3, <3>2, <3>4
    <3> QED BY <2>4, <3>3, <3>4, <3>5, <3>6 DEF ResetFits
  <2>11. ResetsFit'
    BY <1>3, <2>1, <2>3, <2>8, <2>9, <2>10, ResetsStep DEF CInv, TypeOK
  <2>12. Moves(h)
    BY <2>1, IdleFits DEF Moves
  <2>13. SessionsEnd /\ StatesStay
    BY <2>1, NoneEnd, StatesSame DEF CInv, redisVars
  <2>14. SessionsFit'
    BY <2>1, <2>8, <2>9, <2>13, SessionsStep DEF CInv
  <2> QED BY <2>1, <2>8, <2>9, <2>11, <2>12, <2>13, <2>14, LoudStep
<1> QED BY <1>4, <1>5

-----------------------------------------------------------------------------
(* The invariant *)

LEMMA InitCInv == Init => CInv
<1> SUFFICES ASSUME Init PROVE CInv
  OBVIOUS
<1>1. Len(<<>>) = 0 /\ DOMAIN <<>> = {} /\ \A S : <<>> \in Seq(S)
  OBVIOUS
<1>2. TypeOK
  BY <1>1, IdleFits, BoundAssumption DEF Init, TypeOK
<1>3. ReqsFit
  BY IdleFits DEF Init, ReqsFit
<1>4. SessionsFit /\ StatesFit /\ MailsFit /\ IdentitiesFit
  BY <1>1 DEF Init, SessionsFit, SessionFits, StatesFit, MailsFit, IdentitiesFit
<1>5. ResetsFit
  BY DEF Init, ResetsFit, ResetFits
<1> QED BY <1>2, <1>3, <1>4, <1>5 DEF CInv

LEMMA StepCInv ==
  ASSUME CInv, [Next]_vars
  PROVE  CInv' /\ Later
<1>1. CASE UNCHANGED vars
  <2>1. UNCHANGED <<account, identity, history, req>>
        /\ UNCHANGED <<session, state, subjectLock, rowLock, token, tokenIndex>>
    BY <1>1 DEF vars, pgVars, redisVars
  <2>2. Quiet
    BY <2>1, NoneEnd, StatesSame, LocksSame, TokensSame DEF CInv, Quiet
  <2> QED BY <2>2, QuietStep
<1>2. ASSUME NEW h \in Handler, Request(h) PROVE CInv' /\ Later
  BY <1>2, RequestQuiet, QuietStep
<1>3. ASSUME NEW h \in Handler, Work(h) PROVE CInv' /\ Later
  <2>1. ASSUME NEW a \in Account, CreateAccount(h, a) PROVE CInv' /\ Later
    BY <2>1, CreateAccountStep
  <2>2. ASSUME NEW a \in Account, NEW trusted \in BOOLEAN, CreateGoogleAccount(h, a, trusted)
        PROVE  CInv' /\ Later
    BY <2>2, CreateGoogleAccountStep
  <2>3. CASE createSession(h) BY <2>3, createSessionStep
  <2>4. CASE CreateToken(h) BY <2>4, CreateTokenStep
  <2>5. CASE SetEmailVerified(h) BY <2>5, SetEmailVerifiedStep
  <2>6. CASE SetPassword(h) BY <2>6, SetPasswordStep
  <2>7. CASE LinkGoogle(h) BY <2>7, LinkGoogleStep
  <2>8. CASE QuietWork(h) BY <2>8, WorkQuiet, QuietStep
  <2> QED BY <1>3, <2>1, <2>2, <2>3, <2>4, <2>5, <2>6, <2>7, <2>8 DEF Work, QuietWork
<1>4. CASE \/ \E x \in DOMAIN state : BurnGoogleState(x)
           \/ \E s \in Issued : ExpireSession(s)
           \/ \E t \in token : ExpireToken(t)
  BY <1>4, TimeQuiet, QuietStep
<1> QED BY <1>1, <1>2, <1>3, <1>4 DEF Next

THEOREM TypeCorrect == Spec => []TypeOK
<1>1. CInv => TypeOK
  BY DEF CInv
<1> QED BY <1>1, InitCInv, StepCInv, PTL DEF Spec

\* A session opens only with the credentials of the account as it is (createSession).
THEOREM CredentialsMatch == Spec => []SessionsMatchCredentials
<1>1. ASSUME CInv PROVE SessionsMatchCredentials
  <2> SUFFICES ASSUME NEW s \in Issued, session[s] # None,
                      session[s].version = account[session[s].account].version
               PROVE  \/ opened[s] = account[session[s].account].pass
                      \/ [account |-> session[s].account, subject |-> opened[s]] \in identity
    BY DEF SessionsMatchCredentials
  <2>1. WasOpen(session[s].account, session[s].version, opened[s])
    BY <1>1, IssuedType DEF CInv, SessionsFit, SessionFits
  <2> QED BY <2>1 DEF WasOpen, Matches
<1> QED BY <1>1, InitCInv, StepCInv, PTL DEF Spec

\* After a reset no request is let in on an older session, though session and account are
\* read one after the other (ResolveSession).
THEOREM ResetRevokes == Spec => []ResetRevokesSessions
<1>1. ASSUME CInv PROVE ResetRevokesSessions
  <2> SUFFICES ASSUME NEW h \in Handler, req[h].at = "authorized"
               PROVE  req[h].read.version >= req[h].since
    BY DEF ResetRevokesSessions
  <2>1. req[h] \in Entering /\ req[h].since <= req[h].read.version
    BY <1>1, ReqType, Shapes DEF ReqFits
  <2>2. req[h].since \in Nat /\ req[h].read.version \in Nat
    BY <2>1 DEF Entering, Session
  <2> QED BY <2>1, <2>2
<1> QED BY <1>1, InitCInv, StepCInv, PTL DEF Spec

\* Each change of a password has its own token, mailed for the password it replaced
\* (ResetPassword, SetPassword).
THEOREM ResetsAreAuthorized == Spec => []ResetsUseOwnToken
<1>1. CInv => ResetsUseOwnToken
  BY DEF CInv, ResetsFit, ResetFits, ResetsUseOwnToken, Accounts
<1> QED BY <1>1, InitCInv, StepCInv, PTL DEF Spec

-----------------------------------------------------------------------------
(* Sessions that are gone *)

LEMMA QuietEnds ==
  ASSUME CInv, Quiet, NEW s \in Issued, session[s] = None
  PROVE  session'[s] = None
BY IssuedType DEF CInv, Quiet, SessionsEnd

LEMMA StepEnds ==
  ASSUME CInv, [Next]_vars
  PROVE  \A s \in Issued : session[s] = None => session'[s] = None
<1> SUFFICES ASSUME NEW s \in Issued, session[s] = None PROVE session'[s] = None
  OBVIOUS
<1>1. CASE UNCHANGED vars
  BY <1>1 DEF vars, redisVars
<1>2. ASSUME NEW h \in Handler, Request(h) PROVE session'[s] = None
  BY <1>2, RequestQuiet, QuietEnds
<1>3. ASSUME NEW h \in Handler, Work(h) PROVE session'[s] = None
  <2>1. CASE createSession(h)
    <3>1. s # Len(opened) + 1
      BY IssuedType DEF CInv, Issued
    <3> QED BY <2>1, <3>1, IssuedType DEF createSession, CInv, TypeOK
  <2>2. CASE QuietWork(h)
    BY <2>2, WorkQuiet, QuietEnds
  <2>3. CASE \/ \E a \in Account : CreateAccount(h, a)
             \/ \E a \in Account : \E trusted \in BOOLEAN : CreateGoogleAccount(h, a, trusted)
             \/ CreateToken(h) \/ SetEmailVerified(h) \/ SetPassword(h) \/ LinkGoogle(h)
    BY <2>3 DEF CreateAccount, CreateGoogleAccount, CreateToken, SetEmailVerified, SetPassword,
                LinkGoogle, redisVars
  <2> QED BY <1>3, <2>1, <2>2, <2>3 DEF Work, QuietWork
<1>4. CASE \/ \E x \in DOMAIN state : BurnGoogleState(x)
           \/ \E t \in Issued : ExpireSession(t)
           \/ \E t \in token : ExpireToken(t)
  BY <1>4, TimeQuiet, QuietEnds
<1> QED BY <1>1, <1>2, <1>3, <1>4 DEF Next

\* A request that refreshes a session cannot bring it back after a logout, a rotation or
\* its end (refreshSession).
THEOREM EndedStayEnded == Spec => EndedSessionsStayEnded
<1>1. CInv /\ [Next]_vars => [\A s \in Issued : session[s] = None => session'[s] = None]_vars
  BY StepEnds
<1>2. CInv /\ [Next]_vars => CInv'
  BY StepCInv
<1> QED BY <1>1, <1>2, InitCInv, PTL DEF Spec, EndedSessionsStayEnded

-----------------------------------------------------------------------------
(* Tokens *)

\* What a step does to the tokens
LEMMA TokenSteps ==
  ASSUME [Next]_vars
  PROVE  \/ UNCHANGED <<token, tokenIndex, mails>>
         \/ \E h \in Handler : CreateToken(h)
         \/ \E t \in token : token' = token \ {t} /\ UNCHANGED <<tokenIndex, mails>>
         \/ \E t \in token : ExpireToken(t)
<1> DEFINE Shows == \/ UNCHANGED <<token, tokenIndex, mails>>
                    \/ \E h \in Handler : CreateToken(h)
                    \/ \E t \in token : token' = token \ {t} /\ UNCHANGED <<tokenIndex, mails>>
                    \/ \E t \in token : ExpireToken(t)
<1>1. CASE UNCHANGED vars
  BY <1>1 DEF vars, redisVars, history
<1>2. ASSUME NEW h \in Handler, Request(h) PROVE Shows
  <2>1. CASE \/ \E e \in Email, p \in Password : Signup(h, e, p) \/ Login(h, e, p)
             \/ \E s \in Issued : GetSession(h, s)
             \/ \E e \in Email : CreateVerificationToken(h, e) \/ CreateResetToken(h, e)
             \/ \E x \in DOMAIN state : \E s \in Issued \union {0} :
                  BeginLogin(h, x, s) \/ TakeGoogleState(h, x, s)
    BY <2>1 DEF Signup, Login, GetSession, CreateVerificationToken, CreateResetToken,
                BeginLogin, TakeGoogleState, redisVars, history
  <2>2. CASE \/ \E t \in DOMAIN mails : VerifyEmail(h, t)
             \/ \E t \in DOMAIN mails : \E p \in Password : ResetPassword(h, t, p)
    BY <2>2 DEF VerifyEmail, ResetPassword, ConsumeToken, history
  <2> HIDE DEF Shows
  <2> QED BY <1>2, <2>1, <2>2 DEF Request
<1>3. ASSUME NEW h \in Handler, Work(h) PROVE Shows
  <2>1. CASE CreateToken(h)
    BY <2>1
  <2>2. CASE \/ \E a \in Account : CreateAccount(h, a)
             \/ \E a \in Account : \E trusted \in BOOLEAN : CreateGoogleAccount(h, a, trusted)
             \/ createSession(h) \/ SetEmailVerified(h) \/ SetPassword(h) \/ LinkGoogle(h)
    BY <2>2 DEF CreateAccount, CreateGoogleAccount, createSession, SetEmailVerified,
                SetPassword, LinkGoogle, redisVars, history
  <2>3. CASE QuietWork(h)
    <3>1. CASE \/ refreshSession(h) \/ ResolveSession(h) \/ Serve(h) \/ Logout(h)
               \/ CheckResetSubject(h) \/ \E p \in Password : BeginLink(h, p)
               \/ \E x \in DOMAIN state : SaveGoogleState(h, x)
               \/ \E subject \in Subject : Verify(h, subject)
      BY <3>1 DEF refreshSession, ResolveSession, Serve, Logout, CheckResetSubject, BeginLink,
                  SaveGoogleState, Verify, redisVars, history
    <3>2. CASE \/ LockGoogleSubject(h) \/ GoogleAccountID(h) \/ AccountByID(h) \/ Refuse(h)
               \/ RotateSession(h) \/ RotationFails(h) \/ LockAccountAuthVersion(h) \/ fail(h)
      BY <3>2 DEF LockGoogleSubject, GoogleAccountID, AccountByID, Refuse, RotateSession,
                  RotationFails, LockAccountAuthVersion, fail, redisVars, history
    <3> HIDE DEF Shows
    <3> QED BY <2>3, <3>1, <3>2 DEF QuietWork
  <2> HIDE DEF Shows
  <2> QED BY <1>3, <2>1, <2>2, <2>3 DEF Work, QuietWork
<1>4. ASSUME NEW x \in DOMAIN state, BurnGoogleState(x) PROVE Shows
  BY <1>4 DEF BurnGoogleState, history
<1>5. ASSUME NEW s \in Issued, ExpireSession(s) PROVE Shows
  BY <1>5 DEF ExpireSession, history
<1>6. ASSUME NEW t \in token, ExpireToken(t) PROVE Shows
  BY <1>6
<1>7. ASSUME Next PROVE Shows
  <2> HIDE DEF Shows
  <2>1. CASE \E h \in Handler : Request(h) BY <2>1, <1>2
  <2>2. CASE \E h \in Handler : Work(h) BY <2>2, <1>3
  <2>3. CASE \E x \in DOMAIN state : BurnGoogleState(x) BY <2>3, <1>4
  <2>4. CASE \E s \in Issued : ExpireSession(s) BY <2>4, <1>5
  <2>5. CASE \E t \in token : ExpireToken(t) BY <2>5, <1>6
  <2> QED BY <1>7, <2>1, <2>2, <2>3, <2>4, <2>5 DEF Next
<1>8. Shows
  BY <1>1, <1>7
<1> QED BY <1>8 DEF Shows

LEMMA StepTokens ==
  ASSUME CInv, TokensFit, [Next]_vars
  PROVE  TokensFit'
<1>1. CASE UNCHANGED <<token, tokenIndex, mails>>
  BY <1>1 DEF TokensFit
<1>2. ASSUME NEW t \in token, token' = token \ {t}, UNCHANGED <<tokenIndex, mails>>
      PROVE  TokensFit'
  BY <1>2 DEF TokensFit
<1>3. ASSUME NEW t \in token, ExpireToken(t) PROVE TokensFit'
  <2> SUFFICES ASSUME NEW u \in token, u # t
               PROVE  tokenIndex'[mails[u].kind][mails[u].account] = u
    BY <1>3 DEF ExpireToken, history, TokensFit
  <2>1. mails[u] \in Mail
    BY DEF CInv, TypeOK
  <2>2. mails[u].kind \in Kind /\ mails[u].account \in Account
    BY <2>1 DEF Mail
  <2>3. tokenIndex[mails[u].kind][mails[u].account] = u
    BY DEF TokensFit
  <2> QED BY <1>3, <2>2, <2>3 DEF ExpireToken
<1>4. ASSUME NEW h \in Handler, CreateToken(h) PROVE TokensFit'
  <2>1. PICK c : c = req[h]
    OBVIOUS
  <2>2. c \in Issuing /\ c.kind \in Kind /\ c.account \in Account
    BY <1>4, <2>1, ReqType, Shapes DEF CreateToken, Issuing
  <2>3. PICK n : n = Len(mails)
    OBVIOUS
  <2>4. PICK m : m = [kind |-> c.kind, account |-> c.account, version |-> c.version]
    OBVIOUS
  <2>5. PICK old : old = tokenIndex[c.kind][c.account]
    OBVIOUS
  <2>6. /\ token' = (token \ {old}) \union {n + 1}
        /\ tokenIndex' = [tokenIndex EXCEPT ![c.kind][c.account] = n + 1]
        /\ mails' = Append(mails, m)
    BY <1>4, <2>1, <2>3, <2>4, <2>5 DEF CreateToken
  <2>7. mails \in Seq(Mail) /\ m \in Mail /\ n \in Nat /\ DOMAIN mails = 1 .. n
    BY <2>2, <2>3, <2>4 DEF CInv, TypeOK, Issuing, Mail
  <2>8. /\ DOMAIN mails' = 1 .. n + 1
        /\ mails'[n + 1] = m /\ \A t \in 1 .. n : mails'[t] = mails[t]
    BY <2>3, <2>6, <2>7
  <2>9. \A k \in Kind, a \in Account :
           tokenIndex'[k][a] = IF k = c.kind /\ a = c.account THEN n + 1 ELSE tokenIndex[k][a]
    BY <2>2, <2>6 DEF CInv, TypeOK
  <2> SUFFICES ASSUME NEW t \in token'
               PROVE  /\ tokenIndex'[mails'[t].kind][mails'[t].account] = t
                      /\ \A u \in 1 .. n + 1 :
                           mails'[u].kind = mails'[t].kind /\ mails'[u].account = mails'[t].account
                             => u <= t
    BY <2>8 DEF TokensFit
  <2>10. CASE t = n + 1
    BY <2>2, <2>4, <2>7, <2>8, <2>9, <2>10
  <2>11. CASE t # n + 1
    <3>1. t \in token /\ t # old /\ t \in 1 .. n
      BY <2>6, <2>7, <2>11 DEF CInv, TypeOK
    <3>2. mails'[t] = mails[t] /\ mails[t] \in Mail
      BY <2>7, <2>8, <3>1
    <3>3. /\ tokenIndex[mails[t].kind][mails[t].account] = t
          /\ \A u \in 1 .. n : mails[u].kind = mails[t].kind /\ mails[u].account = mails[t].account
               => u <= t
      BY <2>7, <3>1 DEF TokensFit
    <3>4. ~(mails[t].kind = c.kind /\ mails[t].account = c.account)
      BY <2>5, <3>1, <3>3
    <3>5. mails[t].kind \in Kind /\ mails[t].account \in Account
      BY <3>2 DEF Mail
    <3>6. tokenIndex'[mails[t].kind][mails[t].account] = t
      BY <2>9, <3>3, <3>4, <3>5
    <3>7. ASSUME NEW u \in 1 .. n + 1, mails'[u].kind = mails[t].kind,
                 mails'[u].account = mails[t].account
          PROVE  u <= t
      <4>1. CASE u = n + 1
        BY <2>4, <2>8, <3>4, <3>7, <4>1
      <4>2. CASE u \in 1 .. n
        BY <2>8, <3>3, <3>7, <4>2
      <4> QED BY <2>7, <4>1, <4>2
    <3> QED BY <3>2, <3>6, <3>7
  <2> QED BY <2>10, <2>11
<1> QED BY <1>1, <1>2, <1>3, <1>4, TokenSteps

\* A new mail makes the tokens mailed before it worthless (create_token.lua), whichever
\* were used or ended in between.
THEOREM NewestTokenLives == Spec => []OnlyNewestTokenLives
<1>1. Init => TokensFit
  BY DEF Init, TokensFit
<1>2. ASSUME CInv, TokensFit PROVE OnlyNewestTokenLives
  <2> SUFFICES ASSUME NEW t \in token, NEW u \in DOMAIN mails, u > t,
                      mails[u].kind = mails[t].kind, mails[u].account = mails[t].account
               PROVE  FALSE
    BY DEF OnlyNewestTokenLives
  <2>1. u <= t /\ u \in Nat /\ t \in Nat
    BY <1>2 DEF CInv, TypeOK, TokensFit
  <2> QED BY <2>1
<1> QED BY <1>1, <1>2, InitCInv, StepCInv, StepTokens, PTL DEF Spec

-----------------------------------------------------------------------------
(* Locks *)

Locking == {"locked", "absent", "linking"}

\* Only h moves, nobody loses a lock to it, and what it changes it has locked.
OnlyMoves(h) ==
  /\ \A k \in Handler \ {h} : req'[k] = req[k]
  /\ \A g \in Subject : subjectLock[g] \in Handler \ {h} => subjectLock'[g] = subjectLock[g]
  /\ \A a \in Account : rowLock[a] \in Handler \ {h} => rowLock'[a] = rowLock[a]
  /\ \A i \in identity' : i \in identity \/ subjectLock[i.subject] = h
  /\ \A a \in Account : account[a] # None =>
       account'[a].version = account[a].version \/ rowLock[a] = None

LEMMA LocksStep ==
  ASSUME CInv, LInv, NEW h \in Handler, OnlyMoves(h), LocksFit(h, req[h])'
  PROVE  LInv'
<1> SUFFICES ASSUME NEW k \in Handler, k # h, NEW r, r = req[k]
             PROVE  LocksFit(k, r)'
  BY DEF LInv, OnlyMoves, LocksFit
<1>1. LocksFit(k, r) /\ r \in ReqState /\ ReqFits(r)
  BY ReqType DEF LInv
<1>2. ASSUME r.at \in Locking
      PROVE  /\ subjectLock'[r.subject] = k
             /\ r.at = "absent" => \A i \in identity' : i.subject # r.subject
  <2>1. r.subject \in Subject /\ subjectLock[r.subject] = k
    BY <1>1, <1>2, Shapes DEF Locking, Claiming, LocksFit
  <2>2. subjectLock'[r.subject] = k
    BY <2>1 DEF OnlyMoves
  <2>3. ASSUME r.at = "absent", NEW i \in identity', i.subject = r.subject PROVE FALSE
    <3>1. i \notin identity
      BY <1>1, <2>3 DEF LocksFit
    <3> QED BY <2>1, <2>3, <3>1 DEF OnlyMoves
  <2> QED BY <2>2, <2>3
<1>3. ASSUME r.at = "linking"
      PROVE  /\ rowLock'[r.google.account] = k
             /\ account'[r.google.account].version = r.google.version
  <2>1. PICK a : a = r.google.account
    OBVIOUS
  <2>2. a \in Account /\ account[a] # None
    BY <1>1, <1>3, <2>1 DEF ReqFits, LinkFits
  <2>3. rowLock[a] = k /\ account[a].version = r.google.version
    BY <1>1, <1>3, <2>1 DEF LocksFit
  <2>4. k # None
    BY NoneAssumption
  <2> QED BY <2>1, <2>2, <2>3, <2>4 DEF OnlyMoves
<1> QED BY <1>2, <1>3 DEF LocksFit, Locking

\* A step that leaves PostgreSQL alone and takes its handler out of every transaction
LEMMA LocksApart ==
  ASSUME CInv, LInv, UNCHANGED pgVars, NEW h \in Handler, NEW r, Goto(h, r), r.at \notin Locking
  PROVE  LInv'
<1>1. req'[h] = r /\ \A k \in Handler \ {h} : req'[k] = req[k]
  BY DEF CInv, TypeOK, Goto
<1>2. OnlyMoves(h)
  BY <1>1 DEF OnlyMoves, pgVars
<1>3. LocksFit(h, req[h])'
  BY <1>1 DEF LocksFit, Locking
<1> QED BY <1>2, <1>3, LocksStep

LEMMA LocksUntouched ==
  ASSUME LInv, UNCHANGED <<pgVars, req>>
  PROVE  LInv'
BY DEF LInv, LocksFit, pgVars

\* What only h releases
LEMMA ReleasedKeeps ==
  ASSUME CInv, NEW h \in Handler
  PROVE  /\ \A g \in Subject : subjectLock[g] \in Handler \ {h} =>
              Released(subjectLock, h)[g] = subjectLock[g]
         /\ \A a \in Account : rowLock[a] \in Handler \ {h} =>
              Released(rowLock, h)[a] = rowLock[a]
<1>1. /\ subjectLock \in [Subject -> Handler \union {None}]
      /\ rowLock \in [Account -> Handler \union {None}]
  BY DEF CInv, TypeOK
<1>2. \A g \in Subject :
        Released(subjectLock, h)[g] = IF subjectLock[g] = h THEN None ELSE subjectLock[g]
  BY <1>1, ReleasedType
<1>3. \A a \in Account :
        Released(rowLock, h)[a] = IF rowLock[a] = h THEN None ELSE rowLock[a]
  BY <1>1, ReleasedType
<1> QED BY <1>2, <1>3

LEMMA RequestLocks ==
  ASSUME CInv, LInv, NEW h \in Handler, Request(h)
  PROVE  LInv'
<1>1. ASSUME NEW e \in Email, NEW p \in Password, Signup(h, e, p) PROVE LInv'
  BY <1>1, LocksApart DEF Signup, Locking
<1>2. ASSUME NEW e \in Email, NEW p \in Password, Login(h, e, p) PROVE LInv'
  BY <1>2, LocksApart DEF Login, Locking
<1>3. ASSUME NEW s \in Issued, GetSession(h, s) PROVE LInv'
  BY <1>3, LocksApart DEF GetSession, Locking
<1>4. ASSUME NEW e \in Email, CreateVerificationToken(h, e) PROVE LInv'
  BY <1>4, LocksApart DEF CreateVerificationToken, Locking
<1>5. ASSUME NEW e \in Email, CreateResetToken(h, e) PROVE LInv'
  BY <1>5, LocksApart DEF CreateResetToken, Locking
<1>6. ASSUME NEW t \in DOMAIN mails, VerifyEmail(h, t) PROVE LInv'
  BY <1>6, LocksApart DEF VerifyEmail, ConsumeToken, Locking
<1>7. ASSUME NEW t \in DOMAIN mails, NEW p \in Password, ResetPassword(h, t, p) PROVE LInv'
  BY <1>7, LocksApart DEF ResetPassword, ConsumeToken, Locking
<1>8. ASSUME NEW x \in DOMAIN state, NEW s, BeginLogin(h, x, s) PROVE LInv'
  BY <1>8, LocksUntouched DEF BeginLogin
<1>9. ASSUME NEW x \in DOMAIN state, NEW s, TakeGoogleState(h, x, s) PROVE LInv'
  <2>1. \E r : Goto(h, r) /\ r.at \notin Locking
    BY <1>9, IdleFits DEF TakeGoogleState, Locking
  <2> QED BY <1>9, <2>1, LocksApart DEF TakeGoogleState
<1> QED BY <1>1, <1>2, <1>3, <1>4, <1>5, <1>6, <1>7, <1>8, <1>9 DEF Request

\* Work outside a transaction
LEMMA PlainLocks ==
  ASSUME CInv, LInv, NEW h \in Handler,
         \/ createSession(h) \/ refreshSession(h) \/ ResolveSession(h) \/ Serve(h) \/ Logout(h)
         \/ CreateToken(h) \/ CheckResetSubject(h)
         \/ \E p \in Password : BeginLink(h, p)
         \/ \E x \in DOMAIN state : SaveGoogleState(h, x)
         \/ \E subject \in Subject : Verify(h, subject)
         \/ AccountByID(h) \/ Refuse(h) \/ RotateSession(h) \/ RotationFails(h)
  PROVE  LInv'
<1>1. CASE \/ Serve(h) \/ Logout(h) \/ Refuse(h) \/ RotateSession(h) \/ RotationFails(h)
           \/ \E x \in DOMAIN state : SaveGoogleState(h, x)
  <2>1. Goto(h, Idle) /\ UNCHANGED pgVars
    BY <1>1 DEF Serve, Logout, Refuse, RotateSession, RotationFails, SaveGoogleState
  <2> QED BY <2>1, IdleFits, LocksApart DEF Locking
<1>2. CASE createSession(h)
  <2>1. \E r : Goto(h, r) /\ r.at \notin Locking
    BY <1>2, IdleFits DEF createSession, Locking
  <2> QED BY <1>2, <2>1, LocksApart DEF createSession
<1>3. CASE refreshSession(h) \/ ResolveSession(h)
  <2>1. PICK c : c = req[h]
    OBVIOUS
  <2>2. c \in Entering
    BY <1>3, <2>1, ReqType, Shapes DEF refreshSession, ResolveSession
  <2>3. \E r : Goto(h, r) /\ r.at \notin Locking
    BY <1>3, <2>1, <2>2, IdleFits DEF refreshSession, ResolveSession, Entering, Locking
  <2> QED BY <1>3, <2>3, LocksApart DEF refreshSession, ResolveSession
<1>4. CASE CreateToken(h)
  <2>1. PICK c : c = req[h]
    OBVIOUS
  <2>2. c \in Issuing
    BY <1>4, <2>1, ReqType, Shapes DEF CreateToken
  <2>3. Goto(h, c.then) /\ UNCHANGED pgVars
    BY <1>4, <2>1 DEF CreateToken
  <2>4. c.then.at \notin Locking
    BY <2>2, IdleFits DEF Issuing, Opening, Locking
  <2> QED BY <2>3, <2>4, LocksApart
<1>5. CASE CheckResetSubject(h)
  <2>1. PICK c : c = req[h]
    OBVIOUS
  <2>2. c \in Resetting
    BY <1>5, <2>1, ReqType, Shapes DEF CheckResetSubject
  <2>3. \E r : Goto(h, r) /\ r.at \notin Locking
    BY <1>5, <2>1, <2>2, IdleFits DEF CheckResetSubject, Resetting, Locking
  <2> QED BY <1>5, <2>3, LocksApart DEF CheckResetSubject
<1>6. ASSUME NEW p \in Password, BeginLink(h, p) PROVE LInv'
  <2>1. \E r : Goto(h, r) /\ r.at \notin Locking
    BY <1>6 DEF BeginLink, Locking
  <2> QED BY <1>6, <2>1, LocksApart DEF BeginLink
<1>7. ASSUME NEW subject \in Subject, Verify(h, subject) PROVE LInv'
  <2>1. \E r : Goto(h, r) /\ r.at \notin Locking
    BY <1>7, IdleFits DEF Verify, Locking
  <2> QED BY <1>7, <2>1, LocksApart DEF Verify
<1>8. CASE AccountByID(h)
  BY <1>8, LocksApart DEF AccountByID, Locking
<1> QED BY <1>1, <1>2, <1>3, <1>4, <1>5, <1>6, <1>7, <1>8

\* Transactions on accounts
LEMMA AccountLocks ==
  ASSUME CInv, LInv, NEW h \in Handler,
         \/ \E a \in Account : CreateAccount(h, a)
         \/ SetEmailVerified(h) \/ SetPassword(h) \/ fail(h)
  PROVE  LInv'
<1>1. ASSUME NEW a \in Account, CreateAccount(h, a) PROVE LInv'
  <2>1. /\ \E r : Goto(h, r) /\ r.at \notin Locking
        /\ UNCHANGED <<identity, subjectLock, rowLock>>
        /\ \/ account' = account
           \/ account[a] = None /\ \E row : account' = [account EXCEPT ![a] = row]
    <3>1. CASE AccountByEmail(req[h].email) # {}
      <4>1. Goto(h, Idle) /\ account' = account
        BY <1>1, <3>1 DEF CreateAccount
      <4>2. Idle.at \notin Locking
        BY IdleFits DEF Locking
      <4>3. UNCHANGED <<identity, subjectLock, rowLock>>
        BY <1>1 DEF CreateAccount
      <4>4. \E r : Goto(h, r) /\ r.at \notin Locking
        BY <4>1, <4>2, Zenon
      <4> QED BY <4>1, <4>3, <4>4, Zenon
    <3>2. CASE AccountByEmail(req[h].email) = {}
      <4>1. PICK q : q = [at |-> "issuing", kind |-> "verification", account |-> a, version |-> 0,
                          then |-> [at |-> "opening", account |-> a, version |-> 1,
                                    by |-> req[h].pass, old |-> 0]]
        OBVIOUS
      <4>2. Goto(h, q)
        BY <1>1, <3>2, <4>1 DEF CreateAccount
      <4>3. q.at \notin Locking
        BY <4>1 DEF Locking
      <4>4. account[a] = None /\ \E row : account' = [account EXCEPT ![a] = row]
        BY <1>1, <3>2 DEF CreateAccount
      <4> QED BY <1>1, <4>2, <4>3, <4>4 DEF CreateAccount
    <3> QED BY <3>1, <3>2
  <2>2. PICK r : Goto(h, r) /\ r.at \notin Locking
    BY <2>1
  <2>3. req'[h] = r /\ \A k \in Handler \ {h} : req'[k] = req[k]
    BY <2>2 DEF CInv, TypeOK, Goto
  <2>4. \A b \in Account : account[b] # None => account'[b] = account[b]
    BY <2>1 DEF CInv, TypeOK
  <2>5. OnlyMoves(h) /\ LocksFit(h, req[h])'
    BY <2>1, <2>2, <2>3, <2>4 DEF OnlyMoves, LocksFit, Locking
  <2> QED BY <2>5, LocksStep
<1>2. CASE SetEmailVerified(h)
  <2>1. PICK a : a = req[h].account
    OBVIOUS
  <2>2. a \in Account /\ account[a] \in AccountRow
    BY <1>2, <2>1, ReqType, Shapes, VersionType DEF SetEmailVerified, Verifying, ReqFits, CInv
  <2>3. /\ account' = [account EXCEPT ![a].verified = TRUE] /\ req' = [req EXCEPT ![h] = Idle]
        /\ UNCHANGED <<identity, subjectLock, rowLock>>
    BY <1>2, <2>1 DEF SetEmailVerified, Goto
  <2>4. \A b \in Account : account'[b].version = account[b].version
    BY <2>2, <2>3 DEF CInv, TypeOK, AccountRow
  <2>5. req'[h] = Idle /\ \A k \in Handler \ {h} : req'[k] = req[k]
    BY <2>3 DEF CInv, TypeOK
  <2>6. OnlyMoves(h) /\ LocksFit(h, req[h])'
    BY <2>3, <2>4, <2>5, IdleFits DEF OnlyMoves, LocksFit
  <2> QED BY <2>6, LocksStep
<1>3. CASE SetPassword(h)
  <2>1. PICK a : a = req[h].account
    OBVIOUS
  <2>2. a \in Account /\ rowLock[a] = None
    BY <1>3, <2>1, ReqType, Shapes DEF SetPassword, Resetting
  <2>3. /\ req' = [req EXCEPT ![h] = Idle]
        /\ UNCHANGED <<identity, subjectLock, rowLock>>
        /\ \/ account' = account
           \/ account' = [account EXCEPT ![a].pass = req[h].pass, ![a].version = @ + 1]
    BY <1>3, <2>1 DEF SetPassword, Goto
  <2>4. \A b \in Account \ {a} : account'[b] = account[b]
    BY <2>3 DEF CInv, TypeOK
  <2>5. req'[h] = Idle /\ \A k \in Handler \ {h} : req'[k] = req[k]
    BY <2>3 DEF CInv, TypeOK
  <2>6. OnlyMoves(h) /\ LocksFit(h, req[h])'
    BY <2>2, <2>3, <2>4, <2>5, IdleFits DEF OnlyMoves, LocksFit
  <2> QED BY <2>6, LocksStep
<1>4. CASE fail(h)
  <2>1. req'[h] = Idle /\ \A k \in Handler \ {h} : req'[k] = req[k]
    BY <1>4 DEF fail, Goto, CInv, TypeOK
  <2>2. OnlyMoves(h) /\ LocksFit(h, req[h])'
    BY <1>4, <2>1, IdleFits, ReleasedKeeps DEF fail, OnlyMoves, LocksFit
  <2> QED BY <2>2, LocksStep
<1> QED BY <1>1, <1>2, <1>3, <1>4

\* Transactions of Google
LEMMA GoogleLocks ==
  ASSUME CInv, LInv, NEW h \in Handler,
         \/ LockGoogleSubject(h) \/ GoogleAccountID(h) \/ LockAccountAuthVersion(h)
         \/ LinkGoogle(h)
         \/ \E a \in Account : \E trusted \in BOOLEAN : CreateGoogleAccount(h, a, trusted)
  PROVE  LInv'
<1>1. PICK c : c = req[h]
  OBVIOUS
<1>2. c \in Claiming /\ c.subject \in Subject /\ LocksFit(h, c) /\ ReqFits(c)
  BY <1>1, ReqType, Shapes
     DEF LockGoogleSubject, GoogleAccountID, LockAccountAuthVersion, LinkGoogle,
         CreateGoogleAccount, Claiming, LInv
<1>3. h # None
  BY NoneAssumption
<1>4. CASE LockGoogleSubject(h)
  <2>1. /\ subjectLock[c.subject] = None /\ subjectLock' = [subjectLock EXCEPT ![c.subject] = h]
        /\ req' = [req EXCEPT ![h] = [c EXCEPT !.at = "locked"]]
        /\ UNCHANGED <<account, identity, rowLock>>
    BY <1>1, <1>4 DEF LockGoogleSubject, Goto
  <2>2. PICK q : q = [c EXCEPT !.at = "locked"]
    OBVIOUS
  <2>3. q.at = "locked" /\ q.subject = c.subject
    BY <1>2, <2>2 DEF Claiming
  <2>4. req'[h] = q /\ \A k \in Handler \ {h} : req'[k] = req[k]
    BY <2>1, <2>2 DEF CInv, TypeOK
  <2>5. subjectLock'[c.subject] = h
        /\ \A g \in Subject : subjectLock[g] # None => subjectLock'[g] = subjectLock[g]
    BY <1>2, <2>1 DEF CInv, TypeOK
  <2>6. OnlyMoves(h)
    BY <2>1, <2>4, <2>5, NoneAssumption DEF OnlyMoves
  <2>7. LocksFit(h, req[h])'
    BY <2>3, <2>4, <2>5 DEF LocksFit
  <2> QED BY <2>6, <2>7, LocksStep
<1>5. CASE GoogleAccountID(h)
  <2>1. c.at = "locked" /\ UNCHANGED <<account, identity, rowLock>>
    BY <1>1, <1>5 DEF GoogleAccountID
  <2>2. CASE {i \in identity : i.subject = c.subject} = {}
    <3>1. PICK q : q = [c EXCEPT !.at = "absent"]
      OBVIOUS
    <3>2. Goto(h, q) /\ subjectLock' = subjectLock
      BY <1>1, <1>5, <2>2, <3>1 DEF GoogleAccountID
    <3>3. q.at = "absent" /\ q.subject = c.subject
      BY <1>2, <3>1 DEF Claiming
    <3>4. req'[h] = q /\ \A k \in Handler \ {h} : req'[k] = req[k]
      BY <3>2 DEF CInv, TypeOK, Goto
    <3>5. OnlyMoves(h)
      BY <2>1, <3>2, <3>4 DEF OnlyMoves
    <3>6. subjectLock[c.subject] = h
      BY <1>2, <2>1 DEF LocksFit
    <3>7. LocksFit(h, req[h])'
      BY <2>1, <2>2, <3>2, <3>3, <3>4, <3>6 DEF LocksFit
    <3> QED BY <3>5, <3>7, LocksStep
  <2>3. CASE {i \in identity : i.subject = c.subject} # {}
    <3>1. subjectLock' = Released(subjectLock, h)
      BY <1>1, <1>5, <2>3 DEF GoogleAccountID
    <3>2. PICK r : Goto(h, r) /\ r.at = "known"
      <4>1. PICK i \in identity :
              Goto(h, [at |-> "known", account |-> i.account, subject |-> c.subject,
                       old |-> c.google.sid])
        BY <1>1, <1>5, <2>3 DEF GoogleAccountID
      <4>2. PICK q : q = [at |-> "known", account |-> i.account, subject |-> c.subject,
                          old |-> c.google.sid]
        OBVIOUS
      <4>3. q.at = "known"
        BY <4>2
      <4> QED BY <4>1, <4>2, <4>3
    <3>3. req'[h] = r /\ \A k \in Handler \ {h} : req'[k] = req[k]
      BY <3>2 DEF CInv, TypeOK, Goto
    <3>4. OnlyMoves(h) /\ LocksFit(h, req[h])'
      BY <2>1, <3>1, <3>2, <3>3, ReleasedKeeps DEF OnlyMoves, LocksFit
    <3> QED BY <3>4, LocksStep
  <2> QED BY <2>2, <2>3
<1>6. CASE LockAccountAuthVersion(h)
  <2>1. PICK a : a = c.google.account
    OBVIOUS
  <2>2. /\ c.at = "locked" /\ c.google.purpose = "link" /\ rowLock[a] = None
        /\ UNCHANGED <<account, identity>>
    BY <1>1, <1>6, <2>1 DEF LockAccountAuthVersion
  <2>3. a \in Account
    BY <1>2, <2>1, <2>2 DEF ReqFits, LinkFits
  <2>4. CASE account[a].version = c.google.version
    <3>1. PICK q : q = [c EXCEPT !.at = "linking"]
      OBVIOUS
    <3>2. /\ Goto(h, q) /\ subjectLock' = subjectLock
          /\ rowLock' = [rowLock EXCEPT ![a] = h]
      BY <1>1, <1>6, <2>1, <2>4, <3>1 DEF LockAccountAuthVersion
    <3>3. q.at = "linking" /\ q.subject = c.subject /\ q.google = c.google
      BY <1>2, <3>1 DEF Claiming
    <3>4. req'[h] = q /\ \A k \in Handler \ {h} : req'[k] = req[k]
      BY <3>2 DEF CInv, TypeOK, Goto
    <3>5. rowLock'[a] = h /\ \A b \in Account : rowLock[b] # None => rowLock'[b] = rowLock[b]
      BY <2>2, <2>3, <3>2 DEF CInv, TypeOK
    <3>6. OnlyMoves(h)
      BY <2>2, <3>2, <3>4, <3>5, NoneAssumption DEF OnlyMoves
    <3>7. subjectLock[c.subject] = h
      BY <1>2, <2>2 DEF LocksFit
    <3>8. LocksFit(h, req[h])'
      BY <2>1, <2>2, <2>4, <3>2, <3>3, <3>4, <3>5, <3>7 DEF LocksFit
    <3> QED BY <3>6, <3>8, LocksStep
  <2>5. CASE account[a].version # c.google.version
    <3>1. Goto(h, Idle) /\ subjectLock' = Released(subjectLock, h) /\ rowLock' = rowLock
      BY <1>1, <1>6, <2>1, <2>5 DEF LockAccountAuthVersion
    <3>2. req'[h] = Idle /\ \A k \in Handler \ {h} : req'[k] = req[k]
      BY <3>1 DEF CInv, TypeOK, Goto
    <3>3. OnlyMoves(h) /\ LocksFit(h, req[h])'
      BY <2>2, <3>1, <3>2, IdleFits, ReleasedKeeps DEF OnlyMoves, LocksFit
    <3> QED BY <3>3, LocksStep
  <2> QED BY <2>4, <2>5
<1>7. CASE LinkGoogle(h)
  <2>1. PICK new : new = [account |-> c.google.account, subject |-> c.subject]
    OBVIOUS
  <2>2. /\ c.at = "linking" /\ identity' \in {identity, identity \union {new}}
        /\ Goto(h, Idle) /\ UNCHANGED account
        /\ subjectLock' = Released(subjectLock, h) /\ rowLock' = Released(rowLock, h)
    BY <1>1, <1>7, <2>1 DEF LinkGoogle
  <2>3. req'[h] = Idle /\ \A k \in Handler \ {h} : req'[k] = req[k]
    BY <2>2 DEF CInv, TypeOK, Goto
  <2>4. subjectLock[new.subject] = h
    BY <1>2, <2>1, <2>2 DEF LocksFit
  <2>5. OnlyMoves(h) /\ LocksFit(h, req[h])'
    BY <2>2, <2>3, <2>4, IdleFits, ReleasedKeeps DEF OnlyMoves, LocksFit
  <2> QED BY <2>5, LocksStep
<1>8. ASSUME NEW a \in Account, NEW trusted \in BOOLEAN, CreateGoogleAccount(h, a, trusted)
      PROVE  LInv'
  <2>1. PICK new : new = [account |-> a, subject |-> c.subject]
    OBVIOUS
  <2>2. /\ c.at = "absent" /\ identity' \in {identity, identity \union {new}}
        /\ \E r : Goto(h, r) /\ r.at \notin Locking
        /\ \/ account' = account
           \/ account[a] = None /\ \E row : account' = [account EXCEPT ![a] = row]
        /\ subjectLock' = Released(subjectLock, h) /\ rowLock' = rowLock
    <3>1. CASE AccountByEmail(EmailOf[c.subject]) # {}
      <4>1. PICK q : q = [at |-> "refused", subject |-> c.subject]
        OBVIOUS
      <4>2. Goto(h, q) /\ account' = account /\ identity' = identity
        BY <1>1, <1>8, <3>1, <4>1 DEF CreateGoogleAccount
      <4>3. q.at \notin Locking
        BY <4>1 DEF Locking
      <4>4. c.at = "absent" /\ subjectLock' = Released(subjectLock, h) /\ rowLock' = rowLock
        BY <1>1, <1>8 DEF CreateGoogleAccount
      <4>5. \E r : Goto(h, r) /\ r.at \notin Locking
        BY <4>2, <4>3, Zenon
      <4>6. identity' \in {identity, identity \union {new}}
        BY <4>2
      <4> QED BY <4>2, <4>4, <4>5, <4>6, Zenon
    <3>2. CASE AccountByEmail(EmailOf[c.subject]) = {}
      <4>1. PICK q : q = [at |-> "opening", account |-> a, version |-> 1, by |-> c.subject,
                          old |-> c.google.sid]
        OBVIOUS
      <4>2. Goto(h, q) /\ account[a] = None /\ identity' = identity \union {new}
        BY <1>1, <1>8, <2>1, <3>2, <4>1 DEF CreateGoogleAccount
      <4>3. \E row : account' = [account EXCEPT ![a] = row]
        BY <1>1, <1>8, <3>2 DEF CreateGoogleAccount
      <4>4. q.at \notin Locking
        BY <4>1 DEF Locking
      <4> QED BY <1>1, <1>8, <4>2, <4>3, <4>4 DEF CreateGoogleAccount
    <3> QED BY <3>1, <3>2
  <2>3. PICK r : Goto(h, r) /\ r.at \notin Locking
    BY <2>2
  <2>4. req'[h] = r /\ \A k \in Handler \ {h} : req'[k] = req[k]
    BY <2>3 DEF CInv, TypeOK, Goto
  <2>5. \A b \in Account : account[b] # None => account'[b] = account[b]
    BY <2>2 DEF CInv, TypeOK
  <2>6. subjectLock[new.subject] = h
    BY <1>2, <2>1, <2>2 DEF LocksFit
  <2>7. OnlyMoves(h)
    BY <2>2, <2>4, <2>5, <2>6, ReleasedKeeps DEF OnlyMoves
  <2>8. LocksFit(h, req[h])'
    BY <2>3, <2>4 DEF LocksFit, Locking
  <2> QED BY <2>7, <2>8, LocksStep
<1> QED BY <1>4, <1>5, <1>6, <1>7, <1>8

LEMMA StepLocks ==
  ASSUME CInv, LInv, [Next]_vars
  PROVE  LInv'
<1>1. CASE UNCHANGED vars
  BY <1>1, LocksUntouched DEF vars
<1>2. ASSUME NEW h \in Handler, Request(h) PROVE LInv'
  BY <1>2, RequestLocks
<1>3. ASSUME NEW h \in Handler, Work(h) PROVE LInv'
  BY <1>3, PlainLocks, AccountLocks, GoogleLocks DEF Work
<1>4. ASSUME NEW x \in DOMAIN state, BurnGoogleState(x) PROVE LInv'
  BY <1>4, LocksUntouched DEF BurnGoogleState
<1>5. ASSUME NEW s \in Issued, ExpireSession(s) PROVE LInv'
  BY <1>5, LocksUntouched DEF ExpireSession
<1>6. ASSUME NEW t \in token, ExpireToken(t) PROVE LInv'
  BY <1>6, LocksUntouched DEF ExpireToken
<1>7. ASSUME Next PROVE LInv'
  <2>1. CASE \E h \in Handler : Request(h) BY <2>1, <1>2
  <2>2. CASE \E h \in Handler : Work(h) BY <2>2, <1>3
  <2>3. CASE \E x \in DOMAIN state : BurnGoogleState(x) BY <2>3, <1>4
  <2>4. CASE \E s \in Issued : ExpireSession(s) BY <2>4, <1>5
  <2>5. CASE \E t \in token : ExpireToken(t) BY <2>5, <1>6
  <2> QED BY <1>7, <2>1, <2>2, <2>3, <2>4, <2>5 DEF Next
<1> QED BY <1>1, <1>7

\* Of all steps only these two add an identity.
LEMMA IdentitySteps ==
  ASSUME [Next]_vars
  PROVE  \/ UNCHANGED identity
         \/ \E h \in Handler : LinkGoogle(h)
         \/ \E h \in Handler, a \in Account, trusted \in BOOLEAN : CreateGoogleAccount(h, a, trusted)
<1> DEFINE Shows ==
      \/ UNCHANGED identity
      \/ \E h \in Handler : LinkGoogle(h)
      \/ \E h \in Handler, a \in Account, trusted \in BOOLEAN : CreateGoogleAccount(h, a, trusted)
<1>1. CASE UNCHANGED vars
  BY <1>1 DEF vars, pgVars
<1>2. ASSUME NEW h \in Handler, Request(h) PROVE Shows
  <2>1. CASE \/ \E e \in Email, p \in Password : Signup(h, e, p) \/ Login(h, e, p)
             \/ \E s \in Issued : GetSession(h, s)
             \/ \E e \in Email : CreateVerificationToken(h, e) \/ CreateResetToken(h, e)
             \/ \E x \in DOMAIN state : \E s \in Issued \union {0} :
                  BeginLogin(h, x, s) \/ TakeGoogleState(h, x, s)
    BY <2>1 DEF Signup, Login, GetSession, CreateVerificationToken, CreateResetToken,
                BeginLogin, TakeGoogleState, pgVars
  <2>2. CASE \/ \E t \in DOMAIN mails : VerifyEmail(h, t)
             \/ \E t \in DOMAIN mails : \E p \in Password : ResetPassword(h, t, p)
    BY <2>2 DEF VerifyEmail, ResetPassword, ConsumeToken, pgVars
  <2> HIDE DEF Shows
  <2> QED BY <1>2, <2>1, <2>2 DEF Request
<1>3. ASSUME NEW h \in Handler, Work(h) PROVE Shows
  <2>1. CASE \/ LinkGoogle(h)
             \/ \E a \in Account : \E trusted \in BOOLEAN : CreateGoogleAccount(h, a, trusted)
    BY <2>1
  <2>2. CASE \/ \E a \in Account : CreateAccount(h, a)
             \/ createSession(h) \/ CreateToken(h) \/ SetEmailVerified(h) \/ SetPassword(h)
    BY <2>2 DEF CreateAccount, createSession, CreateToken, SetEmailVerified, SetPassword, pgVars
  <2>3. CASE QuietWork(h)
    <3>1. CASE \/ refreshSession(h) \/ ResolveSession(h) \/ Serve(h) \/ Logout(h)
               \/ CheckResetSubject(h) \/ \E p \in Password : BeginLink(h, p)
               \/ \E x \in DOMAIN state : SaveGoogleState(h, x)
               \/ \E subject \in Subject : Verify(h, subject)
      BY <3>1 DEF refreshSession, ResolveSession, Serve, Logout, CheckResetSubject, BeginLink,
                  SaveGoogleState, Verify, pgVars
    <3>2. CASE \/ LockGoogleSubject(h) \/ GoogleAccountID(h) \/ AccountByID(h) \/ Refuse(h)
               \/ RotateSession(h) \/ RotationFails(h) \/ LockAccountAuthVersion(h) \/ fail(h)
      BY <3>2 DEF LockGoogleSubject, GoogleAccountID, AccountByID, Refuse, RotateSession,
                  RotationFails, LockAccountAuthVersion, fail, pgVars
    <3> HIDE DEF Shows
    <3> QED BY <2>3, <3>1, <3>2 DEF QuietWork
  <2> HIDE DEF Shows
  <2> QED BY <1>3, <2>1, <2>2, <2>3 DEF Work, QuietWork
<1>4. ASSUME NEW x \in DOMAIN state, BurnGoogleState(x) PROVE Shows
  BY <1>4 DEF BurnGoogleState, pgVars
<1>5. ASSUME NEW s \in Issued, ExpireSession(s) PROVE Shows
  BY <1>5 DEF ExpireSession, pgVars
<1>6. ASSUME NEW t \in token, ExpireToken(t) PROVE Shows
  BY <1>6 DEF ExpireToken, pgVars
<1>7. ASSUME Next PROVE Shows
  <2> HIDE DEF Shows
  <2>1. CASE \E h \in Handler : Request(h) BY <2>1, <1>2
  <2>2. CASE \E h \in Handler : Work(h) BY <2>2, <1>3
  <2>3. CASE \E x \in DOMAIN state : BurnGoogleState(x) BY <2>3, <1>4
  <2>4. CASE \E s \in Issued : ExpireSession(s) BY <2>4, <1>5
  <2>5. CASE \E t \in token : ExpireToken(t) BY <2>5, <1>6
  <2> QED BY <1>7, <2>1, <2>2, <2>3, <2>4, <2>5 DEF Next
<1>8. Shows
  BY <1>1, <1>7
<1> QED BY <1>8 DEF Shows

\* What LinkGoogle adds belongs to the password of the transaction to link.
LinkedBy(h, i) ==
  /\ req[h].at = "linking" /\ req'[h] = Idle
  /\ req[h].google.account = i.account
  /\ req[h].google.proof = account'[i.account].pass

LEMMA LinkShowsPassword ==
  ASSUME CInv, LInv, NEW h \in Handler, LinkGoogle(h), NEW i \in identity' \ identity
  PROVE  LinkedBy(h, i)
<1>1. PICK c : c = req[h]
  OBVIOUS
<1>2. PICK a : a = c.google.account
  OBVIOUS
<1>3. c.at = "linking" /\ LinkFits(c.google) /\ c.google.purpose = "link" /\ LocksFit(h, c)
  BY <1>1, ReqType DEF LinkGoogle, ReqFits, LInv
<1>4. account[a].version = c.google.version /\ account[a].pass = c.google.proof
  BY <1>2, <1>3 DEF LinkFits, LocksFit
<1>5. i = [account |-> a, subject |-> c.subject] /\ account' = account
  BY <1>1, <1>2 DEF LinkGoogle
<1>6. req'[h] = Idle
  BY DEF LinkGoogle, Goto, CInv, TypeOK
<1> QED BY <1>1, <1>2, <1>3, <1>4, <1>5, <1>6 DEF LinkedBy

LEMMA CreatedIsNew ==
  ASSUME NEW h \in Handler, NEW a \in Account, NEW trusted \in BOOLEAN,
         CreateGoogleAccount(h, a, trusted), NEW i \in identity' \ identity
  PROVE  account[i.account] = None
<1>1. PICK c : c = req[h]
  OBVIOUS
<1>2. AccountByEmail(EmailOf[c.subject]) = {}
  BY <1>1 DEF CreateGoogleAccount
<1>3. account[a] = None /\ identity' = identity \union {[account |-> a, subject |-> c.subject]}
  BY <1>1, <1>2 DEF CreateGoogleAccount
<1> QED BY <1>3

LEMMA InitLInv == Init => LInv
BY IdleFits DEF Init, LInv, LocksFit

\* A Google identity is attached to an existing account (link.go: Begin, then the
\* transaction of LinkGoogle) only while the password given when linking began is
\* still the password of that account.
THEOREM LinkReauthenticates == Spec => LinkIsReauthenticated
<1>1. ASSUME CInv, LInv, [Next]_vars, NEW i \in identity' \ identity, account[i.account] # None
      PROVE  \E h \in Handler : LinkedBy(h, i)
  <2>1. CASE UNCHANGED identity
    BY <1>1, <2>1
  <2>2. ASSUME NEW h \in Handler, LinkGoogle(h) PROVE LinkedBy(h, i)
    BY <1>1, <2>2, LinkShowsPassword
  <2>3. ASSUME NEW h \in Handler, NEW a \in Account, NEW trusted \in BOOLEAN,
               CreateGoogleAccount(h, a, trusted)
        PROVE  FALSE
    BY <1>1, <2>3, CreatedIsNew
  <2> QED BY <1>1, <2>1, <2>2, <2>3, IdentitySteps
<1>2. CInv /\ LInv /\ [Next]_vars => [\A i \in identity' \ identity :
         account[i.account] # None =>
           \E h \in Handler : /\ req[h].at = "linking" /\ req'[h] = Idle
                              /\ req[h].google.account = i.account
                              /\ req[h].google.proof = account'[i.account].pass]_vars
  BY <1>1 DEF LinkedBy
<1> QED BY <1>2, InitCInv, InitLInv, StepCInv, StepLocks, PTL DEF Spec, LinkIsReauthenticated

\* A Google sign-in is refused for its e-mail address only when no account has its
\* identity: the advisory lock keeps what GoogleAccountID found true until then.
THEOREM SignInIsServed == Spec => SignInFindsItsAccount
<1>1. CInv /\ LInv /\ [Next]_vars => [\A h \in Handler :
         req[h].at = "absent" /\ req'[h].at = "refused" =>
           \A i \in identity : i.subject # req[h].subject]_vars
  BY DEF LInv, LocksFit
<1> QED BY <1>1, InitCInv, InitLInv, StepCInv, StepLocks, PTL DEF Spec, SignInFindsItsAccount
=============================================================================
