--------------------------------- MODULE Auth ---------------------------------
(***************************************************************************)
(* Accounts, sessions, one-time tokens and Google identities: the handlers *)
(* of server/internal/application/user over PostgreSQL (accounts and       *)
(* identities) and Redis (sessions, tokens, Google transactions).  One     *)
(* handler is one HTTP request; every action is one statement, script or   *)
(* transaction of a store.  Redis and PostgreSQL share no transaction:     *)
(* what ties them is the auth version of the account.                      *)
(***************************************************************************)
EXTENDS Naturals, Sequences, FiniteSets

CONSTANTS
  Account, Email, Password,
  Subject,       \* Google's identifiers of its users
  EmailOf,       \* [Subject -> Email]: the address Google reports
  Handler,
  MaxSessions, MaxTokens,  \* bounds: ids ever issued
  MaxStates,     \* bound: Google transactions at a time
  None           \* SQL NULL, a missing key

Kind == {"verification", "reset"}
AccountRow == [email : Email, pass : Password \union {None}, version : Nat \ {0},
               verified : BOOLEAN]
Session == [account : Account, version : Nat]
Mail    == [kind : Kind, account : Account, version : Nat]  \* version 0: none
\* A login transaction has no account; sid 0 is no cookie; proof is history.
GoogleState == [purpose : {"login", "link"}, sid : Nat, account : Account \union {None},
                version : Nat, proof : Password \union {None}]

ASSUME EmailOfAssumption == EmailOf \in [Subject -> Email]
ASSUME BoundAssumption == MaxSessions \in Nat /\ MaxTokens \in Nat /\ MaxStates \in Nat
ASSUME NoneAssumption ==
  /\ None \notin Account /\ None \notin Password /\ None \notin Handler
  /\ None \notin AccountRow /\ None \notin Session /\ None \notin GoogleState
  /\ Password \intersect Subject = {}

VARIABLES
  account,      \* rows of accounts
  identity,     \* rows of auth_identities
  subjectLock,  \* pg_advisory_xact_lock of a subject
  rowLock,      \* FOR UPDATE of an accounts row
  session,      \* session:<sid>
  token,        \* token:<kind>:<hash>: the numbers of the live ones
  tokenIndex,   \* token_index:<kind>:<account>, 0 if missing
  state,        \* google:state:<state>, by a slot that stands for the random state
  req,          \* what a handler remembers from one call to the next
  opened,       \* history: for each sid the password or subject it was opened with
  mails,        \* history: for each token what it was issued for; the user has it
  resets        \* history: the tokens that changed the password of an account

pgVars    == <<account, identity, subjectLock, rowLock>>
redisVars == <<session, token, tokenIndex, state>>
history   == <<opened, mails, resets>>
vars      == <<pgVars, redisVars, req, history>>

Sid    == 1 .. MaxSessions
Issued == 1 .. Len(opened)
Idle   == [at |-> "idle"]

Init ==
  /\ account     = [a \in Account |-> None]
  /\ identity    = {}
  /\ subjectLock = [g \in Subject |-> None]
  /\ rowLock     = [a \in Account |-> None]
  /\ session     = [s \in Sid |-> None]
  /\ token       = {}
  /\ tokenIndex  = [k \in Kind |-> [a \in Account |-> 0]]
  /\ state       = [x \in 1 .. MaxStates |-> None]
  /\ req         = [h \in Handler |-> Idle]
  /\ opened      = <<>>
  /\ mails       = <<>>
  /\ resets      = [a \in Account |-> <<>>]

Accounts == {a \in Account : account[a] # None}
AccountByEmail(e) == {a \in Accounts : account[a].email = e}
Goto(h, r) == req' = [req EXCEPT ![h] = r]

-----------------------------------------------------------------------------
(* Signup and login *)

Signup(h, e, p) ==
  /\ req[h] = Idle
  /\ AccountByEmail(e) = {}
  /\ Goto(h, [at |-> "creating", email |-> e, pass |-> p])
  /\ UNCHANGED <<pgVars, redisVars, history>>

\* One transaction with the sequence and the part types (SyncStore has them);
\* the unique index on the e-mail decides between two of them.
CreateAccount(h, a) ==
  /\ req[h].at = "creating"
  /\ IF AccountByEmail(req[h].email) # {}
     THEN Goto(h, Idle) /\ UNCHANGED account
     ELSE /\ account[a] = None
          /\ account' = [account EXCEPT ![a] = [email |-> req[h].email, pass |-> req[h].pass,
                                                version |-> 1, verified |-> FALSE]]
          /\ Goto(h, [at |-> "issuing", kind |-> "verification", account |-> a, version |-> 0,
                      then |-> [at |-> "opening", account |-> a, version |-> 1,
                                by |-> req[h].pass, old |-> 0]])
  /\ UNCHANGED <<identity, subjectLock, rowLock, redisVars, history>>

\* The account row that is compared with the password is the one whose version
\* the session will carry.
Login(h, e, p) ==
  /\ req[h] = Idle
  /\ \E a \in AccountByEmail(e) :
       /\ account[a].pass = p
       /\ Goto(h, [at |-> "opening", account |-> a, version |-> account[a].version,
                   by |-> p, old |-> 0])
  /\ UNCHANGED <<pgVars, redisVars, history>>

\* Fault: the session gets the version of the account as it is now.
createSession_current(h) ==
  LET sid == Len(opened) + 1 IN
  /\ req[h].at = "opening"
  /\ sid <= MaxSessions
  /\ session' = [session EXCEPT ![sid] = [account |-> req[h].account,
                                          version |-> account[req[h].account].version]]
  /\ opened' = Append(opened, req[h].by)
  /\ Goto(h, IF req[h].old = 0 THEN Idle ELSE [at |-> "rotating", old |-> req[h].old, new |-> sid])
  /\ UNCHANGED <<pgVars, token, tokenIndex, state, mails, resets>>

\* CreateSession of Redis under a fresh sid, with the account as it was read; a
\* Google login goes on to delete the session the browser came with.
createSession(h) ==
  LET sid == Len(opened) + 1 IN
  /\ req[h].at = "opening"
  /\ sid <= MaxSessions
  /\ session' = [session EXCEPT ![sid] = [account |-> req[h].account,
                                          version |-> req[h].version]]
  /\ opened' = Append(opened, req[h].by)
  /\ Goto(h, IF req[h].old = 0 THEN Idle ELSE [at |-> "rotating", old |-> req[h].old, new |-> sid])
  /\ UNCHANGED <<pgVars, token, tokenIndex, state, mails, resets>>

-----------------------------------------------------------------------------
(* A request with a session: requireSession, then the handler proper *)

\* since (history): the version of the account when the request came in
GetSession(h, s) ==
  /\ req[h] = Idle
  /\ s \in Issued
  /\ session[s] # None
  /\ Goto(h, [at |-> "refreshing", sid |-> s, read |-> session[s],
              since |-> account[session[s].account].version])
  /\ UNCHANGED <<pgVars, redisVars, history>>

\* Fault: a plain SET of what was read.
refreshSession_sets(h) ==
  /\ req[h].at = "refreshing"
  /\ session' = [session EXCEPT ![req[h].sid] = req[h].read]
  /\ Goto(h, [req[h] EXCEPT !.at = "resolving"])
  /\ UNCHANGED <<pgVars, token, tokenIndex, state, history>>

\* The script: written only if the key is still there with the same account,
\* CSRF token and version.
refreshSession(h) ==
  /\ req[h].at = "refreshing"
  /\ IF session[req[h].sid] = req[h].read
     THEN /\ session' = [session EXCEPT ![req[h].sid] = req[h].read]
          /\ Goto(h, [req[h] EXCEPT !.at = "resolving"])
     ELSE Goto(h, Idle) /\ UNCHANGED session
  /\ UNCHANGED <<pgVars, token, tokenIndex, state, history>>

\* Fault: the session is enough.
ResolveSession_any(h) ==
  /\ req[h].at = "resolving"
  /\ Goto(h, [req[h] EXCEPT !.at = "authorized"])
  /\ UNCHANGED <<pgVars, redisVars, history>>

ResolveSession(h) ==
  /\ req[h].at = "resolving"
  /\ Goto(h, IF account[req[h].read.account].version = req[h].read.version
             THEN [req[h] EXCEPT !.at = "authorized"]
             ELSE Idle)
  /\ UNCHANGED <<pgVars, redisVars, history>>

\* Any handler that leaves accounts and sessions alone
Serve(h) ==
  /\ req[h].at = "authorized"
  /\ Goto(h, Idle)
  /\ UNCHANGED <<pgVars, redisVars, history>>

Logout(h) ==
  /\ req[h].at = "authorized"
  /\ session' = [session EXCEPT ![req[h].sid] = None]
  /\ Goto(h, Idle)
  /\ UNCHANGED <<pgVars, token, tokenIndex, state, history>>

-----------------------------------------------------------------------------
(* One-time tokens: e-mail verification and password reset *)

CreateVerificationToken(h, e) ==
  /\ req[h] = Idle
  /\ \E a \in AccountByEmail(e) :
       /\ ~account[a].verified
       /\ Goto(h, [at |-> "issuing", kind |-> "verification", account |-> a, version |-> 0,
                   then |-> Idle])
  /\ UNCHANGED <<pgVars, redisVars, history>>

\* A Google-only account has no password to reset.
CreateResetToken(h, e) ==
  /\ req[h] = Idle
  /\ \E a \in AccountByEmail(e) :
       /\ account[a].pass # None
       /\ Goto(h, [at |-> "issuing", kind |-> "reset", account |-> a,
                   version |-> account[a].version, then |-> Idle])
  /\ UNCHANGED <<pgVars, redisVars, history>>

\* Fault: the older token stays.
CreateToken_adds(h) ==
  LET t == Len(mails) + 1
      r == req[h]
  IN /\ r.at = "issuing"
     /\ t <= MaxTokens
     /\ token' = token \union {t}
     /\ tokenIndex' = [tokenIndex EXCEPT ![r.kind][r.account] = t]
     /\ mails' = Append(mails, [kind |-> r.kind, account |-> r.account, version |-> r.version])
     /\ Goto(h, r.then)
     /\ UNCHANGED <<pgVars, session, state, opened, resets>>

\* create_token.lua: the previous token of the account goes, used or not.
CreateToken(h) ==
  LET t == Len(mails) + 1
      r == req[h]
  IN /\ r.at = "issuing"
     /\ t <= MaxTokens
     /\ token' = (token \ {tokenIndex[r.kind][r.account]}) \union {t}
     /\ tokenIndex' = [tokenIndex EXCEPT ![r.kind][r.account] = t]
     /\ mails' = Append(mails, [kind |-> r.kind, account |-> r.account, version |-> r.version])
     /\ Goto(h, r.then)
     /\ UNCHANGED <<pgVars, session, state, opened, resets>>

\* GETDEL of token t; the handler goes on as r.
ConsumeToken(h, t, r) ==
  /\ req[h] = Idle
  /\ t \in token
  /\ token' = token \ {t}
  /\ Goto(h, r)
  /\ UNCHANGED <<pgVars, session, tokenIndex, state, history>>

VerifyEmail(h, t) ==
  /\ t \in DOMAIN mails
  /\ mails[t].kind = "verification"
  /\ ConsumeToken(h, t, [at |-> "verifying", account |-> mails[t].account])

SetEmailVerified(h) ==
  /\ req[h].at = "verifying"
  /\ account' = [account EXCEPT ![req[h].account].verified = TRUE]
  /\ Goto(h, Idle)
  /\ UNCHANGED <<identity, subjectLock, rowLock, redisVars, history>>

ResetPassword(h, t, p) ==
  /\ t \in DOMAIN mails
  /\ mails[t].kind = "reset"
  /\ ConsumeToken(h, t, [at |-> "checking", token |-> t, account |-> mails[t].account,
                         version |-> mails[t].version, pass |-> p])

CheckResetSubject(h) ==
  LET row == account[req[h].account] IN
  /\ req[h].at = "checking"
  /\ Goto(h, IF row.pass # None /\ row.version = req[h].version
             THEN [req[h] EXCEPT !.at = "changing"]
             ELSE Idle)
  /\ UNCHANGED <<pgVars, redisVars, history>>

\* Fault: UPDATE without the version in its WHERE.
SetPassword_unconditional(h) ==
  LET r == req[h] IN
  /\ r.at = "changing"
  /\ rowLock[r.account] = None
  /\ account' = [account EXCEPT ![r.account].pass = r.pass, ![r.account].version = @ + 1]
  /\ resets' = [resets EXCEPT ![r.account] = Append(@, r.token)]
  /\ Goto(h, Idle)
  /\ UNCHANGED <<identity, subjectLock, rowLock, redisVars, opened, mails>>

\* UPDATE ... WHERE auth_version = the one of the token: no row, no reset.
SetPassword(h) ==
  LET r == req[h] IN
  /\ r.at = "changing"
  /\ rowLock[r.account] = None
  /\ IF account[r.account].version = r.version /\ account[r.account].pass # None
     THEN /\ account' = [account EXCEPT ![r.account].pass = r.pass, ![r.account].version = @ + 1]
          /\ resets' = [resets EXCEPT ![r.account] = Append(@, r.token)]
     ELSE UNCHANGED <<account, resets>>
  /\ Goto(h, Idle)
  /\ UNCHANGED <<identity, subjectLock, rowLock, redisVars, opened, mails>>

-----------------------------------------------------------------------------
(* Sign in with Google, and linking an identity to an account *)

Released(lock, h) == [x \in DOMAIN lock |-> IF lock[x] = h THEN None ELSE lock[x]]

\* What Begin and checkLinkSession read of a session: it is there, for this
\* account and version, and the version is the current one.  Once this fails it
\* fails for good, so the two reads may be taken as one.
LinkSessionHolds(s, a, version) ==
  /\ session[s] = [account |-> a, version |-> version]
  /\ account[a].version = version

\* Begin for a login: any sid the browser has, or none
BeginLogin(h, x, s) ==
  /\ req[h] = Idle
  /\ state[x] = None
  /\ state' = [state EXCEPT ![x] = [purpose |-> "login", sid |-> s, account |-> None,
                                    version |-> 0, proof |-> None]]
  /\ UNCHANGED <<pgVars, session, token, tokenIndex, req, history>>

\* Begin for a link: the password once more, against the account as it is now
BeginLink(h, p) ==
  LET a == req[h].read.account IN
  /\ req[h].at = "authorized"
  /\ LinkSessionHolds(req[h].sid, a, req[h].read.version)
  /\ account[a].pass = p
  /\ \A i \in identity : i.account # a
  /\ Goto(h, [at |-> "saving",
              google |-> [purpose |-> "link", sid |-> req[h].sid, account |-> a,
                          version |-> account[a].version, proof |-> p]])
  /\ UNCHANGED <<pgVars, redisVars, history>>

SaveGoogleState(h, x) ==
  /\ req[h].at = "saving"
  /\ state[x] = None
  /\ state' = [state EXCEPT ![x] = req[h].google]
  /\ Goto(h, Idle)
  /\ UNCHANGED <<pgVars, session, token, tokenIndex, history>>

\* The callback: GETDEL of transaction x by a browser with cookie s.  Cancelled,
\* or from another browser or session, it is spent all the same.
TakeGoogleState(h, x, s) ==
  LET g == state[x] IN
  /\ req[h] = Idle
  /\ g # None
  /\ state' = [state EXCEPT ![x] = None]
  /\ Goto(h, IF /\ g.sid = s
                /\ g.purpose = "link" => LinkSessionHolds(g.sid, g.account, g.version)
             THEN [at |-> "exchanging", google |-> g]
             ELSE Idle)
  /\ UNCHANGED <<pgVars, session, token, tokenIndex, history>>

BurnGoogleState(x) ==
  /\ state[x] # None
  /\ state' = [state EXCEPT ![x] = None]
  /\ UNCHANGED <<pgVars, session, token, tokenIndex, req, history>>

\* Google answers with a subject; a link checks its session again.
Verify(h, subject) ==
  LET g == req[h].google IN
  /\ req[h].at = "exchanging"
  /\ Goto(h, IF g.purpose = "link" => LinkSessionHolds(g.sid, g.account, g.version)
             THEN [at |-> "claimed", google |-> g, subject |-> subject]
             ELSE Idle)
  /\ UNCHANGED <<pgVars, redisVars, history>>

\* Fault: nobody waits.
LockGoogleSubject_never(h) ==
  /\ req[h].at = "claimed"
  /\ Goto(h, [req[h] EXCEPT !.at = "locked"])
  /\ UNCHANGED <<pgVars, redisVars, history>>

LockGoogleSubject(h) ==
  /\ req[h].at = "claimed"
  /\ subjectLock[req[h].subject] = None
  /\ subjectLock' = [subjectLock EXCEPT ![req[h].subject] = h]
  /\ Goto(h, [req[h] EXCEPT !.at = "locked"])
  /\ UNCHANGED <<account, identity, rowLock, redisVars, history>>

GoogleAccountID(h) ==
  LET r     == req[h]
      known == {i \in identity : i.subject = r.subject}
  IN /\ r.at = "locked" /\ r.google.purpose = "login"
     /\ IF known = {}
        THEN Goto(h, [r EXCEPT !.at = "absent"]) /\ UNCHANGED subjectLock
        ELSE /\ \E i \in known : Goto(h, [at |-> "known", account |-> i.account,
                                          subject |-> r.subject, old |-> r.google.sid])
             /\ subjectLock' = Released(subjectLock, h)
     /\ UNCHANGED <<account, identity, rowLock, redisVars, history>>

AccountByID(h) ==
  /\ req[h].at = "known"
  /\ Goto(h, [at |-> "opening", account |-> req[h].account,
              version |-> account[req[h].account].version,
              by |-> req[h].subject, old |-> req[h].old])
  /\ UNCHANGED <<pgVars, redisVars, history>>

\* The account, its feed and the identity in one transaction; an e-mail that is
\* taken never links.
CreateGoogleAccount(h, a, trusted) ==
  LET r == req[h] IN
  /\ r.at = "absent"
  /\ IF AccountByEmail(EmailOf[r.subject]) # {}
     THEN Goto(h, [at |-> "refused", subject |-> r.subject]) /\ UNCHANGED <<account, identity>>
     ELSE /\ account[a] = None
          /\ account' = [account EXCEPT ![a] = [email |-> EmailOf[r.subject], pass |-> None,
                                                version |-> 1, verified |-> trusted]]
          /\ identity' = identity \union {[account |-> a, subject |-> r.subject]}
          /\ Goto(h, [at |-> "opening", account |-> a, version |-> 1, by |-> r.subject,
                      old |-> r.google.sid])
  /\ subjectLock' = Released(subjectLock, h)
  /\ UNCHANGED <<rowLock, redisVars, history>>

\* The redirect with "email_exists"
Refuse(h) ==
  /\ req[h].at = "refused"
  /\ Goto(h, Idle)
  /\ UNCHANGED <<pgVars, redisVars, history>>

\* The session the browser started with goes.
RotateSession(h) ==
  /\ req[h].at = "rotating"
  /\ session' = [session EXCEPT ![req[h].old] = None]
  /\ Goto(h, Idle)
  /\ UNCHANGED <<pgVars, token, tokenIndex, state, history>>

\* The deletion fails, or seems to: the new session is deleted, if that works.
RotationFails(h) ==
  /\ req[h].at = "rotating"
  /\ \E gone \in SUBSET {req[h].old, req[h].new} :
       session' = [s \in Sid |-> IF s \in gone THEN None ELSE session[s]]
  /\ Goto(h, Idle)
  /\ UNCHANGED <<pgVars, token, tokenIndex, state, history>>

\* Fault: the version is compared, and the row let go.
LockAccountAuthVersion_unlocked(h) ==
  LET g == req[h].google IN
  /\ req[h].at = "locked" /\ g.purpose = "link"
  /\ rowLock[g.account] = None
  /\ IF account[g.account].version = g.version
     THEN Goto(h, [req[h] EXCEPT !.at = "linking"]) /\ UNCHANGED subjectLock
     ELSE Goto(h, Idle) /\ subjectLock' = Released(subjectLock, h)
  /\ UNCHANGED <<account, identity, rowLock, redisVars, history>>

\* SELECT ... FOR UPDATE; another version than the one that was authenticated
\* ends the transaction.
LockAccountAuthVersion(h) ==
  LET g == req[h].google IN
  /\ req[h].at = "locked" /\ g.purpose = "link"
  /\ rowLock[g.account] = None
  /\ IF account[g.account].version = g.version
     THEN /\ rowLock' = [rowLock EXCEPT ![g.account] = h]
          /\ Goto(h, [req[h] EXCEPT !.at = "linking"])
          /\ UNCHANGED subjectLock
     ELSE /\ Goto(h, Idle)
          /\ subjectLock' = Released(subjectLock, h)
          /\ UNCHANGED rowLock
  /\ UNCHANGED <<account, identity, redisVars, history>>

\* A subject belongs to one account and an account has one subject: otherwise the
\* transaction is rolled back.
LinkGoogle(h) ==
  LET new == [account |-> req[h].google.account, subject |-> req[h].subject] IN
  /\ req[h].at = "linking"
  /\ identity' = IF \E i \in identity : i.account = new.account \/ i.subject = new.subject
                 THEN identity
                 ELSE identity \union {new}
  /\ subjectLock' = Released(subjectLock, h)
  /\ rowLock' = Released(rowLock, h)
  /\ Goto(h, Idle)
  /\ UNCHANGED <<account, redisVars, history>>

-----------------------------------------------------------------------------
(* Failures and time *)

\* A store does not answer, the context ends or the process dies: locks go.
fail(h) ==
  /\ req[h] # Idle
  /\ subjectLock' = Released(subjectLock, h)
  /\ rowLock' = Released(rowLock, h)
  /\ Goto(h, Idle)
  /\ UNCHANGED <<account, identity, redisVars, history>>

ExpireSession(s) ==
  /\ session[s] # None
  /\ session' = [session EXCEPT ![s] = None]
  /\ UNCHANGED <<pgVars, token, tokenIndex, state, req, history>>

\* A token and the index that points to it have one TTL.
ExpireToken(t) ==
  /\ t \in token
  /\ token' = token \ {t}
  /\ tokenIndex' = [k \in Kind |-> [a \in Account |->
                      IF tokenIndex[k][a] = t THEN 0 ELSE tokenIndex[k][a]]]
  /\ UNCHANGED <<pgVars, session, state, req, history>>

-----------------------------------------------------------------------------
Work(h) ==
  \/ \E a \in Account : CreateAccount(h, a)
  \/ createSession(h)
  \/ refreshSession(h)
  \/ ResolveSession(h)
  \/ Serve(h)
  \/ Logout(h)
  \/ CreateToken(h)
  \/ SetEmailVerified(h)
  \/ CheckResetSubject(h)
  \/ SetPassword(h)
  \/ \E p \in Password : BeginLink(h, p)
  \/ \E x \in DOMAIN state : SaveGoogleState(h, x)
  \/ \E subject \in Subject : Verify(h, subject)
  \/ LockGoogleSubject(h)
  \/ GoogleAccountID(h)
  \/ AccountByID(h)
  \/ \E a \in Account : \E trusted \in BOOLEAN : CreateGoogleAccount(h, a, trusted)
  \/ Refuse(h)
  \/ RotateSession(h)
  \/ RotationFails(h)
  \/ LockAccountAuthVersion(h)
  \/ LinkGoogle(h)
  \/ fail(h)

Request(h) ==
  \/ \E e \in Email, p \in Password : Signup(h, e, p)
  \/ \E e \in Email, p \in Password : Login(h, e, p)
  \/ \E s \in Issued : GetSession(h, s)
  \/ \E e \in Email : CreateVerificationToken(h, e)
  \/ \E e \in Email : CreateResetToken(h, e)
  \/ \E t \in DOMAIN mails : VerifyEmail(h, t)
  \/ \E t \in DOMAIN mails : \E p \in Password : ResetPassword(h, t, p)
  \/ \E x \in DOMAIN state : \E s \in Issued \union {0} : BeginLogin(h, x, s)
  \/ \E x \in DOMAIN state : \E s \in Issued \union {0} : TakeGoogleState(h, x, s)

Next ==
  \/ \E h \in Handler : Request(h)
  \/ \E h \in Handler : Work(h)
  \/ \E x \in DOMAIN state : BurnGoogleState(x)
  \/ \E s \in Issued : ExpireSession(s)
  \/ \E t \in token : ExpireToken(t)

Spec == Init /\ [][Next]_vars

-----------------------------------------------------------------------------
(* Properties *)

Creating  == [at : {"creating"}, email : Email, pass : Password]
Opening   == [at : {"opening"}, account : Account, version : Nat,
              by : Password \union Subject, old : Nat]
Rotating  == [at : {"rotating"}, old : Nat, new : Nat]
Entering  == [at : {"refreshing", "resolving", "authorized"}, sid : Nat, read : Session,
              since : Nat]
Issuing   == [at : {"issuing"}, kind : Kind, account : Account, version : Nat,
              then : {Idle} \union Opening]
Verifying == [at : {"verifying"}, account : Account]
Resetting == [at : {"checking", "changing"}, token : Nat, account : Account, version : Nat,
              pass : Password]
Leaving   == [at : {"saving", "exchanging"}, google : GoogleState]
Claiming  == [at : {"claimed", "locked", "absent", "linking"}, google : GoogleState,
              subject : Subject]
Knowing   == [at : {"known"}, account : Account, subject : Subject, old : Nat]
Refused   == [at : {"refused"}, subject : Subject]

\* What a handler remembers, by how far it is
ReqState ==
  {Idle} \union Creating \union Opening \union Rotating \union Entering \union Issuing
    \union Verifying \union Resetting \union Leaving \union Claiming \union Knowing
    \union Refused

TypeOK ==
  /\ account \in [Account -> AccountRow \union {None}]
  /\ identity \subseteq [account : Account, subject : Subject]
  /\ subjectLock \in [Subject -> Handler \union {None}]
  /\ rowLock \in [Account -> Handler \union {None}]
  /\ session \in [Sid -> Session \union {None}]
  /\ token \subseteq DOMAIN mails
  /\ tokenIndex \in [Kind -> [Account -> 0 .. Len(mails)]]
  /\ state \in [1 .. MaxStates -> GoogleState \union {None}]
  /\ req \in [Handler -> ReqState]
  /\ opened \in Seq(Password \union Subject)
  /\ Len(opened) <= MaxSessions
  /\ mails \in Seq(Mail)
  /\ resets \in [Account -> Seq(Nat)]

\* A session that would be let in now was opened with the credentials of now: the
\* account's present password, or a Google identity it has.  A login that
\* compared the old password may store its session after the reset: it is dead.
SessionsMatchCredentials ==
  \A s \in Issued :
    session[s] # None =>
      LET row == account[session[s].account] IN
      session[s].version = row.version =>
        \/ opened[s] = row.pass
        \/ [account |-> session[s].account, subject |-> opened[s]] \in identity

\* A session that is gone (logged out, rotated, expired) never comes back,
\* whichever requests were refreshing it.
EndedSessionsStayEnded ==
  [][\A s \in Issued : session[s] = None => session'[s] = None]_vars

\* No request that comes in after a password reset is let in with a session from
\* before it; the account is read after the session.
ResetRevokesSessions ==
  \A h \in Handler : req[h].at = "authorized" => req[h].read.version >= req[h].since

\* Every change of a password used up a token of its own, mailed to the account
\* while the password it replaced was the current one.
ResetsUseOwnToken ==
  \A a \in Accounts :
    /\ account[a].version = Len(resets[a]) + 1
    /\ \A n \in DOMAIN resets[a] :
         mails[resets[a][n]] = [kind |-> "reset", account |-> a, version |-> n]

\* At most the latest token of a kind works: a new mail makes the older ones
\* worthless, whatever was used or expired in between.
OnlyNewestTokenLives ==
  \A t \in token : \A u \in DOMAIN mails :
    u > t => mails[u].kind # mails[t].kind \/ mails[u].account # mails[t].account

\* An identity is attached to an existing account only while the password that
\* was given when linking began is still its password.
LinkIsReauthenticated ==
  [][\A i \in identity' \ identity :
       account[i.account] # None =>
         \E h \in Handler : /\ req[h].at = "linking" /\ req'[h] = Idle
                            /\ req[h].google.account = i.account
                            /\ req[h].google.proof = account'[i.account].pass]_vars

\* A Google sign-in is turned away for its e-mail only if no account has the
\* identity: of two first sign-ins at once both end up in the one account.
SignInFindsItsAccount ==
  [][\A h \in Handler :
       req[h].at = "absent" /\ req'[h].at = "refused" =>
         \A i \in identity : i.subject # req[h].subject]_vars
=============================================================================
