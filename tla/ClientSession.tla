---------------------------- MODULE ClientSession ----------------------------
(***************************************************************************)
(* Who is signed in, as the client believes it: the session store, the     *)
(* session guard and the pages that change it, in several tabs of one      *)
(* browser, over the session routes of the server.  Every tab has its own  *)
(* store; the cookie and the cached profile belong to the browser.         *)
(*                                                                         *)
(* A call carries the cookie of the moment it was sent.  Calls are served  *)
(* and their answers arrive in any order, and the cookie an answer sets    *)
(* lands when it arrives, whatever happened meanwhile.  The steps of a     *)
(* call are the code between two awaits.                                   *)
(***************************************************************************)
EXTENDS Naturals, Sequences, FiniteSets

CONSTANTS
  Tab, Account,
  MaxCalls,     \* bound: calls in flight
  MaxSessions,  \* bound: sessions the server ever opens
  MaxZone,      \* bound: saves of a time zone
  MaxGeneration, MaxRevision,  \* bounds: a page submits nothing at these
  None          \* null, undefined, a missing cookie

ASSUME BoundAssumption ==
  /\ MaxCalls \in Nat /\ MaxSessions \in Nat /\ MaxZone \in Nat
  /\ MaxGeneration \in Nat /\ MaxRevision \in Nat

\* A time zone is the number of the save that stored it.
Profile == [id : Account, zone : Nat]
Sid     == 1 .. MaxSessions
Kind    == {"hydrate", "refresh", "login", "signup", "logout", "reset", "verify", "save", "sync"}

ASSUME NoneAssumption == None \notin Account /\ None \notin Nat /\ None \notin Profile /\ None \notin Tab

VARIABLES
  status, account, generation, timezoneSaving,  \* the store of a tab
  revision,   \* hydrationRevision of a tab
  saving,     \* saveGeneration of a tab while saveInFlight, else None
  cookie,     \* the browser's sid
  cache,      \* accountCache 'current'
  session,    \* the server's sessions: account, live
  zone,       \* accounts.timezone
  calls,      \* calls in flight: a double submit is disabled, so no two are equal
  confirmed   \* history: per tab, the zone its last successful save showed

store   == <<status, account, generation, timezoneSaving, revision, saving>>
browser == <<cookie, cache>>
server  == <<session, zone>>
vars    == <<store, browser, server, calls, confirmed>>

\* of: the account a call is for, None for nobody; generation and revision as
\* captured; with: the cookie it carries; sets: the sid its answer sets, 0
\* clears, None keeps; strict: clearExpired; again: a second refresh follows.
Call == [tab : Tab \union {None}, kind : Kind, of : Account \union {None},
         generation : Nat, revision : Nat, strict : BOOLEAN, again : BOOLEAN,
         with : Sid \union {None}, at : {"sent", "answered", "caching", "reading", "expiring"},
         result : {"none", "ok", "unauthorized", "refused", "lost"},
         profile : Profile \union {None}, sets : Sid \union {0, None}]

Id(t) == IF account[t] = None THEN None ELSE account[t].id

Init ==
  /\ status         = [t \in Tab |-> "closed"]
  /\ account        = [t \in Tab |-> None]
  /\ generation     = [t \in Tab |-> 0]
  /\ timezoneSaving = [t \in Tab |-> FALSE]
  /\ revision       = [t \in Tab |-> 0]
  /\ saving         = [t \in Tab |-> None]
  /\ cookie    = None
  /\ cache     = None
  /\ session   = <<>>
  /\ zone      = [a \in Account |-> 0]
  /\ calls     = {}
  /\ confirmed = [t \in Tab |-> 0]
-----------------------------------------------------------------------------
\* Store updates.

\* applyAccount of hydrate: the generation moves only if the account does.
Adopt(t, p) ==
  /\ status'     = [status EXCEPT ![t] = "authenticated"]
  /\ account'    = [account EXCEPT ![t] = p]
  /\ generation' = [generation EXCEPT ![t] = @ + IF Id(t) = p.id THEN 0 ELSE 1]
  /\ confirmed'  = [confirmed EXCEPT ![t] = IF Id(t) = p.id THEN @ ELSE 0]
  /\ UNCHANGED timezoneSaving

\* The set of setAuthenticated and of clear: always a new generation.
Replace(t, s, p) ==
  /\ status'         = [status EXCEPT ![t] = s]
  /\ account'        = [account EXCEPT ![t] = p]
  /\ generation'     = [generation EXCEPT ![t] = @ + 1]
  /\ timezoneSaving' = [timezoneSaving EXCEPT ![t] = FALSE]
  /\ confirmed'      = [confirmed EXCEPT ![t] = 0]

setAuthenticated(t, p) == Replace(t, "authenticated", p)

clear(t) == Replace(t, "anonymous", None)

KeepLogin  == UNCHANGED <<status, account, generation, timezoneSaving, confirmed>>
KeepFlags  == UNCHANGED <<revision, saving>>

\* isCurrentSyncSession, and the assertCurrent of updateTimezone.
isCurrentSyncSession(c) ==
  /\ status[c.tab] = "authenticated"
  /\ Id(c.tab) = c.of
  /\ generation[c.tab] = c.generation

\* isCurrent of refreshCurrentAccount, without its revision.
RefreshIsCurrent(t, a, g) ==
  /\ status[t] = IF a = None THEN "loading" ELSE "authenticated"
  /\ Id(t) = a
  /\ generation[t] = g

\* Its whole guard, asserted again before every write.
RefreshAsserts_account(c) == RefreshIsCurrent(c.tab, c.of, c.generation)
RefreshAsserts(c) == RefreshIsCurrent(c.tab, c.of, c.generation) /\ c.revision = revision[c.tab]

\* isCurrent of hydrate.
HydrateIsCurrent_revision(c) == c.revision = revision[c.tab]
HydrateIsCurrent(c) == c.revision = revision[c.tab] /\ c.generation = generation[c.tab]
-----------------------------------------------------------------------------
\* Sending: request of api/client attaches the cookie of the moment.

\* A call keeps only what its continuation compares, and the cookie only on the
\* routes behind requireSession.
NewCall(t, kind, a, r, strict) ==
  [tab |-> t, kind |-> kind, of |-> a, strict |-> strict, again |-> FALSE,
   generation |-> IF kind \in {"login", "signup", "logout"} THEN 0 ELSE generation[t],
   revision   |-> IF kind \in {"hydrate", "refresh"} THEN r ELSE 0,
   with       |-> IF kind \in {"login", "signup", "reset", "verify"} THEN None ELSE cookie,
   at |-> "sent", result |-> "none", profile |-> None, sets |-> None]

MaySend(t) == /\ Cardinality(calls) < MaxCalls
              /\ generation[t] < MaxGeneration /\ revision[t] < MaxRevision

Send(c) == calls' = calls \union {c}

\* App: a tab is opened or reloaded and hydrates.  What the old page awaited is
\* gone, but its requests may still be served and set the cookie.
Open(t) ==
  /\ Cardinality(calls) < MaxCalls
  /\ status'         = [status EXCEPT ![t] = "loading"]
  /\ account'        = [account EXCEPT ![t] = None]
  /\ generation'     = [generation EXCEPT ![t] = 0]
  /\ timezoneSaving' = [timezoneSaving EXCEPT ![t] = FALSE]
  /\ revision'       = [revision EXCEPT ![t] = 1]
  /\ saving'         = [saving EXCEPT ![t] = None]
  /\ confirmed'      = [confirmed EXCEPT ![t] = 0]
  /\ calls' = {c \in calls : c.tab # t}
              \union {[c EXCEPT !.tab = None, !.generation = 0, !.revision = 0,
                                             !.strict = FALSE, !.again = FALSE] : c \in {d \in calls : d.tab = t /\ d.at \in {"sent", "answered"}}}
              \union {[NewCall(t, "hydrate", None, 1, FALSE) EXCEPT !.generation = 0]}
  /\ UNCHANGED <<browser, server>>

\* SignInPage.handleSubmit and SignUpPage.handleSubmit.
SubmitLogin(t, a) ==
  /\ MaySend(t) /\ status[t] # "closed"
  /\ \E kind \in {"login", "signup"} : Send(NewCall(t, kind, a, 0, FALSE))
  /\ UNCHANGED <<store, browser, server, confirmed>>

\* SettingsPage.handleSignOut.
handleSignOut(t) ==
  /\ MaySend(t) /\ status[t] = "authenticated"
  /\ Send(NewCall(t, "logout", None, 0, FALSE))
  /\ UNCHANGED <<store, browser, server, confirmed>>

\* ResetPasswordPage.handleSubmit: invalidatePendingHydration, then the request
\* for account a of the token.  of is the context's account, profile carries a,
\* strict is context.status = 'loading'.
SubmitReset(t, a) ==
  /\ MaySend(t) /\ status[t] # "closed"
  /\ revision' = [revision EXCEPT ![t] = @ + 1]
  /\ Send([NewCall(t, "reset", Id(t), 0, status[t] = "loading")
             EXCEPT !.profile = [id |-> a, zone |-> 0]])
  /\ UNCHANGED <<status, account, generation, timezoneSaving, saving, browser, server, confirmed>>

\* VerifyEmailPage.handleConfirm: without an account nothing follows.
handleConfirm(t) ==
  /\ MaySend(t) /\ status[t] = "authenticated"
  /\ Send(NewCall(t, "verify", Id(t), 0, FALSE))
  /\ UNCHANGED <<store, browser, server, confirmed>>

\* useSessionStore.updateTimezone, behind the form of TimezoneSetting.
updateTimezone(t) ==
  /\ MaySend(t) /\ status[t] = "authenticated"
  /\ saving[t] = None
  /\ ~timezoneSaving[t]
  /\ saving'         = [saving EXCEPT ![t] = generation[t]]
  /\ revision'       = [revision EXCEPT ![t] = @ + 1]
  /\ timezoneSaving' = [timezoneSaving EXCEPT ![t] = TRUE]
  /\ Send(NewCall(t, "save", Id(t), 0, FALSE))
  /\ UNCHANGED <<status, account, generation, browser, server, confirmed>>

\* bootstrapSync: registerDevice under the captured session.
bootstrapSync(t) ==
  /\ MaySend(t) /\ status[t] = "authenticated"
  /\ Send(NewCall(t, "sync", Id(t), 0, FALSE))
  /\ UNCHANGED <<store, browser, server, confirmed>>
-----------------------------------------------------------------------------
\* The server.

\* The number of the next save
IsNext(n) == (\A a \in Account : zone[a] < n) /\ (n = 1 \/ \E a \in Account : zone[a] = n - 1)

Known(c) == c.with # None /\ session[c.with].live

Answer(c, result, p, sets) ==
  calls' = (calls \ {c}) \union
           {[c EXCEPT !.at = "answered", !.result = result, !.profile = p, !.sets = sets,
                       !.with = None]}

\* expected_account_id.
Expected_trusts_cookie(c) == TRUE
Expected(c) == c.of = session[c.with].account

\* The routes behind requireSession, for the account of the session
Route(c, a) ==
  \/ /\ c.kind \in {"hydrate", "refresh"}
     /\ Answer(c, "ok", [id |-> a, zone |-> zone[a]], c.with)
     /\ UNCHANGED server
  \/ /\ c.kind = "logout"
     /\ session' = [session EXCEPT ![c.with].live = FALSE]
     /\ Answer(c, "ok", None, 0)
     /\ UNCHANGED zone
  \/ /\ c.kind \in {"save", "sync"} /\ ~Expected(c)
     /\ Answer(c, "refused", None, c.with)
     /\ UNCHANGED server
  \/ /\ c.kind = "sync" /\ Expected(c)
     /\ Answer(c, "ok", [id |-> a, zone |-> 0], c.with)
     /\ UNCHANGED server
  \/ /\ c.kind = "save" /\ Expected(c)
     /\ \E n \in 1 .. MaxZone :
          /\ IsNext(n)
          /\ zone' = [zone EXCEPT ![a] = n]
          /\ Answer(c, "ok", [id |-> a, zone |-> n], c.with)
     /\ UNCHANGED session

\* requireSession: an unknown session is refused and the cookie kept; every
\* other answer sets the cookie of its request again.
ServeSession(c) ==
  /\ c \in calls /\ c.at = "sent" /\ c.kind \in {"hydrate", "refresh", "save", "sync", "logout"}
  /\ IF Known(c)
       THEN Route(c, session[c.with].account)
       ELSE Answer(c, "unauthorized", None, None) /\ UNCHANGED server
  /\ UNCHANGED <<store, browser, confirmed>>

\* login, signup: a new session, at signup of a new account.  The profile is of the account that signed in.
ServeLogin(c) ==
  /\ c \in calls /\ c.at = "sent" /\ c.kind \in {"login", "signup"}
  /\ Len(session) < MaxSessions
  /\ c.kind = "signup" => \A s \in DOMAIN session : session[s].account # c.of
  /\ session' = Append(session, [account |-> c.of, live |-> TRUE])
  /\ Answer(c, "ok", [id |-> c.of, zone |-> zone[c.of]], Len(session) + 1)
  /\ UNCHANGED <<store, browser, zone, confirmed>>

\* verifyEmail, and resetPassword, which ends the sessions of its account.
ServeEmailAction(c) ==
  /\ c \in calls /\ c.at = "sent" /\ c.kind \in {"reset", "verify"}
  /\ session' = [s \in DOMAIN session |->
                  IF c.kind = "reset" /\ session[s].account = c.profile.id
                    THEN [session[s] EXCEPT !.live = FALSE] ELSE session[s]]
  /\ Answer(c, "ok", None, None)
  /\ UNCHANGED <<store, browser, zone, confirmed>>

\* A request or its answer is lost, or the server refuses it (wrong password,
\* expired link): for the pages it is the same.
Lose(c) ==
  /\ c.tab # None /\ c \in calls /\ c.at \in {"sent", "answered"}
  /\ c.result # "lost"
  /\ Answer(c, "lost", None, None)
  /\ UNCHANGED <<store, browser, server, confirmed>>

ExpireSession(s) ==
  /\ session[s].live
  /\ session' = [session EXCEPT ![s].live = FALSE]
  /\ UNCHANGED <<store, browser, zone, calls, confirmed>>
-----------------------------------------------------------------------------
\* Answers.  The cookie lands with the answer.

Arrived(c) ==
  /\ c \in calls /\ c.at = "answered"
  /\ cookie' = CASE c.sets = None -> cookie [] c.sets = 0 -> None [] OTHER -> c.sets

Done(c)       == calls' = calls \ {c}
Becomes(c, s) == calls' = (calls \ {c}) \union {[c EXCEPT !.at = s, !.sets = None]}

\* The page that asked is gone: the cookie of the answer may land or not.
ArriveNowhere(c) ==
  /\ c.tab = None /\ c \in calls /\ Done(c)
  /\ Arrived(c) \/ UNCHANGED cookie
  /\ UNCHANGED <<store, cache, server, confirmed>>

\* hydrate, from the answer of getSession: a 401 signs out, no answer is news
\* only while loading.
HydrateAnswer(c) ==
  /\ c.tab # None /\ c.kind = "hydrate" /\ Arrived(c)
  /\ \/ ~HydrateIsCurrent(c) /\ KeepLogin /\ Done(c)
     \/ HydrateIsCurrent(c) /\ c.result = "ok" /\ Adopt(c.tab, c.profile) /\ Done(c)
     \/ HydrateIsCurrent(c) /\ c.result = "unauthorized" /\ clear(c.tab) /\ Done(c)
     \/ /\ HydrateIsCurrent(c) /\ c.result \notin {"ok", "unauthorized"} /\ KeepLogin
        /\ IF status[c.tab] = "authenticated" THEN Done(c) ELSE Becomes(c, "reading")
  /\ KeepFlags /\ UNCHANGED <<cache, server>>

\* hydrate, offline, from the read of the cached profile.
HydrateFromCache(c) ==
  /\ c \in calls /\ c.at = "reading" /\ Done(c)
  /\ \/ ~HydrateIsCurrent(c) /\ KeepLogin
     \/ HydrateIsCurrent(c) /\ cache # None /\ Adopt(c.tab, cache)
     \/ HydrateIsCurrent(c) /\ cache = None /\ clear(c.tab)
  /\ KeepFlags /\ UNCHANGED <<browser, server>>

LoginAnswer(c) ==
  /\ c.tab # None /\ c.kind = "login" /\ Arrived(c) /\ Done(c)
  /\ IF c.result = "ok" THEN setAuthenticated(c.tab, c.profile) ELSE KeepLogin
  /\ KeepFlags /\ UNCHANGED <<cache, server>>

\* SignUpPage awaits hydrate, which sends with the cookie just set and does
\* nothing while a time zone is being saved.
SignupAnswer(c) ==
  /\ c.tab # None /\ c.kind = "signup" /\ Arrived(c)
  /\ IF c.result = "ok" /\ saving[c.tab] # generation[c.tab]
       THEN LET r == revision[c.tab] + 1 IN
            /\ revision' = [revision EXCEPT ![c.tab] = r]
            /\ calls' = (calls \ {c}) \union
                 {[NewCall(c.tab, "hydrate", None, r, FALSE) EXCEPT !.with = cookie']}
       ELSE Done(c) /\ UNCHANGED revision
  /\ KeepLogin /\ UNCHANGED <<saving, cache, server>>

\* handleSignOut, finally: whatever the answer was.
LogoutAnswer(c) ==
  /\ c.tab # None /\ c.kind = "logout" /\ Arrived(c) /\ Done(c)
  /\ cache' = None
  /\ clear(c.tab)
  /\ KeepFlags /\ UNCHANGED server

\* refreshEmailActionSession with the context captured by call c, if the
\* context had an account or clearExpired meets a loading tab.
StartRefresh(c, strict, again) ==
  LET r == revision[c.tab] + 1 IN
  IF (c.of # None \/ c.strict) /\ RefreshIsCurrent(c.tab, c.of, c.generation)
    THEN /\ revision' = [revision EXCEPT ![c.tab] = r]
         /\ calls' = (calls \ {c}) \union
              {[NewCall(c.tab, "refresh", c.of, r, strict) EXCEPT !.with = cookie', !.again = again]}
    ELSE Done(c) /\ UNCHANGED revision

\* After a verification only success refreshes.  After a reset success does,
\* and so does any outcome if the tab was loading when it was submitted; on
\* success that second refresh comes after the first.
RefreshFollows(c) == c.result = "ok" \/ c.strict

EmailActionAnswer(c) ==
  /\ c.tab # None /\ c.kind \in {"reset", "verify"} /\ Arrived(c)
  /\ IF RefreshFollows(c)
       THEN StartRefresh(c, c.kind = "reset", c.strict /\ c.result = "ok")
       ELSE Done(c) /\ UNCHANGED revision
  /\ KeepLogin /\ UNCHANGED <<saving, cache, server>>

\* refreshCurrentAccount, from the answer of getSession: a profile for a tab that
\* had none, a newer profile of the same account, or with clearExpired the end of
\* a session.
TakeProfile(c) ==
  /\ RefreshAsserts(c) /\ c.result = "ok" /\ c.of = None
  /\ Adopt(c.tab, c.profile) /\ Done(c) /\ UNCHANGED revision

RenewProfile(c) ==
  /\ RefreshAsserts(c) /\ c.result = "ok" /\ c.of # None /\ c.of = c.profile.id
  /\ account' = [account EXCEPT ![c.tab] = c.profile]
  /\ UNCHANGED <<status, generation, timezoneSaving, confirmed, revision>>
  /\ Becomes(c, "caching")

Expires(c) == c.result # "ok" /\ c.strict /\ (c.of = None \/ c.result = "unauthorized")

RefreshAnswer(c) ==
  /\ c.tab # None /\ c.kind = "refresh" /\ Arrived(c)
  /\ \/ ~RefreshAsserts(c) /\ c.again /\ KeepLogin /\ StartRefresh(c, TRUE, FALSE)
     \/ ~RefreshAsserts(c) /\ ~c.again /\ KeepLogin /\ Done(c) /\ UNCHANGED revision
     \/ TakeProfile(c)
     \/ RenewProfile(c)
     \/ RefreshAsserts(c) /\ Expires(c) /\ clear(c.tab) /\ Done(c) /\ UNCHANGED revision
     \/ /\ RefreshAsserts(c) /\ ~Expires(c)
        /\ c.result = "ok" => c.of # None /\ c.of # c.profile.id
        /\ KeepLogin /\ Done(c) /\ UNCHANGED revision
  /\ UNCHANGED <<saving, cache, server>>

\* The finally of updateTimezone.
ReleaseSave_of_session(c) ==
  /\ saving' = [saving EXCEPT ![c.tab] = IF generation[c.tab] = c.generation THEN None ELSE @]
  /\ timezoneSaving' = [timezoneSaving EXCEPT
                          ![c.tab] = @ /\ generation[c.tab] # c.generation]
ReleaseSave(c) ==
  /\ saving' = [saving EXCEPT ![c.tab] = None]
  /\ timezoneSaving' = [timezoneSaving EXCEPT
                          ![c.tab] = @ /\ generation[c.tab] # c.generation]

\* updateTimezone, from the answer of the server.
SaveAnswer(c) ==
  LET t == c.tab
  IN /\ t # None /\ c.kind = "save" /\ Arrived(c)
     /\ IF c.result = "ok" /\ isCurrentSyncSession(c) /\ c.profile.id = c.of
          THEN /\ account'   = [account EXCEPT ![t] = c.profile]
               /\ revision'  = [revision EXCEPT ![t] = @ + 1]
               /\ confirmed' = [confirmed EXCEPT ![t] = c.profile.zone]
               /\ Becomes(c, "caching")
               /\ UNCHANGED <<timezoneSaving, saving>>
          ELSE ReleaseSave(c) /\ Done(c) /\ UNCHANGED <<account, revision, confirmed>>
     /\ UNCHANGED <<status, generation, cache, server>>

\* bootstrapSync, from the answer of registerDevice.  A refused session expires
\* after the write of the sync metadata.
SyncAnswer(c) ==
  /\ c.tab # None /\ c.kind = "sync" /\ Arrived(c)
  /\ \/ isCurrentSyncSession(c) /\ c.result = "ok" /\ Becomes(c, "caching")
     \/ isCurrentSyncSession(c) /\ c.result = "unauthorized" /\ Becomes(c, "expiring")
     \/ ~isCurrentSyncSession(c) /\ Done(c)
     \/ c.result \notin {"ok", "unauthorized"} /\ Done(c)
  /\ KeepLogin /\ KeepFlags /\ UNCHANGED <<cache, server>>

\* cacheSavedAccount and the transaction of bootstrapSync: written only if the
\* call is still current when the transaction ends, and storage may refuse it.
WriteAsserts_later(c) == c.kind = "save" \/ isCurrentSyncSession(c)
WriteAsserts(c) == IF c.kind = "refresh" THEN RefreshAsserts(c) ELSE isCurrentSyncSession(c)

WriteCache(c) ==
  /\ c \in calls /\ c.at = "caching" /\ Done(c)
  /\ \/ /\ WriteAsserts(c)
        /\ cache' = IF c.kind = "sync" THEN [id |-> c.of, zone |-> account[c.tab].zone] ELSE c.profile
     \/ UNCHANGED cache
  /\ IF c.kind = "save" THEN ReleaseSave(c) ELSE UNCHANGED <<timezoneSaving, saving>>
  /\ UNCHANGED <<status, account, generation, revision, cookie, server, confirmed>>

\* expireSyncSession.
expireSyncSession(c) ==
  /\ c \in calls /\ c.at = "expiring" /\ Done(c)
  /\ IF isCurrentSyncSession(c)
       THEN /\ clear(c.tab)
            /\ cache' = IF cache # None /\ cache.id = c.of THEN None ELSE cache
       ELSE KeepLogin /\ UNCHANGED cache
  /\ KeepFlags /\ UNCHANGED <<cookie, server>>
-----------------------------------------------------------------------------
Submit(t) ==
  \/ Open(t) \/ handleSignOut(t) \/ handleConfirm(t) \/ updateTimezone(t) \/ bootstrapSync(t)
  \/ \E a \in Account : SubmitLogin(t, a) \/ SubmitReset(t, a)

Serve(c) == ServeSession(c) \/ ServeLogin(c) \/ ServeEmailAction(c) \/ Lose(c)

Continue(c) ==
  \/ ArriveNowhere(c) \/ HydrateAnswer(c) \/ HydrateFromCache(c) \/ LoginAnswer(c)
  \/ SignupAnswer(c) \/ LogoutAnswer(c) \/ EmailActionAnswer(c) \/ RefreshAnswer(c)
  \/ SaveAnswer(c) \/ SyncAnswer(c) \/ WriteCache(c) \/ expireSyncSession(c)

Next ==
  \/ \E t \in Tab : Submit(t)
  \/ \E c \in calls : Serve(c) \/ Continue(c)
  \/ \E s \in DOMAIN session : ExpireSession(s)

Spec == Init /\ [][Next]_vars
-----------------------------------------------------------------------------
\* Types, and what the pages rely on: a shown account is a signed-in tab, and a
\* closed tab awaits nothing.
TypeOK ==
  /\ status \in [Tab -> {"closed", "loading", "authenticated", "anonymous"}]
  /\ account \in [Tab -> Profile \union {None}]
  /\ generation \in [Tab -> Nat] /\ revision \in [Tab -> Nat]
  /\ saving \in [Tab -> Nat \union {None}] /\ timezoneSaving \in [Tab -> BOOLEAN]
  /\ cookie \in Sid \union {None} /\ cache \in Profile \union {None}
  /\ session \in Seq([account : Account, live : BOOLEAN])
  /\ zone \in [Account -> Nat] /\ calls \subseteq Call /\ confirmed \in [Tab -> Nat]
  /\ \A t \in Tab : account[t] # None <=> status[t] = "authenticated"
  /\ \A c \in calls : c.tab # None => status[c.tab] # "closed"

\* Only a sign-in, a sign-out or an answer to a question of the session now on
\* screen changes who is signed in: an answer that outlived its session, or one
\* for another tab, switches nobody (the guards of hydrate,
\* refreshCurrentAccount and expireSyncSession).
OldAnswersSwitchNobody ==
  [][\A t \in Tab :
       <<status'[t], Id(t)'>> # <<status[t], Id(t)>> =>
         \/ status'[t] = "loading"
         \/ \E c \in calls \ calls' :
              c.tab = t /\ (c.kind \in {"login", "logout"} \/ c.generation = generation[t])]_vars

\* The time zone of an account changes only through a save made while that
\* account was on screen, even if a late answer has put the cookie of another
\* session back (expected_account_id of updateTimezone).
SavesReachOwnAccount ==
  [][\A a \in Account : zone'[a] # zone[a] =>
       \E c \in calls \ calls' : c.kind = "save" /\ c.of = a]_vars

\* A tab that has shown its saved time zone never shows an older one in that
\* session: a getSession asked for before the save ended is out of date
\* (hydrationRevision).
SavedZoneStays ==
  \A t \in Tab : status[t] = "authenticated" => account[t].zone >= confirmed[t]

\* With nobody signed in and no cached profile, none is cached: the transaction
\* a save, a refresh or a sync left behind finds its session gone (assertCurrent
\* in cacheSavedAccount and bootstrapSync).
NothingCachedForNobody ==
  [][(\A t \in Tab : status[t] # "authenticated") /\ cache = None => cache' = None]_vars

\* A tab that shows the loading screen awaits something that will end it: a
\* password reset that overtakes the first hydration takes over its duty, also
\* when it fails (invalidatePendingHydration and the finally of handleSubmit).
StartupIsPending ==
  \A t \in Tab : status[t] = "loading" =>
    \E c \in calls :
      /\ c.tab = t /\ c.generation = generation[t]
      /\ \/ c.kind \in {"hydrate", "refresh"} /\ c.of = None /\ c.revision = revision[t]
         \/ c.kind = "refresh" /\ c.again
         \/ c.kind = "reset" /\ c.strict

\* The lock on saving a time zone is held exactly while a save is in flight,
\* whatever logins and logouts happened meanwhile, and the form is disabled only
\* by a save of its own session (saveInFlight, timezoneSaving).
SaveLockIsReleased ==
  \A t \in Tab :
    /\ saving[t] # None <=> \E c \in calls : c.tab = t /\ c.kind = "save"
    /\ timezoneSaving[t] <=> saving[t] = generation[t]
=============================================================================
