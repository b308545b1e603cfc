------------------------- MODULE ClientSessionProofs -------------------------
(***************************************************************************)
(* What ClientSession promises for any number of tabs, accounts and calls  *)
(* in flight: the types, and that old answers switch nobody, save nothing  *)
(* for another account and cache nothing for nobody; then what one tab may *)
(* rely on.                                                                *)
(***************************************************************************)
EXTENDS ClientSession, TLAPS

\* The cookie names a session there is.
SessionsExist == Len(session) <= MaxSessions /\ cookie \in DOMAIN session \union {None}

\* What a call is, whatever the stores have become
WellFormed(c) ==
  /\ c.with \in DOMAIN session \union {None} /\ c.sets \in DOMAIN session \union {0, None}
  /\ c.kind \in {"login", "signup"} => c.of # None
  /\ c.kind = "reset" /\ c.at = "sent" => c.profile # None
  /\ c.at \notin {"sent", "answered"} => c.tab # None
  /\ c.tab # None =>
       /\ status[c.tab] # "closed"
       /\ c.kind = "hydrate" => c.of = None
       /\ c.kind = "refresh" /\ c.of = None => c.strict
       /\ c.kind = "reset" /\ c.strict => c.of = None
       /\ c.kind = "verify" => c.of # None /\ ~c.strict
       /\ c.again => c.kind = "refresh" /\ c.of = None
       /\ c.at = "caching" => c.kind \in {"refresh", "save", "sync"} /\ c.of # None
       /\ c.at = "caching" /\ c.kind # "sync" => c.profile # None
       /\ c.at = "reading" => c.kind = "hydrate"
       /\ c.at = "expiring" => c.kind = "sync"
       /\ c.result = "ok" /\ c.kind \in {"hydrate", "refresh", "login", "save"} =>
            c.profile # None
CallsFit == \A c \in calls : WellFormed(c)

Types == TypeOK /\ SessionsExist /\ CallsFit

-----------------------------------------------------------------------------
(* Calls *)

\* A sequence of sessions with other sessions in the same places
LEMMA SamePlaces ==
  ASSUME NEW S, NEW s \in Seq(S), NEW r \in [DOMAIN s -> S]
  PROVE  r \in Seq(S) /\ Len(r) = Len(s) /\ DOMAIN r = DOMAIN s
<1>1. Len(s) \in Nat /\ DOMAIN s = 1 .. Len(s)
  OBVIOUS
<1>2. r \in [1 .. Len(s) -> S]
  BY <1>1
<1> QED BY <1>1, <1>2

LEMMA Element ==
  ASSUME NEW S, NEW s \in Seq(S), NEW i \in DOMAIN s
  PROVE  s[i] \in S
<1>1. s \in [1 .. Len(s) -> S]
  OBVIOUS
<1> QED BY <1>1

LEMMA SessionIds ==
  ASSUME TypeOK, SessionsExist
  PROVE  DOMAIN session \subseteq Sid
<1>1. session \in Seq([account : Account, live : BOOLEAN])
  BY DEF TypeOK
<1>2. DOMAIN session = 1 .. Len(session) /\ Len(session) \in Nat
  BY <1>1
<1> QED BY <1>2, BoundAssumption DEF SessionsExist, Sid

\* A call goes on: nothing it captured changes.
Onward(c, e) ==
  /\ e.tab = c.tab /\ e.kind = c.kind /\ e.of = c.of /\ e.generation = c.generation
  /\ e.revision = c.revision /\ e.strict = c.strict /\ e.again = c.again

\* ... as e, answered
Answered(c, e, result, p, s) ==
  /\ calls' = (calls \ {c}) \union {e} /\ Onward(c, e)
  /\ e.at = "answered" /\ e.result = result /\ e.profile = p /\ e.sets = s /\ e.with = None

LEMMA AnswerMoves ==
  ASSUME TypeOK, NEW c \in calls, c.at \in {"sent", "answered"},
         NEW result \in {"ok", "unauthorized", "refused", "lost"},
         NEW p \in Profile \union {None}, NEW s \in Sid \union {0, None},
         Answer(c, result, p, s)
  PROVE  \E e \in Call : Answered(c, e, result, p, s)
<1>1. c \in Call
  BY DEF TypeOK
<1> DEFINE e == [c EXCEPT !.at = "answered", !.result = result, !.profile = p, !.sets = s,
                          !.with = None]
<1>2. e \in Call
  BY <1>1 DEF Call
<1>3. Onward(c, e) /\ e.at = "answered" /\ e.result = result /\ e.profile = p
  BY <1>1 DEF Call, Onward
<1>4. e.sets = s /\ e.with = None
  BY <1>1 DEF Call
<1>5. calls' = (calls \ {c}) \union {e}
  BY DEF Answer
<1> QED BY <1>2, <1>3, <1>4, <1>5 DEF Answered

\* ... as e, which waits for its tab's storage
Waits(c, e, s) ==
  /\ calls' = (calls \ {c}) \union {e} /\ Onward(c, e)
  /\ e.at = s /\ e.result = c.result /\ e.profile = c.profile /\ e.sets = None /\ e.with = c.with

LEMMA BecomesMoves ==
  ASSUME TypeOK, NEW c \in calls, NEW s \in {"caching", "reading", "expiring"}, Becomes(c, s)
  PROVE  \E e \in Call : Waits(c, e, s)
<1> DEFINE e == [c EXCEPT !.at = s, !.sets = None]
<1>1. c \in Call
  BY DEF TypeOK
<1>2. e \in Call /\ Onward(c, e) /\ e.at = s /\ e.result = c.result /\ e.profile = c.profile
      /\ e.sets = None /\ e.with = c.with
  BY <1>1 DEF Call, Onward
<1>3. calls' = (calls \ {c}) \union {e}
  BY DEF Becomes
<1> QED BY <1>2, <1>3 DEF Waits

\* With at most one call new, and no session or tab gone, the calls are what they were.
LEMMA CallsKept ==
  ASSUME Types, NEW e \in Call, WellFormed(e)', calls' \subseteq calls \union {e},
         DOMAIN session \subseteq DOMAIN session',
         \A t \in Tab : status[t] # "closed" => status'[t] # "closed"
  PROVE  /\ calls' \subseteq Call /\ CallsFit'
         /\ \A c \in calls' : c.tab # None => status'[c.tab] # "closed"
<1> SUFFICES ASSUME NEW c \in calls'
             PROVE  c \in Call /\ WellFormed(c)'
  BY DEF CallsFit, WellFormed
<1>1. CASE c = e
  BY <1>1
<1>2. CASE c \in calls
  <2>1. c \in Call /\ WellFormed(c)
    BY <1>2 DEF Types, TypeOK, CallsFit
  <2>2. c.tab # None => c.tab \in Tab
    BY <2>1 DEF Call
  <2> QED BY <2>1, <2>2 DEF WellFormed
<1> QED BY <1>1, <1>2

\* The same without a new call
LEMMA CallsLeft ==
  ASSUME Types, calls' \subseteq calls, DOMAIN session \subseteq DOMAIN session',
         \A t \in Tab : status[t] # "closed" => status'[t] # "closed"
  PROVE  /\ calls' \subseteq Call /\ CallsFit'
         /\ \A c \in calls' : c.tab # None => status'[c.tab] # "closed"
<1> SUFFICES ASSUME NEW c \in calls'
             PROVE  c \in Call /\ WellFormed(c)'
  BY DEF CallsFit, WellFormed
<1>1. c \in Call /\ WellFormed(c)
  BY DEF Types, TypeOK, CallsFit
<1>2. c.tab # None => c.tab \in Tab
  BY <1>1 DEF Call
<1> QED BY <1>1, <1>2 DEF WellFormed

-----------------------------------------------------------------------------
(* Types: the pages *)

LEMMA OpenTypes ==
  ASSUME Types, NEW t \in Tab, Open(t)
  PROVE  Types'
<1> USE DEF Types
<1>1. PICK new : new = [NewCall(t, "hydrate", None, 1, FALSE) EXCEPT !.generation = 0]
  OBVIOUS
<1>2. new \in Call /\ new.with \in {None, cookie} /\ new.tab = t /\ new.at = "sent"
      /\ new.kind = "hydrate" /\ new.of = None /\ ~new.again /\ new.result = "none"
      /\ new.sets = None
  BY <1>1 DEF NewCall, Call, Kind, TypeOK, SessionsExist
<1> DEFINE Old(c) == [c EXCEPT !.tab = None, !.generation = 0, !.revision = 0,
                               !.strict = FALSE, !.again = FALSE]
<1>3. \A c \in calls : Old(c) \in Call /\ Old(c).tab = None /\ Old(c).with = c.with
        /\ Old(c).sets = c.sets /\ Old(c).kind = c.kind /\ Old(c).of = c.of
        /\ Old(c).at = c.at /\ Old(c).profile = c.profile
  BY DEF Call, TypeOK
<1>4. \A c \in calls' : \/ c \in calls /\ c.tab # t
                        \/ \E d \in calls : c = Old(d) /\ d.at \in {"sent", "answered"}
                        \/ c = new
  BY <1>1 DEF Open
<1> HIDE DEF Old
<1>5. /\ status' = [status EXCEPT ![t] = "loading"] /\ session' = session /\ cookie' = cookie
  BY DEF Open, browser, server
<1>6. WellFormed(new)'
  BY <1>2, <1>5 DEF WellFormed, SessionsExist, TypeOK
<1>7. \A c \in calls' : c \in Call /\ WellFormed(c)'
  <2> SUFFICES ASSUME NEW c \in calls'
               PROVE  c \in Call /\ WellFormed(c)'
    OBVIOUS
  <2>1. CASE c = new
    BY <1>2, <1>6, <2>1
  <2>2. CASE \E d \in calls : c = Old(d) /\ d.at \in {"sent", "answered"}
    BY <1>3, <1>5, <2>2 DEF WellFormed, CallsFit
  <2>3. CASE c \in calls /\ c.tab # t
    BY <1>5, <2>3 DEF WellFormed, CallsFit, TypeOK, Call
  <2> QED BY <1>4, <2>1, <2>2, <2>3
<1>8. \A c \in calls' : c.tab # None => status'[c.tab] # "closed"
  BY <1>7 DEF WellFormed
<1>9. /\ status' \in [Tab -> {"closed", "loading", "authenticated", "anonymous"}]
      /\ account' \in [Tab -> Profile \union {None}]
      /\ generation' \in [Tab -> Nat] /\ revision' \in [Tab -> Nat]
      /\ saving' \in [Tab -> Nat \union {None}] /\ timezoneSaving' \in [Tab -> BOOLEAN]
      /\ confirmed' \in [Tab -> Nat]
      /\ \A u \in Tab : account'[u] # None <=> status'[u] = "authenticated"
  BY DEF TypeOK, Open
<1>10. calls' \subseteq Call
  BY <1>7
<1>11. TypeOK'
  BY <1>8, <1>9, <1>10 DEF TypeOK, Open, browser, server
<1> QED BY <1>5, <1>7, <1>11 DEF SessionsExist, CallsFit

\* What a page may send
Sound(e, t) ==
  /\ e.tab = t /\ e.with \in {None, cookie} /\ e.sets = None /\ e.at = "sent" /\ e.result = "none"
  /\ ~e.again
  /\ e.kind \notin {"hydrate", "refresh"}
  /\ e.kind \in {"login", "signup"} => e.of # None
  /\ e.kind = "reset" => e.profile # None /\ (e.strict => e.of = None)
  /\ e.kind = "verify" => e.of # None /\ ~e.strict

LEMMA SentTypes ==
  ASSUME Types, NEW t \in Tab, status[t] # "closed", NEW e \in Call, Sound(e, t), Send(e),
         UNCHANGED <<session, cookie, cache, zone, status, account, generation, confirmed>>,
         revision' \in [Tab -> Nat], saving' \in [Tab -> Nat \union {None}],
         timezoneSaving' \in [Tab -> BOOLEAN]
  PROVE  Types'
<1> USE DEF Types
<1>1. WellFormed(e)'
  BY DEF WellFormed, Sound, SessionsExist
<1>2. calls' = calls \union {e}
  BY DEF Send
<1>3. /\ calls' \subseteq Call /\ CallsFit'
      /\ \A c \in calls' : c.tab # None => status'[c.tab] # "closed"
  BY <1>1, <1>2, CallsKept
<1>4. TypeOK'
  BY <1>3 DEF TypeOK
<1> QED BY <1>3, <1>4 DEF SessionsExist

LEMMA IdType ==
  ASSUME TypeOK, NEW t \in Tab
  PROVE  /\ Id(t) \in Account \union {None}
         /\ status[t] = "authenticated" <=> Id(t) # None
BY NoneAssumption DEF TypeOK, Id, Profile

LEMMA SubmitTypes ==
  ASSUME Types, NEW t \in Tab,
         \/ \E a \in Account : SubmitLogin(t, a) \/ SubmitReset(t, a)
         \/ handleSignOut(t) \/ handleConfirm(t) \/ updateTimezone(t) \/ bootstrapSync(t)
  PROVE  Types'
<1> USE DEF Types
<1>0. /\ revision \in [Tab -> Nat] /\ saving \in [Tab -> Nat \union {None}]
      /\ timezoneSaving \in [Tab -> BOOLEAN] /\ generation \in [Tab -> Nat]
  BY DEF TypeOK
<1>id. Id(t) \in Account \union {None} /\ (status[t] = "authenticated" <=> Id(t) # None)
  BY IdType
<1>1. ASSUME NEW a \in Account, SubmitLogin(t, a)
      PROVE  Types'
  <2>1. PICK kind \in {"login", "signup"} : Send(NewCall(t, kind, a, 0, FALSE))
    BY <1>1 DEF SubmitLogin
  <2>2. PICK e : e = NewCall(t, kind, a, 0, FALSE)
    OBVIOUS
  <2>3. e \in Call /\ Sound(e, t)
    BY <2>2, NoneAssumption DEF NewCall, Call, Kind, Sound, TypeOK, SessionsExist
  <2>4. /\ status[t] # "closed"
        /\ UNCHANGED <<session, cookie, cache, zone, status, account, generation, confirmed>>
        /\ UNCHANGED <<revision, saving, timezoneSaving>>
    BY <1>1 DEF SubmitLogin, store, browser, server
  <2> QED BY <1>0, <2>1, <2>2, <2>3, <2>4, SentTypes
<1>2. ASSUME NEW a \in Account, SubmitReset(t, a)
      PROVE  Types'
  <2>1. PICK n : n = NewCall(t, "reset", Id(t), 0, status[t] = "loading")
    OBVIOUS
  <2>2. PICK e : e = [n EXCEPT !.profile = [id |-> a, zone |-> 0]]
    OBVIOUS
  <2>3. (status[t] = "loading") \in BOOLEAN
    OBVIOUS
  <2>4. /\ n \in Call /\ n.tab = t /\ n.kind = "reset" /\ n.of = Id(t) /\ ~n.again
        /\ n.strict = (status[t] = "loading")
        /\ n.with \in {None, cookie} /\ n.at = "sent" /\ n.result = "none" /\ n.sets = None
    BY <1>id, <2>1, <2>3 DEF NewCall, Call, Kind, TypeOK, SessionsExist
  <2>5. [id |-> a, zone |-> 0] \in Profile
    BY DEF Profile
  <2>6. e \in Call
    BY <2>2, <2>4, <2>5 DEF Call
  <2>7. /\ e.tab = t /\ e.kind = "reset" /\ e.of = Id(t) /\ ~e.again /\ e.strict = n.strict
        /\ e.with = n.with /\ e.at = "sent" /\ e.result = "none" /\ e.sets = None
        /\ e.profile = [id |-> a, zone |-> 0]
    BY <2>2, <2>4 DEF Call
  <2>8. e.profile # None
    BY <2>5, <2>7, NoneAssumption
  <2>9. Sound(e, t)
    BY <1>id, <2>4, <2>7, <2>8 DEF Sound
  <2>10. /\ status[t] # "closed" /\ Send(e)
         /\ UNCHANGED <<session, cookie, cache, zone, status, account, generation, confirmed>>
         /\ UNCHANGED <<saving, timezoneSaving>>
         /\ revision' = [revision EXCEPT ![t] = @ + 1]
    BY <1>2, <2>1, <2>2 DEF SubmitReset, browser, server
  <2>11. revision' \in [Tab -> Nat]
    BY <1>0, <2>10
  <2> QED BY <1>0, <2>6, <2>9, <2>10, <2>11, SentTypes
<1>3. CASE handleSignOut(t)
  <2>1. PICK e : e = NewCall(t, "logout", None, 0, FALSE)
    OBVIOUS
  <2>2. e \in Call /\ Sound(e, t)
    BY <2>1 DEF NewCall, Call, Kind, Sound, TypeOK, SessionsExist
  <2>3. /\ status[t] # "closed" /\ Send(e)
        /\ UNCHANGED <<session, cookie, cache, zone, status, account, generation, confirmed>>
        /\ UNCHANGED <<revision, saving, timezoneSaving>>
    BY <1>3, <2>1 DEF handleSignOut, store, browser, server
  <2> QED BY <1>0, <2>2, <2>3, SentTypes
<1>4. CASE handleConfirm(t)
  <2>1. PICK e : e = NewCall(t, "verify", Id(t), 0, FALSE)
    OBVIOUS
  <2>0. Id(t) # None
    BY <1>id, <1>4 DEF handleConfirm
  <2>2. e \in Call /\ Sound(e, t)
    BY <1>id, <2>0, <2>1 DEF NewCall, Call, Kind, Sound, TypeOK, SessionsExist
  <2>3. /\ status[t] # "closed" /\ Send(e)
        /\ UNCHANGED <<session, cookie, cache, zone, status, account, generation, confirmed>>
        /\ UNCHANGED <<revision, saving, timezoneSaving>>
    BY <1>4, <2>1 DEF handleConfirm, store, browser, server
  <2> QED BY <1>0, <2>2, <2>3, SentTypes
<1>5. CASE updateTimezone(t)
  <2>1. PICK e : e = NewCall(t, "save", Id(t), 0, FALSE)
    OBVIOUS
  <2>2. e \in Call /\ Sound(e, t)
    BY <1>id, <2>1 DEF NewCall, Call, Kind, Sound, TypeOK, SessionsExist
  <2>3. /\ status[t] # "closed" /\ Send(e)
        /\ UNCHANGED <<session, cookie, cache, zone, status, account, generation, confirmed>>
        /\ saving'         = [saving EXCEPT ![t] = generation[t]]
        /\ revision'       = [revision EXCEPT ![t] = @ + 1]
        /\ timezoneSaving' = [timezoneSaving EXCEPT ![t] = TRUE]
    BY <1>5, <2>1 DEF updateTimezone, browser, server
  <2>4. /\ revision' \in [Tab -> Nat] /\ saving' \in [Tab -> Nat \union {None}]
        /\ timezoneSaving' \in [Tab -> BOOLEAN]
    BY <1>0, <2>3
  <2> QED BY <2>2, <2>3, <2>4, SentTypes
<1>6. CASE bootstrapSync(t)
  <2>1. PICK e : e = NewCall(t, "sync", Id(t), 0, FALSE)
    OBVIOUS
  <2>2. e \in Call /\ Sound(e, t)
    BY <1>id, <2>1 DEF NewCall, Call, Kind, Sound, TypeOK, SessionsExist
  <2>3. /\ status[t] # "closed" /\ Send(e)
        /\ UNCHANGED <<session, cookie, cache, zone, status, account, generation, confirmed>>
        /\ UNCHANGED <<revision, saving, timezoneSaving>>
    BY <1>6, <2>1 DEF bootstrapSync, store, browser, server
  <2> QED BY <1>0, <2>2, <2>3, SentTypes
<1> QED BY <1>1, <1>2, <1>3, <1>4, <1>5, <1>6
-----------------------------------------------------------------------------
(* Types: the server *)

LEMMA AnsweredTypes ==
  ASSUME Types, NEW c \in calls, c.at \in {"sent", "answered"},
         NEW result \in {"ok", "unauthorized", "refused", "lost"},
         NEW p \in Profile \union {None}, NEW s \in DOMAIN session' \union {0, None},
         Answer(c, result, p, s),
         result = "ok" /\ c.kind \in {"hydrate", "refresh", "login", "save"} => p # None,
         UNCHANGED <<store, browser, confirmed>>, zone' \in [Account -> Nat],
         session' \in Seq([account : Account, live : BOOLEAN]), Len(session') <= MaxSessions,
         DOMAIN session \subseteq DOMAIN session'
  PROVE  Types'
<1> USE DEF Types
<1>1. DOMAIN session' \subseteq Sid
  BY BoundAssumption DEF Sid
<1>2. s \in Sid \union {0, None}
  BY <1>1
<1>3. WellFormed(c) /\ c \in Call /\ TypeOK
  BY DEF CallsFit, TypeOK
<1> HIDE DEF Types
<1>4. PICK e \in Call : Answered(c, e, result, p, s)
  BY <1>2, <1>3, AnswerMoves
<1>5. WellFormed(e)'
  BY <1>3, <1>4 DEF WellFormed, Onward, store, Answered
<1>6. calls' \subseteq calls \union {e}
  BY <1>4 DEF Answered
<1>7. /\ calls' \subseteq Call /\ CallsFit'
      /\ \A d \in calls' : d.tab # None => status'[d.tab] # "closed"
  BY <1>5, <1>6, CallsKept DEF store
<1>8. TypeOK'
  BY <1>3, <1>7 DEF TypeOK, store, browser
<1> QED BY <1>7, <1>8 DEF SessionsExist, browser, Types

\* What the server says is of accounts there are.
LEMMA SessionAccounts ==
  ASSUME TypeOK, NEW i \in DOMAIN session
  PROVE  /\ session[i].account \in Account
         /\ zone[session[i].account] \in Nat
<1>1. session \in Seq([account : Account, live : BOOLEAN]) /\ zone \in [Account -> Nat]
  BY DEF TypeOK
<1>2. session[i] \in [account : Account, live : BOOLEAN]
  BY <1>1, Element
<1> QED BY <1>1, <1>2

LEMMA ServeSessionTypes ==
  ASSUME Types, NEW c \in calls, ServeSession(c)
  PROVE  Types'
<1> USE DEF Types
<1>1. c.at = "sent" /\ UNCHANGED <<store, browser, confirmed>>
  BY DEF ServeSession
<1>2. zone \in [Account -> Nat] /\ session \in Seq([account : Account, live : BOOLEAN])
      /\ Len(session) <= MaxSessions
  BY DEF TypeOK, SessionsExist
<1>3. CASE ~Known(c)
  <2>1. Answer(c, "unauthorized", None, None) /\ UNCHANGED server
    BY <1>3 DEF ServeSession
  <2> QED BY <1>1, <1>2, <2>1, AnsweredTypes DEF server
<1>4. CASE Known(c)
  <2> DEFINE a == session[c.with].account
  <2>1. c.with \in DOMAIN session
    BY <1>4 DEF Known, CallsFit, WellFormed
  <2>2. a \in Account /\ zone[a] \in Nat
    BY <2>1, SessionAccounts
  <2> HIDE DEF a
  <2>3. CASE c.kind \in {"hydrate", "refresh"}
    <3>1. Answer(c, "ok", [id |-> a, zone |-> zone[a]], c.with) /\ UNCHANGED server
      BY <1>4, <2>3 DEF ServeSession, Route, a
    <3>2. PICK p \in Profile : p = [id |-> a, zone |-> zone[a]]
      BY <2>2 DEF Profile
    <3> QED BY <1>1, <1>2, <2>1, <3>1, <3>2, AnsweredTypes, NoneAssumption DEF server
  <2>4. CASE c.kind = "logout"
    <3>1. /\ Answer(c, "ok", None, 0) /\ UNCHANGED zone
          /\ session' = [session EXCEPT ![c.with].live = FALSE]
      BY <1>4, <2>4 DEF ServeSession, Route
    <3>2. /\ session' \in Seq([account : Account, live : BOOLEAN])
          /\ Len(session') = Len(session) /\ DOMAIN session' = DOMAIN session
      <4>1. session[c.with] \in [account : Account, live : BOOLEAN]
        BY <1>2, <2>1, Element
      <4>2. session' \in [DOMAIN session -> [account : Account, live : BOOLEAN]]
        BY <1>2, <2>1, <3>1, <4>1, Element
      <4> QED BY <1>2, <4>2, SamePlaces
    <3> QED BY <1>1, <1>2, <2>4, <3>1, <3>2, AnsweredTypes
  <2>5. CASE c.kind \in {"save", "sync"} /\ ~Expected(c)
    <3>1. Answer(c, "refused", None, c.with) /\ UNCHANGED server
      BY <1>4, <2>5 DEF ServeSession, Route
    <3> QED BY <1>1, <1>2, <2>1, <3>1, AnsweredTypes DEF server
  <2>6. CASE c.kind = "sync" /\ Expected(c)
    <3>1. Answer(c, "ok", [id |-> a, zone |-> 0], c.with) /\ UNCHANGED server
      BY <1>4, <2>6 DEF ServeSession, Route, a
    <3>2. PICK p \in Profile : p = [id |-> a, zone |-> 0]
      BY <2>2 DEF Profile
    <3> QED BY <1>1, <1>2, <2>1, <3>1, <3>2, AnsweredTypes, NoneAssumption DEF server
  <2>7. CASE c.kind = "save" /\ Expected(c)
    <3>1. PICK n \in 1 .. MaxZone : /\ zone' = [zone EXCEPT ![a] = n] /\ UNCHANGED session
                                    /\ Answer(c, "ok", [id |-> a, zone |-> n], c.with)
      BY <1>4, <2>7 DEF ServeSession, Route, a
    <3>n. n \in Nat
      BY BoundAssumption
    <3>2. PICK p \in Profile : p = [id |-> a, zone |-> n]
      BY <2>2, <3>n DEF Profile
    <3>3. zone' \in [Account -> Nat]
      BY <1>2, <3>1, <3>n
    <3> QED BY <1>1, <1>2, <2>1, <3>1, <3>2, <3>3, AnsweredTypes, NoneAssumption
  <2> QED BY <2>3, <2>4, <2>5, <2>6, <2>7 DEF ServeSession
<1> QED BY <1>3, <1>4

LEMMA ServeTypes ==
  ASSUME Types, NEW c \in calls, Serve(c)
  PROVE  Types'
<1> USE DEF Types
<1>0. zone \in [Account -> Nat] /\ session \in Seq([account : Account, live : BOOLEAN])
      /\ Len(session) <= MaxSessions
  BY DEF TypeOK, SessionsExist
<1>1. CASE ServeSession(c)
  BY <1>1, ServeSessionTypes
<1>2. CASE ServeLogin(c)
  <2>1. /\ c.at = "sent" /\ Len(session) < MaxSessions
        /\ session' = Append(session, [account |-> c.of, live |-> TRUE])
        /\ Answer(c, "ok", [id |-> c.of, zone |-> zone[c.of]], Len(session) + 1)
        /\ UNCHANGED <<store, browser, zone, confirmed>>
    BY <1>2 DEF ServeLogin
  <2>2. c.of \in Account
    <3>1. c \in Call /\ c.kind \in {"login", "signup"} /\ c.of # None
      BY <1>2 DEF ServeLogin, TypeOK, CallsFit, WellFormed
    <3> QED BY <3>1 DEF Call
  <2>3. /\ session' \in Seq([account : Account, live : BOOLEAN])
        /\ Len(session') = Len(session) + 1
        /\ DOMAIN session \subseteq DOMAIN session' /\ Len(session) + 1 \in DOMAIN session'
    BY <1>0, <2>1, <2>2
  <2>4. Len(session') <= MaxSessions
    BY <1>0, <2>1, <2>3, BoundAssumption
  <2>5. PICK p \in Profile : p = [id |-> c.of, zone |-> zone[c.of]]
    BY <1>0, <2>2 DEF Profile
  <2> QED BY <1>0, <2>1, <2>3, <2>4, <2>5, AnsweredTypes, NoneAssumption
<1>3. CASE ServeEmailAction(c)
  <2>1. /\ c.at = "sent" /\ c.kind \in {"reset", "verify"} /\ Answer(c, "ok", None, None)
        /\ UNCHANGED <<store, browser, zone, confirmed>>
    BY <1>3 DEF ServeEmailAction
  <2>2. /\ session' \in Seq([account : Account, live : BOOLEAN])
        /\ Len(session') = Len(session) /\ DOMAIN session' = DOMAIN session
    <3>1. \A i \in DOMAIN session : session[i] \in [account : Account, live : BOOLEAN]
      BY <1>0, Element
    <3>2. session' \in [DOMAIN session -> [account : Account, live : BOOLEAN]]
      BY <1>3, <3>1 DEF ServeEmailAction
    <3> QED BY <1>0, <3>2, SamePlaces
  <2> QED BY <1>0, <2>1, <2>2, AnsweredTypes
<1>4. CASE Lose(c)
  <2>1. /\ c.at \in {"sent", "answered"} /\ Answer(c, "lost", None, None)
        /\ UNCHANGED <<store, browser, server, confirmed>>
    BY <1>4 DEF Lose
  <2> QED BY <1>0, <2>1, AnsweredTypes DEF server
<1> QED BY <1>1, <1>2, <1>3, <1>4 DEF Serve

LEMMA ExpireTypes ==
  ASSUME Types, NEW i \in DOMAIN session, ExpireSession(i)
  PROVE  Types'
<1> USE DEF Types
<1>1. /\ session' \in Seq([account : Account, live : BOOLEAN])
      /\ Len(session') = Len(session) /\ DOMAIN session' = DOMAIN session
  <2>1. session \in Seq([account : Account, live : BOOLEAN])
    BY DEF TypeOK
  <2>2. \A j \in DOMAIN session : session[j] \in [account : Account, live : BOOLEAN]
    BY <2>1, Element
  <2>3. session' \in [DOMAIN session -> [account : Account, live : BOOLEAN]]
    BY <2>1, <2>2 DEF ExpireSession
  <2> QED BY <2>1, <2>3, SamePlaces
<1>2. UNCHANGED <<store, browser, zone, calls, confirmed>>
  BY DEF ExpireSession
<1>3. CallsFit'
  BY <1>1, <1>2, CallsLeft DEF store
<1>4. TypeOK'
  BY <1>1, <1>2 DEF TypeOK, store, browser
<1> QED BY <1>1, <1>2, <1>3, <1>4 DEF SessionsExist, browser

-----------------------------------------------------------------------------
(* Types: the answers *)

\* The parts of TypeOK that answers change
Stores ==
  /\ status \in [Tab -> {"closed", "loading", "authenticated", "anonymous"}]
  /\ account \in [Tab -> Profile \union {None}]
  /\ generation \in [Tab -> Nat] /\ timezoneSaving \in [Tab -> BOOLEAN]
  /\ confirmed \in [Tab -> Nat]
  /\ \A t \in Tab : account[t] # None <=> status[t] = "authenticated"
Flags == revision \in [Tab -> Nat] /\ saving \in [Tab -> Nat \union {None}]
Browser == cookie \in DOMAIN session \union {None} /\ cache \in Profile \union {None}
StaysOpen == \A t \in Tab : status[t] # "closed" => status'[t] # "closed"

LEMMA Parts ==
  ASSUME Types
  PROVE  Stores /\ Flags /\ Browser
BY DEF Types, TypeOK, SessionsExist, Stores, Flags, Browser

LEMMA AdoptStores ==
  ASSUME Stores, NEW t \in Tab, NEW p \in Profile, Adopt(t, p)
  PROVE  Stores' /\ StaysOpen
<1>1. p # None /\ p.id \in Account
  BY NoneAssumption DEF Profile
<1>2. generation' \in [Tab -> Nat]
  BY DEF Stores, Adopt
<1>3. confirmed' \in [Tab -> Nat] /\ timezoneSaving' \in [Tab -> BOOLEAN]
  BY DEF Stores, Adopt
<1>4. /\ status' \in [Tab -> {"closed", "loading", "authenticated", "anonymous"}]
      /\ account' \in [Tab -> Profile \union {None}]
      /\ \A u \in Tab : account'[u] # None <=> status'[u] = "authenticated"
      /\ StaysOpen
  BY <1>1 DEF Stores, Adopt, StaysOpen
<1> QED BY <1>2, <1>3, <1>4 DEF Stores

LEMMA ReplaceStores ==
  ASSUME Stores, NEW t \in Tab, NEW s, NEW p, Replace(t, s, p),
         \/ s = "authenticated" /\ p \in Profile
         \/ s = "anonymous" /\ p = None
  PROVE  Stores' /\ StaysOpen
<1>1. p # None <=> s = "authenticated"
  BY NoneAssumption
<1>2. generation' \in [Tab -> Nat] /\ confirmed' \in [Tab -> Nat]
      /\ timezoneSaving' \in [Tab -> BOOLEAN]
  BY DEF Stores, Replace
<1>3. /\ status' \in [Tab -> {"closed", "loading", "authenticated", "anonymous"}]
      /\ account' \in [Tab -> Profile \union {None}]
      /\ \A u \in Tab : account'[u] # None <=> status'[u] = "authenticated"
      /\ StaysOpen
  BY <1>1 DEF Stores, Replace, StaysOpen
<1> QED BY <1>2, <1>3 DEF Stores

LEMMA ClearStores ==
  ASSUME Stores, NEW t \in Tab, clear(t)
  PROVE  Stores' /\ StaysOpen
BY ReplaceStores DEF clear

LEMMA KeepStores ==
  ASSUME Stores, KeepLogin
  PROVE  Stores' /\ StaysOpen
BY DEF Stores, KeepLogin, StaysOpen

LEMMA LeftTypes ==
  ASSUME Types, calls' \subseteq calls, UNCHANGED server, Stores', Flags', Browser', StaysOpen
  PROVE  Types'
<1>1. session' = session /\ zone' = zone
  BY DEF server
<1>2. /\ calls' \subseteq Call /\ CallsFit'
      /\ \A c \in calls' : c.tab # None => status'[c.tab] # "closed"
  BY <1>1, CallsLeft DEF StaysOpen
<1>3. DOMAIN session \subseteq Sid
  BY SessionIds DEF Types
<1>4. TypeOK'
  BY <1>1, <1>2, <1>3 DEF Types, TypeOK, Stores, Flags, Browser
<1> QED BY <1>1, <1>2, <1>4 DEF Types, SessionsExist, Browser

LEMMA MovedTypes ==
  ASSUME Types, NEW e \in Call, WellFormed(e)', calls' \subseteq calls \union {e}, UNCHANGED server,
         Stores', Flags', Browser', StaysOpen
  PROVE  Types'
<1>1. session' = session /\ zone' = zone
  BY DEF server
<1>2. /\ calls' \subseteq Call /\ CallsFit'
      /\ \A c \in calls' : c.tab # None => status'[c.tab] # "closed"
  BY <1>1, CallsKept DEF StaysOpen
<1>3. DOMAIN session \subseteq Sid
  BY SessionIds DEF Types
<1>4. TypeOK'
  BY <1>1, <1>2, <1>3 DEF Types, TypeOK, Stores, Flags, Browser
<1> QED BY <1>1, <1>2, <1>4 DEF Types, SessionsExist, Browser

\* A call of an open tab
LEMMA CallOf ==
  ASSUME Types, NEW c \in calls
  PROVE  c \in Call /\ WellFormed(c) /\ (c.tab # None => c.tab \in Tab)
<1>1. c \in Call /\ WellFormed(c)
  BY DEF Types, TypeOK, CallsFit
<1> QED BY <1>1 DEF Call

LEMMA CookieIds ==
  ASSUME Types, Browser', UNCHANGED server
  PROVE  cookie \in Sid \union {None} /\ cookie' \in Sid \union {None}
BY SessionIds DEF Types, TypeOK, Browser, server

LEMMA ArrivedBrowser ==
  ASSUME Types, NEW c \in calls, Arrived(c), UNCHANGED server, cache' \in Profile \union {None}
  PROVE  Browser' /\ c.at = "answered"
<1>1. c.sets \in DOMAIN session \union {0, None}
  BY CallOf DEF WellFormed
<1>2. cookie \in DOMAIN session \union {None}
  BY DEF Types, SessionsExist
<1>3. cookie' \in DOMAIN session \union {None}
  BY <1>1, <1>2 DEF Arrived
<1> QED BY <1>3 DEF Arrived, Browser, server

\* A call is over.
LEMMA DoneTypes ==
  ASSUME Types, NEW c \in calls, Done(c), UNCHANGED server, Stores', Flags', Browser', StaysOpen
  PROVE  Types'
BY LeftTypes DEF Done

\* A call of an open tab becomes one that waits for storage.
LEMMA WaitsTypes ==
  ASSUME Types, NEW c \in calls, NEW s \in {"caching", "reading", "expiring"}, Becomes(c, s),
         c.tab # None, UNCHANGED server, Stores', Flags', Browser', StaysOpen,
         s = "caching" => c.kind \in {"refresh", "save", "sync"} /\ c.of # None /\ c.result = "ok",
         s = "reading" => c.kind = "hydrate",
         s = "expiring" => c.kind = "sync"
  PROVE  Types'
<1>1. c \in Call /\ WellFormed(c) /\ c.tab \in Tab
  BY CallOf
<1>2. TypeOK
  BY DEF Types
<1>3. PICK e \in Call : Waits(c, e, s)
  BY <1>2, BecomesMoves
<1>4. session' = session /\ status'[c.tab] # "closed"
  BY <1>1 DEF server, WellFormed, StaysOpen
<1>5. WellFormed(e)'
  BY <1>1, <1>3, <1>4 DEF WellFormed, Waits, Onward
<1>6. calls' \subseteq calls \union {e}
  BY <1>3 DEF Waits
<1> QED BY <1>5, <1>6, MovedTypes

\* A question of tab t, with the cookie that has landed
Question(n, t) ==
  /\ n.tab = t /\ n.kind \in {"hydrate", "refresh"} /\ n.with = cookie' /\ n.at = "sent"
  /\ n.result = "none" /\ n.sets = None
  /\ n.kind = "hydrate" => n.of = None
  /\ n.kind = "refresh" /\ n.of = None => n.strict
  /\ n.again => n.kind = "refresh" /\ n.of = None

LEMMA FollowedTypes ==
  ASSUME Types, NEW c \in calls, c.tab # None, NEW n \in Call, Question(n, c.tab),
         calls' = (calls \ {c}) \union {n},
         UNCHANGED server, Stores', Flags', Browser', StaysOpen
  PROVE  Types'
<1>1. c.tab \in Tab /\ status'[c.tab] # "closed"
  BY CallOf DEF WellFormed, StaysOpen
<1>2. cookie' \in DOMAIN session \union {None} /\ session' = session
  BY DEF Browser, server
<1>3. WellFormed(n)'
  BY <1>1, <1>2 DEF WellFormed, Question
<1>4. calls' \subseteq calls \union {n}
  OBVIOUS
<1> QED BY <1>3, <1>4, MovedTypes

LEMMA HydrateTypes ==
  ASSUME Types, NEW c \in calls, HydrateAnswer(c) \/ HydrateFromCache(c)
  PROVE  Types'
<1>0. Stores /\ Flags /\ Browser /\ c \in Call /\ WellFormed(c)
  BY Parts, CallOf
<1>1. CASE HydrateAnswer(c)
  <2>1. /\ c.tab # None /\ c.kind = "hydrate" /\ UNCHANGED server /\ cache' = cache
        /\ Arrived(c) /\ Flags'
    BY <1>0, <1>1 DEF HydrateAnswer, KeepFlags, Flags
  <2>2. Browser' /\ c.tab \in Tab
    BY <1>0, <2>1, ArrivedBrowser, CallOf DEF Browser
  <2>3. CASE KeepLogin /\ Done(c)
    BY <1>0, <2>1, <2>2, <2>3, KeepStores, DoneTypes
  <2>4. CASE KeepLogin /\ Becomes(c, "reading")
    BY <1>0, <2>1, <2>2, <2>4, KeepStores, WaitsTypes
  <2>5. CASE clear(c.tab) /\ Done(c)
    BY <1>0, <2>1, <2>2, <2>5, ClearStores, DoneTypes
  <2>6. CASE c.result = "ok" /\ Adopt(c.tab, c.profile) /\ Done(c)
    <3>1. c.profile \in Profile
      BY <1>0, <2>1, <2>6 DEF WellFormed, Call
    <3> QED BY <1>0, <2>1, <2>2, <2>6, <3>1, AdoptStores, DoneTypes
  <2> QED BY <1>1, <2>3, <2>4, <2>5, <2>6 DEF HydrateAnswer
<1>2. CASE HydrateFromCache(c)
  <2>1. /\ c.at = "reading" /\ Done(c) /\ UNCHANGED server /\ Flags' /\ Browser'
    BY <1>0, <1>2 DEF HydrateFromCache, KeepFlags, Flags, Browser, browser, server
  <2>2. CASE KeepLogin
    BY <1>0, <2>1, <2>2, KeepStores, DoneTypes
  <2>3. CASE c.tab # None /\ cache # None /\ Adopt(c.tab, cache)
    <3>1. cache \in Profile /\ c.tab \in Tab
      BY <1>0, <2>3, CallOf DEF Browser
    <3> QED BY <1>0, <2>1, <2>3, <3>1, AdoptStores, DoneTypes
  <2>4. CASE c.tab # None /\ clear(c.tab)
    BY <1>0, <2>1, <2>4, CallOf, ClearStores, DoneTypes
  <2>5. c.tab # None
    BY <1>0, <2>1 DEF WellFormed
  <2> QED BY <1>2, <2>2, <2>3, <2>4, <2>5 DEF HydrateFromCache
<1> QED BY <1>1, <1>2

LEMMA SignInTypes ==
  ASSUME Types, NEW c \in calls,
         ArriveNowhere(c) \/ LoginAnswer(c) \/ SignupAnswer(c) \/ LogoutAnswer(c)
  PROVE  Types'
<1>0. Stores /\ Flags /\ Browser /\ c \in Call /\ WellFormed(c)
  BY Parts, CallOf
<1>1. CASE ArriveNowhere(c)
  <2>1. /\ Done(c) /\ UNCHANGED server /\ Stores' /\ Flags' /\ StaysOpen /\ cache' = cache
    BY <1>0, <1>1 DEF ArriveNowhere, Stores, Flags, StaysOpen, store
  <2>2. CASE Arrived(c)
    BY <1>0, <2>1, <2>2, ArrivedBrowser, DoneTypes DEF Browser
  <2>3. CASE UNCHANGED cookie
    <3>1. Browser'
      BY <1>0, <2>1, <2>3 DEF Browser, server
    <3> QED BY <2>1, <3>1, DoneTypes
  <2> QED BY <1>1, <2>2, <2>3 DEF ArriveNowhere
<1>2. CASE LoginAnswer(c)
  <2>1. /\ c.tab # None /\ c.kind = "login" /\ UNCHANGED server /\ cache' = cache
        /\ Arrived(c) /\ Done(c) /\ Flags'
    BY <1>0, <1>2 DEF LoginAnswer, KeepFlags, Flags
  <2>2. Browser' /\ c.tab \in Tab
    BY <1>0, <2>1, ArrivedBrowser, CallOf DEF Browser
  <2>3. CASE c.result = "ok"
    <3>1. c.profile \in Profile
      BY <1>0, <2>1, <2>3 DEF WellFormed, Call
    <3>2. Replace(c.tab, "authenticated", c.profile)
      BY <1>2, <2>3 DEF LoginAnswer, setAuthenticated
    <3> QED BY <1>0, <2>1, <2>2, <3>1, <3>2, ReplaceStores, DoneTypes
  <2>4. CASE KeepLogin
    BY <1>0, <2>1, <2>2, <2>4, KeepStores, DoneTypes
  <2> QED BY <1>2, <2>3, <2>4 DEF LoginAnswer
<1>3. CASE SignupAnswer(c)
  <2>1. /\ c.tab # None /\ UNCHANGED server /\ cache' = cache /\ saving' = saving
        /\ Arrived(c) /\ KeepLogin
    BY <1>3 DEF SignupAnswer
  <2>2. Browser' /\ c.tab \in Tab
    BY <1>0, <2>1, ArrivedBrowser, CallOf DEF Browser
  <2>3. Stores' /\ StaysOpen
    BY <1>0, <2>1, KeepStores
  <2>4. CASE Done(c) /\ UNCHANGED revision
    <3>1. Flags'
      BY <1>0, <2>1, <2>4 DEF Flags
    <3> QED BY <2>1, <2>2, <2>3, <2>4, <3>1, DoneTypes
  <2>5. CASE ~(Done(c) /\ UNCHANGED revision)
    <3>1. PICK r : r = revision[c.tab] + 1
      OBVIOUS
    <3>2. PICK n : n = [NewCall(c.tab, "hydrate", None, r, FALSE) EXCEPT !.with = cookie']
      OBVIOUS
    <3>3. /\ revision' = [revision EXCEPT ![c.tab] = r] /\ calls' = (calls \ {c}) \union {n}
      BY <1>3, <2>5, <3>1, <3>2 DEF SignupAnswer
    <3>4. r \in Nat /\ Flags'
      BY <1>0, <2>1, <2>2, <3>1, <3>3 DEF Flags
    <3>5. Question(n, c.tab)
      BY <3>2 DEF NewCall, Question
    <3>6. cookie \in Sid \union {None} /\ cookie' \in Sid \union {None}
      BY <2>1, <2>2, CookieIds
    <3>7. n \in Call
      BY <1>0, <2>2, <3>2, <3>4, <3>6 DEF NewCall, Call, Kind, Stores
    <3> QED BY <2>1, <2>2, <2>3, <3>3, <3>4, <3>5, <3>7, FollowedTypes
  <2> QED BY <2>4, <2>5
<1>4. CASE LogoutAnswer(c)
  <2>1. /\ c.tab # None /\ UNCHANGED server /\ cache' = None /\ clear(c.tab)
        /\ Arrived(c) /\ Done(c) /\ Flags'
    BY <1>0, <1>4 DEF LogoutAnswer, KeepFlags, Flags
  <2>2. Browser' /\ c.tab \in Tab
    BY <1>0, <2>1, ArrivedBrowser, CallOf DEF Browser
  <2> QED BY <1>0, <2>1, <2>2, ClearStores, DoneTypes
<1> QED BY <1>1, <1>2, <1>3, <1>4

LEMMA StartRefreshTypes ==
  ASSUME Types, NEW c \in calls, NEW strict \in BOOLEAN, NEW again \in BOOLEAN,
         c.tab # None, StartRefresh(c, strict, again), KeepLogin,
         c.of = None => strict, again => c.of = None,
         UNCHANGED <<saving, server>>, Browser'
  PROVE  Types'
<1>0. Stores /\ Flags /\ c \in Call /\ c.tab \in Tab
  BY Parts, CallOf
<1>1. Stores' /\ StaysOpen
  BY <1>0, KeepStores
<1>2. CASE Done(c) /\ UNCHANGED revision
  <2>1. Flags'
    BY <1>0, <1>2 DEF Flags
  <2> QED BY <1>1, <1>2, <2>1, DoneTypes
<1>3. CASE ~(Done(c) /\ UNCHANGED revision)
  <2>1. PICK r : r = revision[c.tab] + 1
    OBVIOUS
  <2>2. PICK n : n = [NewCall(c.tab, "refresh", c.of, r, strict)
                        EXCEPT !.with = cookie', !.again = again]
    OBVIOUS
  <2>3. /\ revision' = [revision EXCEPT ![c.tab] = r] /\ calls' = (calls \ {c}) \union {n}
    BY <1>3, <2>1, <2>2 DEF StartRefresh
  <2>4. r \in Nat /\ Flags' /\ c.of \in Account \union {None}
    BY <1>0, <2>1, <2>3 DEF Flags, Call
  <2>5. Question(n, c.tab)
    BY <2>2 DEF NewCall, Question
  <2>6. cookie \in Sid \union {None} /\ cookie' \in Sid \union {None}
    BY CookieIds
  <2>7. generation[c.tab] \in Nat
    BY <1>0 DEF Stores
  <2>8. NewCall(c.tab, "refresh", c.of, r, strict) \in Call
    BY <1>0, <2>4, <2>6, <2>7 DEF NewCall, Call, Kind
  <2>9. n \in Call
    BY <2>2, <2>6, <2>8 DEF Call
  <2> QED BY <1>1, <2>3, <2>4, <2>5, <2>9, FollowedTypes
<1> QED BY <1>2, <1>3

LEMMA RefreshTypes ==
  ASSUME Types, NEW c \in calls, EmailActionAnswer(c) \/ RefreshAnswer(c)
  PROVE  Types'
<1>0. Stores /\ Flags /\ Browser /\ c \in Call /\ WellFormed(c)
  BY Parts, CallOf
<1>1. CASE EmailActionAnswer(c)
  <2>1. /\ c.tab # None /\ UNCHANGED server /\ cache' = cache /\ saving' = saving
        /\ Arrived(c) /\ KeepLogin
    BY <1>1 DEF EmailActionAnswer
  <2>2. Browser' /\ c.tab \in Tab
    BY <1>0, <2>1, ArrivedBrowser, CallOf DEF Browser
  <2>3. CASE Done(c) /\ UNCHANGED revision
    <3>1. Flags' /\ Stores' /\ StaysOpen
      BY <1>0, <2>1, <2>3, KeepStores DEF Flags
    <3> QED BY <2>1, <2>2, <2>3, <3>1, DoneTypes
  <2>4. CASE StartRefresh(c, c.kind = "reset", c.strict /\ c.result = "ok")
    <3>1. PICK strict \in BOOLEAN : strict = (c.kind = "reset")
      OBVIOUS
    <3>2. PICK again \in BOOLEAN : again = (c.strict /\ c.result = "ok")
      BY <1>0 DEF Call
    <3>3. c.kind \in {"reset", "verify"}
      BY <1>1 DEF EmailActionAnswer
    <3>4. StartRefresh(c, strict, again)
      BY <2>4, <3>1, <3>2
    <3>5. (c.of = None => strict) /\ (again => c.of = None)
      BY <1>0, <2>1, <3>1, <3>2, <3>3 DEF WellFormed
    <3> QED BY <2>1, <2>2, <3>4, <3>5, StartRefreshTypes
  <2> QED BY <1>1, <2>3, <2>4 DEF EmailActionAnswer
<1>2. CASE RefreshAnswer(c)
  <2>1. /\ c.tab # None /\ c.kind = "refresh" /\ UNCHANGED server /\ cache' = cache
        /\ Arrived(c) /\ saving' = saving
    BY <1>2 DEF RefreshAnswer
  <2>2. Browser' /\ c.tab \in Tab
    BY <1>0, <2>1, ArrivedBrowser, CallOf DEF Browser
  <2>3. CASE c.again /\ KeepLogin /\ StartRefresh(c, TRUE, FALSE)
    <3>1. c.of = None
      BY <1>0, <2>1, <2>3 DEF WellFormed
    <3> QED BY <2>1, <2>2, <2>3, <3>1, StartRefreshTypes
  <2>4. CASE Done(c) /\ UNCHANGED revision /\ (KeepLogin \/ clear(c.tab))
    <3>1. Flags'
      BY <1>0, <2>1, <2>4 DEF Flags
    <3> QED BY <1>0, <2>1, <2>2, <2>4, <3>1, KeepStores, ClearStores, DoneTypes
  <2>5. CASE TakeProfile(c)
    <3>1. c.profile \in Profile /\ Adopt(c.tab, c.profile) /\ Done(c)
      BY <1>0, <2>1, <2>5 DEF WellFormed, Call, TakeProfile
    <3>2. Flags'
      BY <1>0, <2>1, <2>5 DEF Flags, TakeProfile
    <3> QED BY <1>0, <2>1, <2>2, <3>1, <3>2, AdoptStores, DoneTypes
  <2>6. CASE RenewProfile(c)
    <3>1. c.profile \in Profile /\ c.profile # None
      BY <1>0, <2>1, <2>6, NoneAssumption DEF WellFormed, Call, RenewProfile
    <3>2. Flags'
      BY <1>0, <2>1, <2>6 DEF Flags, RenewProfile
    <3>3. status[c.tab] = "authenticated"
      BY <2>6 DEF RenewProfile, RefreshAsserts, RefreshIsCurrent
    <3>4. Stores' /\ StaysOpen
      BY <1>0, <2>2, <2>6, <3>1, <3>3 DEF Stores, StaysOpen, RenewProfile
    <3>5. Becomes(c, "caching") /\ c.of # None /\ c.result = "ok"
      BY <2>6 DEF RenewProfile
    <3> QED BY <2>1, <2>2, <3>2, <3>4, <3>5, WaitsTypes
  <2> QED BY <1>2, <2>3, <2>4, <2>5, <2>6 DEF RefreshAnswer
<1> QED BY <1>1, <1>2

LEMMA SaveTypes ==
  ASSUME Types, NEW c \in calls, SaveAnswer(c) \/ SyncAnswer(c) \/ WriteCache(c) \/ expireSyncSession(c)
  PROVE  Types'
<1>0. Stores /\ Flags /\ Browser /\ c \in Call /\ WellFormed(c)
  BY Parts, CallOf
<1>1. CASE SaveAnswer(c)
  <2>1. /\ c.tab # None /\ c.kind = "save" /\ UNCHANGED server /\ cache' = cache
        /\ Arrived(c) /\ UNCHANGED <<status, generation>>
    BY <1>1 DEF SaveAnswer
  <2>2. Browser' /\ c.tab \in Tab
    BY <1>0, <2>1, ArrivedBrowser, CallOf DEF Browser
  <2>3. CASE ReleaseSave(c) /\ Done(c) /\ UNCHANGED <<account, revision, confirmed>>
    <3>1. Stores' /\ StaysOpen /\ Flags'
      BY <1>0, <2>1, <2>2, <2>3 DEF Stores, StaysOpen, Flags, ReleaseSave
    <3> QED BY <2>1, <2>2, <2>3, <3>1, DoneTypes
  <2>4. CASE ~(ReleaseSave(c) /\ Done(c) /\ UNCHANGED <<account, revision, confirmed>>)
    <3>1. /\ c.result = "ok" /\ isCurrentSyncSession(c) /\ c.profile.id = c.of
          /\ account'   = [account EXCEPT ![c.tab] = c.profile]
          /\ revision'  = [revision EXCEPT ![c.tab] = @ + 1]
          /\ confirmed' = [confirmed EXCEPT ![c.tab] = c.profile.zone]
          /\ Becomes(c, "caching")
          /\ UNCHANGED <<timezoneSaving, saving>>
      BY <1>1, <2>4 DEF SaveAnswer
    <3>2. c.profile \in Profile /\ c.profile # None
      BY <1>0, <2>1, <3>1, NoneAssumption DEF WellFormed, Call
    <3>3. c.profile.zone \in Nat /\ c.of # None
      BY <3>1, <3>2, NoneAssumption DEF Profile
    <3>4. status[c.tab] = "authenticated"
      BY <3>1 DEF isCurrentSyncSession
    <3>5. Stores' /\ StaysOpen
      BY <1>0, <2>1, <2>2, <3>1, <3>2, <3>3, <3>4 DEF Stores, StaysOpen
    <3>6. Flags'
      BY <1>0, <2>2, <3>1 DEF Flags
    <3> QED BY <2>1, <2>2, <3>1, <3>3, <3>5, <3>6, WaitsTypes
  <2> QED BY <2>3, <2>4
<1>2. CASE SyncAnswer(c)
  <2>1. /\ c.tab # None /\ c.kind = "sync" /\ UNCHANGED server /\ cache' = cache
        /\ Arrived(c) /\ KeepLogin /\ Flags'
    BY <1>0, <1>2 DEF SyncAnswer, KeepFlags, Flags
  <2>2. Browser' /\ c.tab \in Tab /\ Stores' /\ StaysOpen
    BY <1>0, <2>1, ArrivedBrowser, CallOf, KeepStores DEF Browser
  <2>3. CASE Done(c)
    BY <2>1, <2>2, <2>3, DoneTypes
  <2>4. CASE isCurrentSyncSession(c) /\ c.result = "ok" /\ Becomes(c, "caching")
    <3>1. c.of # None
      BY <1>0, <2>2, <2>4, IdType DEF isCurrentSyncSession, Types
    <3> QED BY <2>1, <2>2, <2>4, <3>1, WaitsTypes
  <2>5. CASE Becomes(c, "expiring")
    BY <2>1, <2>2, <2>5, WaitsTypes
  <2> QED BY <1>2, <2>3, <2>4, <2>5 DEF SyncAnswer
<1>3. CASE WriteCache(c)
  <2>1. /\ c.at = "caching" /\ Done(c) /\ cookie' = cookie /\ UNCHANGED server
        /\ UNCHANGED <<status, account, generation, revision, confirmed>>
    BY <1>3 DEF WriteCache
  <2>2. c.tab # None /\ c.tab \in Tab /\ c.of # None /\ (c.kind # "sync" => c.profile # None)
    <3>1. c.tab # None
      BY <1>0, <2>1 DEF WellFormed
    <3>2. c.tab \in Tab
      BY <3>1, CallOf
    <3> QED BY <1>0, <2>1, <3>1, <3>2 DEF WellFormed
  <2>3. Stores' /\ StaysOpen /\ Flags'
    BY <1>0, <1>3, <2>1, <2>2 DEF Stores, StaysOpen, Flags, ReleaseSave, WriteCache
  <2>4. cache' \in Profile \union {None}
    <3>1. CASE UNCHANGED cache
      BY <1>0, <3>1 DEF Browser
    <3>2. CASE c.kind # "sync" /\ cache' = c.profile
      BY <1>0, <2>2, <3>2 DEF Call
    <3>3. CASE c.kind = "sync" /\ isCurrentSyncSession(c)
               /\ cache' = [id |-> c.of, zone |-> account[c.tab].zone]
      <4>1. account[c.tab] \in Profile
        BY <1>0, <2>2, <3>3 DEF isCurrentSyncSession, Stores
      <4> QED BY <1>0, <2>2, <3>3, <4>1 DEF Profile, Call
    <3> QED BY <1>3, <3>1, <3>2, <3>3 DEF WriteCache, WriteAsserts
  <2>5. Browser'
    BY <1>0, <2>1, <2>4 DEF Browser, server
  <2> QED BY <2>1, <2>3, <2>5, DoneTypes
<1>4. CASE expireSyncSession(c)
  <2>1. /\ c.at = "expiring" /\ Done(c) /\ cookie' = cookie /\ UNCHANGED server /\ Flags'
        /\ cache' \in {None, cache}
    BY <1>0, <1>4 DEF expireSyncSession, KeepFlags, Flags
  <2>2. c.tab \in Tab /\ Browser'
    BY <1>0, <2>1, CallOf DEF WellFormed, Browser, server
  <2>3. KeepLogin \/ clear(c.tab)
    BY <1>4 DEF expireSyncSession
  <2> QED BY <1>0, <2>1, <2>2, <2>3, KeepStores, ClearStores, DoneTypes
<1> QED BY <1>1, <1>2, <1>3, <1>4

LEMMA InitTypes ==
  ASSUME Init
  PROVE  Types
BY BoundAssumption, NoneAssumption DEF Init, Types, TypeOK, SessionsExist, CallsFit

LEMMA NextTypes ==
  ASSUME Types, [Next]_vars
  PROVE  Types'
<1>1. CASE UNCHANGED vars
  BY <1>1 DEF vars, store, browser, server, Types, TypeOK, SessionsExist, CallsFit, WellFormed
<1>2. ASSUME NEW t \in Tab, Submit(t)
      PROVE  Types'
  BY <1>2, OpenTypes, SubmitTypes DEF Submit
<1>3. ASSUME NEW c \in calls, Serve(c)
      PROVE  Types'
  BY <1>3, ServeTypes
<1>4. ASSUME NEW c \in calls, Continue(c)
      PROVE  Types'
  BY <1>4, HydrateTypes, SignInTypes, RefreshTypes, SaveTypes DEF Continue
<1>5. ASSUME NEW s \in DOMAIN session, ExpireSession(s)
      PROVE  Types'
  BY <1>5, ExpireTypes
<1> QED BY <1>1, <1>2, <1>3, <1>4, <1>5 DEF Next

\* Every variable has its type, and a tab shows an account exactly if it is signed in.
THEOREM TypeCorrect == Spec => []TypeOK
<1>1. Init => Types
  BY InitTypes
<1>2. Types /\ [Next]_vars => Types'
  BY NextTypes
<1>3. Types => TypeOK
  BY DEF Types
<1> QED BY <1>1, <1>2, <1>3, PTL DEF Spec
-----------------------------------------------------------------------------
(* What an answer may switch, save and cache *)

Same(t) == status'[t] = status[t] /\ account'[t] = account[t]

LEMMA OtherTabs ==
  ASSUME Types, NEW u \in Tab, NEW t \in Tab, t # u, NEW s, NEW p,
         Adopt(u, p) \/ Replace(u, s, p)
  PROVE  Same(t)
BY DEF Types, TypeOK, Same, Adopt, Replace

LEMMA SameId ==
  ASSUME NEW t \in Tab, Same(t)
  PROVE  <<status'[t], Id(t)'>> = <<status[t], Id(t)>>
BY DEF Same, Id

\* c, answered and over, concerned the session that is on the screen of t.
Concerned(c, t) ==
  c \notin calls' /\ c.tab = t /\ (c.kind \in {"login", "logout"} \/ c.generation = generation[t])

LEMMA SwitchedBy ==
  ASSUME Types, NEW c \in calls, Continue(c), NEW t \in Tab
  PROVE  Same(t) \/ <<status'[t], Id(t)'>> = <<status[t], Id(t)>> \/ Concerned(c, t)
<1>0. c \in Call /\ WellFormed(c) /\ (c.tab # None => c.tab \in Tab) /\ Stores
  BY CallOf, Parts
<1>1. CASE KeepLogin
  BY <1>1 DEF KeepLogin, Same
<1>2. ASSUME c.tab # None, Done(c), c.kind \in {"login", "logout"} \/ c.generation = generation[c.tab],
             NEW s, NEW p, Adopt(c.tab, p) \/ Replace(c.tab, s, p)
      PROVE  Same(t) \/ Concerned(c, t)
  <2>1. CASE t = c.tab
    BY <1>2, <2>1 DEF Done, Concerned
  <2>2. CASE t # c.tab
    BY <1>0, <1>2, <2>2, OtherTabs
  <2> QED BY <2>1, <2>2
<1>3. CASE ArriveNowhere(c) \/ SignupAnswer(c) \/ EmailActionAnswer(c) \/ SyncAnswer(c) \/ WriteCache(c)
  BY <1>3 DEF ArriveNowhere, SignupAnswer, EmailActionAnswer, SyncAnswer, WriteCache, KeepLogin,
              store, Same
<1>4. CASE HydrateAnswer(c)
  <2>1. c.tab # None
    BY <1>4 DEF HydrateAnswer
  <2>2. CASE ~KeepLogin
    <3>1. /\ HydrateIsCurrent(c) /\ Done(c)
          /\ Adopt(c.tab, c.profile) \/ clear(c.tab)
      BY <1>4, <2>2 DEF HydrateAnswer
    <3> QED BY <1>2, <2>1, <3>1 DEF HydrateIsCurrent, clear
  <2> QED BY <1>1, <2>2
<1>5. CASE HydrateFromCache(c)
  <2>1. c.tab # None /\ Done(c)
    BY <1>0, <1>5 DEF HydrateFromCache, WellFormed
  <2>2. CASE ~KeepLogin
    <3>1. HydrateIsCurrent(c) /\ (Adopt(c.tab, cache) \/ clear(c.tab))
      BY <1>5, <2>2 DEF HydrateFromCache
    <3> QED BY <1>2, <2>1, <3>1 DEF HydrateIsCurrent, clear
  <2> QED BY <1>1, <2>2
<1>6. CASE LoginAnswer(c)
  <2>1. /\ c.tab # None /\ c.kind = "login" /\ Done(c)
        /\ KeepLogin \/ Replace(c.tab, "authenticated", c.profile)
    BY <1>6 DEF LoginAnswer, setAuthenticated
  <2> QED BY <1>1, <1>2, <2>1
<1>7. CASE LogoutAnswer(c)
  <2>1. /\ c.tab # None /\ c.kind = "logout" /\ Done(c) /\ Replace(c.tab, "anonymous", None)
    BY <1>7 DEF LogoutAnswer, clear
  <2> QED BY <1>2, <2>1
<1>8. CASE RefreshAnswer(c)
  <2>1. c.tab # None /\ c.tab \in Tab
    BY <1>0, <1>8 DEF RefreshAnswer
  <2>2. RefreshAsserts(c) => c.generation = generation[c.tab]
    BY DEF RefreshAsserts, RefreshIsCurrent
  <2>3. CASE TakeProfile(c)
    BY <1>2, <2>1, <2>2, <2>3 DEF TakeProfile
  <2>4. CASE RefreshAsserts(c) /\ clear(c.tab) /\ Done(c)
    BY <1>2, <2>1, <2>2, <2>4 DEF clear
  <2>5. CASE RenewProfile(c)
    <3>1. /\ Id(c.tab) = c.of /\ c.of # None /\ c.of = c.profile.id
          /\ status' = status /\ account' = [account EXCEPT ![c.tab] = c.profile]
      BY <2>5 DEF RenewProfile, RefreshAsserts, RefreshIsCurrent
    <3>2. CASE t = c.tab
      <4>1. account'[t] = c.profile /\ c.profile # None
        <5>1. c.profile # None
          BY <1>0, <1>8, <2>1, <2>5 DEF WellFormed, RefreshAnswer, RenewProfile
        <5> QED BY <1>0, <2>1, <3>1, <3>2, <5>1 DEF Stores
      <4>2. Id(t)' = c.of
        BY <3>1, <4>1 DEF Id
      <4> QED BY <3>1, <3>2, <4>2
    <3>3. CASE t # c.tab
      BY <1>0, <2>1, <3>1, <3>3 DEF Same, Stores
    <3> QED BY <3>2, <3>3
  <2> QED BY <1>1, <1>8, <2>3, <2>4, <2>5 DEF RefreshAnswer
<1>9. CASE SaveAnswer(c)
  <2>1. c.tab \in Tab /\ c.tab # None /\ c.kind = "save" /\ status' = status
    BY <1>0, <1>9 DEF SaveAnswer
  <2>2. CASE account' = account
    BY <2>1, <2>2 DEF Same
  <2>3. CASE account' # account
    <3>1. /\ c.result = "ok" /\ Id(c.tab) = c.of /\ c.of = c.profile.id
          /\ account' = [account EXCEPT ![c.tab] = c.profile]
      BY <1>9, <2>3 DEF SaveAnswer, isCurrentSyncSession
    <3>2. CASE t = c.tab
      <4>1. c.profile # None
        BY <1>0, <2>1, <3>1 DEF WellFormed
      <4>2. account'[t] = c.profile
        BY <1>0, <2>1, <3>1, <3>2 DEF Stores
      <4>3. Id(t)' = c.of
        BY <3>1, <4>1, <4>2 DEF Id
      <4> QED BY <2>1, <3>1, <3>2, <4>3
    <3>3. CASE t # c.tab
      BY <1>0, <2>1, <3>1, <3>3 DEF Same, Stores
    <3> QED BY <3>2, <3>3
  <2> QED BY <2>2, <2>3
<1>10. CASE expireSyncSession(c)
  <2>1. c.tab # None /\ Done(c)
    BY <1>0, <1>10 DEF expireSyncSession, WellFormed
  <2>2. KeepLogin \/ (isCurrentSyncSession(c) /\ Replace(c.tab, "anonymous", None))
    BY <1>10 DEF expireSyncSession, clear
  <2> QED BY <1>1, <1>2, <2>1, <2>2 DEF isCurrentSyncSession
<1> QED BY <1>3, <1>4, <1>5, <1>6, <1>7, <1>8, <1>9, <1>10 DEF Continue

LEMMA SwitchedSafely ==
  ASSUME Types, [Next]_vars, NEW t \in Tab, <<status'[t], Id(t)'>> # <<status[t], Id(t)>>
  PROVE  \/ status'[t] = "loading"
         \/ \E c \in calls \ calls' :
              c.tab = t /\ (c.kind \in {"login", "logout"} \/ c.generation = generation[t])
<1>0. ~Same(t)
  BY SameId
<1>1. CASE UNCHANGED vars
  BY <1>0, <1>1 DEF vars, store, Same
<1>2. ASSUME NEW u \in Tab, Submit(u)
      PROVE  status'[t] = "loading"
  <2>1. CASE Open(u)
    BY <1>0, <2>1 DEF Open, Same, Types, TypeOK
  <2>2. CASE ~Open(u)
    BY <1>0, <1>2, <2>2 DEF Submit, handleSignOut, handleConfirm, updateTimezone, bootstrapSync,
                            SubmitLogin, SubmitReset, store, Same
  <2> QED BY <2>1, <2>2
<1>3. ASSUME NEW c \in calls, Serve(c)
      PROVE  FALSE
  BY <1>0, <1>3 DEF Serve, ServeSession, ServeLogin, ServeEmailAction, Lose, store, Same
<1>4. ASSUME NEW c \in calls, Continue(c)
      PROVE  Concerned(c, t)
  BY <1>0, <1>4, SwitchedBy
<1>5. ASSUME NEW s \in DOMAIN session, ExpireSession(s)
      PROVE  FALSE
  BY <1>0, <1>5 DEF ExpireSession, store, Same
<1> QED BY <1>1, <1>2, <1>3, <1>4, <1>5 DEF Next, Concerned

\* The guards of hydrate, refreshCurrentAccount and expireSyncSession hold for any number of
\* tabs and of answers under way: only in the generation that asked do their answers switch
\* who is signed in.  The answers of a login and of a logout are exempt, as in the code: they
\* take effect whenever they come, and a late logout clears a newer login
\* (SettingsPage.tsx, handleSignOut).
THEOREM SwitchesAreCurrent == Spec => OldAnswersSwitchNobody
<1>1. Init => Types
  BY InitTypes
<1>2. Types /\ [Next]_vars => Types'
  BY NextTypes
<1>3. Types /\ [Next]_vars =>
        [\A t \in Tab :
           <<status'[t], Id(t)'>> # <<status[t], Id(t)>> =>
             \/ status'[t] = "loading"
             \/ \E c \in calls \ calls' :
                  c.tab = t /\ (c.kind \in {"login", "logout"} \/ c.generation = generation[t])]_vars
  BY SwitchedSafely
<1> QED BY <1>1, <1>2, <1>3, PTL DEF Spec, OldAnswersSwitchNobody

LEMMA SavedSafely ==
  ASSUME Types, [Next]_vars, NEW a \in Account, zone'[a] # zone[a]
  PROVE  \E c \in calls \ calls' : c.kind = "save" /\ c.of = a
<1>1. CASE UNCHANGED vars
  BY <1>1 DEF vars, server
<1>2. ASSUME NEW t \in Tab, Submit(t)
      PROVE  FALSE
  BY <1>2 DEF Submit, Open, handleSignOut, handleConfirm, updateTimezone, bootstrapSync, SubmitLogin,
              SubmitReset, server
<1>3. ASSUME NEW c \in calls, Serve(c)
      PROVE  c \notin calls' /\ c.kind = "save" /\ c.of = a
  <2>1. PICK b : /\ c.at = "sent" /\ c.kind = "save" /\ c.of = b
                 /\ \E n \in 1 .. MaxZone : /\ zone' = [zone EXCEPT ![b] = n]
                                            /\ Answer(c, "ok", [id |-> b, zone |-> n], c.with)
    BY <1>3 DEF Serve, ServeSession, Route, Expected, ServeLogin, ServeEmailAction, Lose, server
  <2>2. b = a
    BY <2>1 DEF Types, TypeOK
  <2>3. \A n : [c EXCEPT !.at = "answered", !.result = "ok", !.profile = [id |-> b, zone |-> n],
                         !.sets = c.with, !.with = None].at = "answered"
    BY CallOf DEF Call
  <2>4. c \notin calls'
    BY <2>1, <2>3 DEF Answer
  <2> QED BY <2>1, <2>2, <2>4
<1>4. ASSUME NEW c \in calls, Continue(c)
      PROVE  FALSE
  BY <1>4 DEF Continue, ArriveNowhere, HydrateAnswer, HydrateFromCache, LoginAnswer, SignupAnswer,
              LogoutAnswer, EmailActionAnswer, RefreshAnswer, SaveAnswer, SyncAnswer, WriteCache,
              expireSyncSession, server
<1>5. ASSUME NEW s \in DOMAIN session, ExpireSession(s)
      PROVE  FALSE
  BY <1>5 DEF ExpireSession
<1> QED BY <1>1, <1>2, <1>3, <1>4, <1>5 DEF Next

\* expected_account_id keeps every save in its own account, whichever cookie it carries.
THEOREM SavesAreExpected == Spec => SavesReachOwnAccount
<1>1. Init => Types
  BY InitTypes
<1>2. Types /\ [Next]_vars => Types'
  BY NextTypes
<1>3. Types /\ [Next]_vars =>
        [\A a \in Account : zone'[a] # zone[a] =>
           \E c \in calls \ calls' : c.kind = "save" /\ c.of = a]_vars
  BY SavedSafely
<1> QED BY <1>1, <1>2, <1>3, PTL DEF Spec, SavesReachOwnAccount

LEMMA CachedSafely ==
  ASSUME Types, [Next]_vars, \A t \in Tab : status[t] # "authenticated", cache = None
  PROVE  cache' = None
<1>1. CASE UNCHANGED vars
  BY <1>1 DEF vars, browser
<1>2. ASSUME NEW t \in Tab, Submit(t)
      PROVE  cache' = None
  BY <1>2 DEF Submit, Open, handleSignOut, handleConfirm, updateTimezone, bootstrapSync, SubmitLogin,
              SubmitReset, browser
<1>3. ASSUME NEW c \in calls, Serve(c)
      PROVE  cache' = None
  BY <1>3 DEF Serve, ServeSession, ServeLogin, ServeEmailAction, Lose, browser
<1>4. ASSUME NEW c \in calls, Continue(c)
      PROVE  cache' = None
  <2>1. CASE WriteCache(c)
    <3>1. c \in Call /\ WellFormed(c) /\ c.at = "caching"
      BY <2>1, CallOf DEF WriteCache
    <3>2. c.tab \in Tab /\ c.of # None
      BY <3>1, CallOf DEF WellFormed
    <3>3. ~WriteAsserts(c)
      BY <3>2 DEF WriteAsserts, RefreshAsserts, RefreshIsCurrent, isCurrentSyncSession
    <3> QED BY <2>1, <3>3 DEF WriteCache
  <2>2. CASE ~WriteCache(c)
    BY <1>4, <2>2 DEF Continue, ArriveNowhere, HydrateAnswer, HydrateFromCache, LoginAnswer,
         SignupAnswer, LogoutAnswer, EmailActionAnswer, RefreshAnswer, SaveAnswer, SyncAnswer,
         expireSyncSession, browser
  <2> QED BY <2>1, <2>2
<1>5. ASSUME NEW s \in DOMAIN session, ExpireSession(s)
      PROVE  cache' = None
  BY <1>5 DEF ExpireSession, browser
<1> QED BY <1>1, <1>2, <1>3, <1>4, <1>5 DEF Next

\* What a save, a refresh or a sync left behind never brings a cached profile back.
THEOREM NobodyStaysUncached == Spec => NothingCachedForNobody
<1>1. Init => Types
  BY InitTypes
<1>2. Types /\ [Next]_vars => Types'
  BY NextTypes
<1>3. Types /\ [Next]_vars =>
        [(\A t \in Tab : status[t] # "authenticated") /\ cache = None => cache' = None]_vars
  BY CachedSafely
<1> QED BY <1>1, <1>2, <1>3, PTL DEF Spec, NothingCachedForNobody

-----------------------------------------------------------------------------
(* One tab: the lock on saving a time zone, the end of the loading screen, and   *)
(* the time zone that stays.                                                    *)

\* The calls of a tab that is open
Mine(t) == {c \in calls : c.tab = t}

\* No question is of a later generation or revision than its tab.
NotAheadIn(t) ==
  \A c \in Mine(t) : c.kind \in {"hydrate", "refresh"} =>
    c.revision <= revision[t] /\ c.generation <= generation[t]

\* The save a tab awaits is one, and the lock carries its generation; ...
OneSave(t) ==
  /\ \A c \in Mine(t) : c.kind = "save" => saving[t] = c.generation
  /\ \A c, d \in Mine(t) : c.kind = "save" /\ d.kind = "save" => c = d
  /\ saving[t] # None => \E c \in Mine(t) : c.kind = "save"
  /\ saving[t] # None => saving[t] <= generation[t]

\* ... the form is disabled in that generation, and no hydration of it is under way.
FormFits(t) ==
  /\ timezoneSaving[t] <=> saving[t] = generation[t]
  /\ timezoneSaving[t] => /\ status[t] = "authenticated"
                          /\ \A c \in Mine(t) : c.kind = "hydrate" => c.revision < revision[t]

\* What ends the loading screen
Ends(c, t) ==
  /\ c.generation = generation[t]
  /\ \/ c.kind \in {"hydrate", "refresh"} /\ c.of = None /\ c.revision = revision[t]
     \/ c.kind = "refresh" /\ c.again
     \/ c.kind = "reset" /\ c.strict
PendingIn(t) == status[t] = "loading" => \E c \in Mine(t) : Ends(c, t)

Fits(t) == NotAheadIn(t) /\ OneSave(t) /\ FormFits(t) /\ PendingIn(t)
TabsFit == \A t \in Tab : Fits(t)

\* An answer shows no time zone that is not saved.
AnswersSaved ==
  \A c \in calls : c.result = "ok" /\ c.profile # None => c.profile.zone <= zone[c.profile.id]

\* What is shown is not older than what has been shown in this session, ...
ShownFits(t) ==
  account[t] # None => confirmed[t] <= zone[account[t].id] /\ confirmed[t] <= account[t].zone

\* ... nor is an answer that may still be shown; a tab that reads the cache shows nobody.
QuestionFits(c, t) ==
  /\ c.kind \in {"hydrate", "refresh"} /\ c.at = "answered" /\ c.result = "ok"
       /\ c.revision = revision[t] /\ account[t] # None /\ c.profile.id = account[t].id
     => confirmed[t] <= c.profile.zone
  /\ c.at = "reading" /\ c.generation = generation[t] => status[t] # "authenticated"
ZonesIn(t) == ShownFits(t) /\ \A c \in Mine(t) : QuestionFits(c, t)
ZonesFit == AnswersSaved /\ \A t \in Tab : ZonesIn(t)

IInv == Types /\ TabsFit /\ ZonesFit
-----------------------------------------------------------------------------
(* The calls and the store of one tab *)

TabSame(t) ==
  /\ status'[t] = status[t] /\ account'[t] = account[t] /\ generation'[t] = generation[t]
  /\ timezoneSaving'[t] = timezoneSaving[t] /\ revision'[t] = revision[t]
  /\ saving'[t] = saving[t] /\ confirmed'[t] = confirmed[t]

\* c goes on as e.
Moves(c, e) == calls' = (calls \ {c}) \union {e} /\ Onward(c, e)

LEMMA AnswerTurns ==
  ASSUME Types, NEW c \in calls, NEW r, NEW p, NEW s, Answer(c, r, p, s)
  PROVE  \E e : Moves(c, e) /\ e.at = "answered" /\ e.result = r /\ e.profile = p
<1> DEFINE e == [c EXCEPT !.at = "answered", !.result = r, !.profile = p, !.sets = s,
                          !.with = None]
<1>1. c \in Call
  BY CallOf
<1>2. Onward(c, e) /\ e.at = "answered" /\ e.result = r /\ e.profile = p
  BY <1>1 DEF Call, Onward
<1>3. calls' = (calls \ {c}) \union {e}
  BY DEF Answer
<1> QED BY <1>2, <1>3 DEF Moves

LEMMA BecomesTurns ==
  ASSUME Types, NEW c \in calls, NEW s, Becomes(c, s)
  PROVE  \E e : Moves(c, e) /\ e.at = s /\ e.result = c.result /\ e.profile = c.profile
<1> DEFINE e == [c EXCEPT !.at = s, !.sets = None]
<1>1. c \in Call
  BY CallOf
<1>2. Onward(c, e) /\ e.at = s /\ e.result = c.result /\ e.profile = c.profile
  BY <1>1 DEF Call, Onward
<1>3. calls' = (calls \ {c}) \union {e}
  BY DEF Becomes
<1> QED BY <1>2, <1>3 DEF Moves

LEMMA MineElsewhere ==
  ASSUME NEW t, NEW c, c.tab # t, NEW e, e.tab # t, calls' = (calls \ {c}) \union {e}
  PROVE  Mine(t)' = Mine(t)
BY DEF Mine

LEMMA MineMoves ==
  ASSUME NEW t, NEW c \in calls, c.tab = t, NEW e, e.tab = t, calls' = (calls \ {c}) \union {e}
  PROVE  Mine(t)' = (Mine(t) \ {c}) \union {e} /\ c \in Mine(t)
BY DEF Mine

LEMMA MineEnds ==
  ASSUME NEW t, NEW c \in calls, c.tab = t, Done(c)
  PROVE  Mine(t)' = Mine(t) \ {c} /\ c \in Mine(t)
BY DEF Mine, Done

LEMMA SameAll ==
  ASSUME NEW t, UNCHANGED <<store, confirmed>>
  PROVE  TabSame(t)
BY DEF TabSame, store

\* The server answers one call, and touches no store.
LEMMA Served ==
  ASSUME Types, NEW c \in calls, Serve(c)
  PROVE  /\ UNCHANGED <<store, confirmed>>
         /\ \E e : Moves(c, e) /\ e.at = "answered"
<1>1. UNCHANGED <<store, confirmed>>
  BY DEF Serve, ServeSession, ServeLogin, ServeEmailAction, Lose
<1>2. \E r, p, s : Answer(c, r, p, s)
  BY DEF Serve, ServeSession, Route, ServeLogin, ServeEmailAction, Lose
<1> QED BY <1>1, <1>2, AnswerTurns

\* A refresh follows call c with the next revision, or nothing does.
LEMMA RefreshFollowsOrEnds ==
  ASSUME Types, NEW c \in calls, c.tab # None, NEW strict \in BOOLEAN, NEW again \in BOOLEAN,
         StartRefresh(c, strict, again)
  PROVE  \/ Done(c) /\ UNCHANGED revision
         \/ /\ RefreshIsCurrent(c.tab, c.of, c.generation)
            /\ revision' = [revision EXCEPT ![c.tab] = revision[c.tab] + 1]
            /\ \E n : /\ calls' = (calls \ {c}) \union {n}
                      /\ n.tab = c.tab /\ n.kind = "refresh" /\ n.of = c.of /\ n.at = "sent"
                      /\ n.revision = revision[c.tab] + 1 /\ n.generation = generation[c.tab]
<1>1. PICK r : r = revision[c.tab] + 1
  OBVIOUS
<1>2. PICK n : n = [NewCall(c.tab, "refresh", c.of, r, strict) EXCEPT !.with = cookie', !.again = again]
  OBVIOUS
<1>3. /\ n.tab = c.tab /\ n.kind = "refresh" /\ n.of = c.of /\ n.at = "sent"
      /\ n.revision = r /\ n.generation = generation[c.tab]
  BY <1>2 DEF NewCall
<1> QED BY <1>1, <1>2, <1>3 DEF StartRefresh

LEMMA Elsewhere ==
  ASSUME Types, NEW c \in calls, Serve(c) \/ Continue(c), NEW t \in Tab, c.tab # t
  PROVE  TabSame(t) /\ Mine(t)' = Mine(t)
<1>0. c \in Call /\ WellFormed(c) /\ (c.tab # None => c.tab \in Tab) /\ Stores /\ Flags
  BY CallOf, Parts
<1>1. ASSUME Done(c)
      PROVE  Mine(t)' = Mine(t)
  BY <1>1 DEF Done, Mine
<1>2. ASSUME NEW e, Moves(c, e)
      PROVE  Mine(t)' = Mine(t)
  BY <1>2, MineElsewhere DEF Moves, Onward
<1>3. ASSUME NEW s, Becomes(c, s)
      PROVE  Mine(t)' = Mine(t)
  BY <1>2, <1>3, BecomesTurns
<1>4. CASE Serve(c)
  BY <1>2, <1>4, Served, SameAll
<1>5. CASE ArriveNowhere(c)
  BY <1>1, <1>5, SameAll DEF ArriveNowhere
<1>6. ASSUME KeepLogin, UNCHANGED saving, revision' = revision \/ \E r : c.tab \in Tab /\ revision' = [revision EXCEPT ![c.tab] = r]
      PROVE  TabSame(t)
  BY <1>0, <1>6 DEF KeepLogin, TabSame, Flags
<1>7. ASSUME c.tab \in Tab, UNCHANGED saving, NEW s, NEW p, Adopt(c.tab, p) \/ Replace(c.tab, s, p), UNCHANGED revision
      PROVE  TabSame(t)
  BY <1>0, <1>7 DEF Adopt, Replace, TabSame, Stores
<1>8. CASE HydrateAnswer(c)
  BY <1>0, <1>1, <1>3, <1>6, <1>7, <1>8 DEF HydrateAnswer, KeepFlags, clear
<1>9. CASE HydrateFromCache(c)
  BY <1>0, <1>1, <1>6, <1>7, <1>9 DEF HydrateFromCache, KeepFlags, clear, WellFormed
<1>10. CASE LoginAnswer(c)
  BY <1>0, <1>1, <1>6, <1>7, <1>10 DEF LoginAnswer, KeepFlags, setAuthenticated
<1>11. CASE SignupAnswer(c)
  <2>1. c.tab \in Tab /\ KeepLogin /\ UNCHANGED saving
    BY <1>0, <1>11 DEF SignupAnswer
  <2>2. CASE Done(c) /\ UNCHANGED revision
    BY <1>1, <1>6, <2>1, <2>2
  <2>3. CASE ~(Done(c) /\ UNCHANGED revision)
    <3>1. PICK r : r = revision[c.tab] + 1
      OBVIOUS
    <3>2. PICK n : n = [NewCall(c.tab, "hydrate", None, r, FALSE) EXCEPT !.with = cookie']
      OBVIOUS
    <3>3. n.tab = c.tab
      BY <3>2 DEF NewCall
    <3>4. revision' = [revision EXCEPT ![c.tab] = r] /\ calls' = (calls \ {c}) \union {n}
      BY <1>11, <2>3, <3>1, <3>2 DEF SignupAnswer
    <3> QED BY <1>6, <2>1, <3>3, <3>4, MineElsewhere
  <2> QED BY <2>2, <2>3
<1>12. CASE LogoutAnswer(c)
  BY <1>0, <1>1, <1>7, <1>12 DEF LogoutAnswer, KeepFlags, clear
<1>13. ASSUME c.tab # None, KeepLogin, UNCHANGED saving,
              NEW strict \in BOOLEAN, NEW again \in BOOLEAN, StartRefresh(c, strict, again)
       PROVE  TabSame(t) /\ Mine(t)' = Mine(t)
  BY <1>0, <1>1, <1>6, <1>13, RefreshFollowsOrEnds, MineElsewhere
<1>14. CASE EmailActionAnswer(c)
  <2>1. c.tab # None /\ KeepLogin /\ UNCHANGED saving
    BY <1>14 DEF EmailActionAnswer
  <2>2. (c.kind = "reset") \in BOOLEAN /\ (c.strict /\ c.result = "ok") \in BOOLEAN
    OBVIOUS
  <2>3. CASE StartRefresh(c, c.kind = "reset", c.strict /\ c.result = "ok")
    BY <1>13, <2>1, <2>2, <2>3
  <2> QED BY <1>1, <1>6, <1>14, <2>1, <2>3 DEF EmailActionAnswer
<1>15. CASE RefreshAnswer(c)
  <2>1. c.tab \in Tab /\ c.tab # None /\ UNCHANGED saving
    BY <1>0, <1>15 DEF RefreshAnswer
  <2>2. CASE KeepLogin /\ Done(c) /\ UNCHANGED revision
    BY <1>1, <1>6, <2>1, <2>2
  <2>6. CASE KeepLogin /\ StartRefresh(c, TRUE, FALSE)
    BY <1>13, <2>1, <2>6
  <2>3. CASE TakeProfile(c)
    BY <1>1, <1>7, <2>1, <2>3 DEF TakeProfile
  <2>4. CASE RenewProfile(c)
    BY <1>0, <1>3, <2>1, <2>4 DEF RenewProfile, TabSame, Stores
  <2>5. CASE clear(c.tab) /\ Done(c) /\ UNCHANGED revision
    BY <1>1, <1>7, <2>1, <2>5 DEF clear
  <2> QED BY <1>15, <2>2, <2>3, <2>4, <2>5, <2>6 DEF RefreshAnswer
<1>16. CASE SaveAnswer(c)
  <2>1. TabSame(t)
    BY <1>0, <1>16 DEF SaveAnswer, ReleaseSave, TabSame, Stores, Flags
  <2> QED BY <1>1, <1>3, <1>16, <2>1 DEF SaveAnswer
<1>17. CASE SyncAnswer(c)
  BY <1>1, <1>3, <1>6, <1>17 DEF SyncAnswer, KeepFlags
<1>18. CASE WriteCache(c)
  <2>1. TabSame(t)
    BY <1>0, <1>18 DEF WriteCache, ReleaseSave, TabSame, Stores, Flags
  <2> QED BY <1>1, <1>18, <2>1 DEF WriteCache
<1>19. CASE expireSyncSession(c)
  BY <1>0, <1>1, <1>6, <1>7, <1>19 DEF expireSyncSession, KeepFlags, clear, WellFormed
<1> QED BY <1>4, <1>5, <1>8, <1>9, <1>10, <1>11, <1>12, <1>14, <1>15, <1>16, <1>17, <1>18, <1>19
        DEF Continue
-----------------------------------------------------------------------------
(* What keeps the promises to one tab *)

LEMMA Numbers ==
  ASSUME Types, NEW t \in Tab
  PROVE  /\ revision[t] \in Nat /\ generation[t] \in Nat /\ saving[t] \in Nat \union {None}
         /\ timezoneSaving[t] \in BOOLEAN /\ confirmed[t] \in Nat
         /\ \A c \in Mine(t) : c \in calls /\ c \in Call /\ c.revision \in Nat /\ c.generation \in Nat
BY DEF Types, TypeOK, Mine, Call

LEMMA QuietFits ==
  ASSUME NEW t \in Tab, Fits(t), TabSame(t), Mine(t)' = Mine(t)
  PROVE  Fits(t)'
BY DEF Fits, NotAheadIn, OneSave, FormFits, PendingIn, Ends, TabSame

LEMMA OnwardFits ==
  ASSUME NEW t \in Tab, Fits(t), TabSame(t), NEW c \in Mine(t), NEW e, Onward(c, e),
         Mine(t)' = (Mine(t) \ {c}) \union {e}
  PROVE  Fits(t)'
<1>1. NotAheadIn(t)' /\ PendingIn(t)'
  BY DEF Fits, NotAheadIn, PendingIn, Ends, TabSame, Onward
<1>2. OneSave(t)'
  BY DEF Fits, OneSave, TabSame, Onward
<1>3. FormFits(t)'
  BY DEF Fits, FormFits, TabSame, Onward
<1> QED BY <1>1, <1>2, <1>3 DEF Fits

LEMMA LeavesFits ==
  ASSUME NEW t \in Tab, Fits(t), TabSame(t), NEW c \in Mine(t), c.kind # "save",
         status[t] = "loading" => ~Ends(c, t), Mine(t)' = Mine(t) \ {c}
  PROVE  Fits(t)'
<1>1. NotAheadIn(t)' /\ PendingIn(t)'
  BY DEF Fits, NotAheadIn, PendingIn, Ends, TabSame
<1>2. OneSave(t)' /\ FormFits(t)'
  BY DEF Fits, OneSave, FormFits, TabSame
<1> QED BY <1>1, <1>2 DEF Fits

\* The page sends a call that is no question and no save.
LEMMA SentFits ==
  ASSUME NEW t \in Tab, Fits(t), TabSame(t), NEW n, n.kind \notin {"hydrate", "refresh", "save"},
         Mine(t)' = Mine(t) \union {n}
  PROVE  Fits(t)'
<1>1. NotAheadIn(t)' /\ PendingIn(t)'
  BY DEF Fits, NotAheadIn, PendingIn, Ends, TabSame
<1>2. OneSave(t)' /\ FormFits(t)'
  BY DEF Fits, OneSave, FormFits, TabSame
<1> QED BY <1>1, <1>2 DEF Fits

\* An answer changes who is signed in, in the next generation or in the same one.
LEMMA SwitchFits ==
  ASSUME Types, NEW t \in Tab, Fits(t), NEW c \in Mine(t), c.kind # "save", Mine(t)' = Mine(t) \ {c},
         revision'[t] = revision[t], saving'[t] = saving[t], status'[t] # "loading",
         \/ generation'[t] = generation[t] + 1 /\ ~timezoneSaving'[t]
         \/ /\ generation'[t] = generation[t] /\ timezoneSaving'[t] = timezoneSaving[t]
            /\ status'[t] = "authenticated"
  PROVE  Fits(t)'
<1>1. NotAheadIn(t)'
  BY Numbers DEF Fits, NotAheadIn
<1>2. OneSave(t)'
  BY Numbers, NoneAssumption DEF Fits, OneSave
<1>3. FormFits(t)'
  BY Numbers, NoneAssumption DEF Fits, OneSave, FormFits
<1> QED BY <1>1, <1>2, <1>3 DEF Fits, PendingIn

\* A question n follows call c with the next revision.
LEMMA FollowFits ==
  ASSUME Types, NEW t \in Tab, Fits(t), NEW c \in Mine(t), c.kind # "save",
         NEW n, Mine(t)' = (Mine(t) \ {c}) \union {n}, n.kind \in {"hydrate", "refresh"},
         n.revision = revision[t] + 1, n.generation = generation[t],
         revision'[t] = revision[t] + 1, saving'[t] = saving[t], status'[t] = status[t],
         generation'[t] = generation[t], timezoneSaving'[t] = timezoneSaving[t],
         status[t] = "loading" => n.of = None, n.kind = "hydrate" => ~timezoneSaving[t]
  PROVE  Fits(t)'
<1>1. NotAheadIn(t)'
  BY Numbers DEF Fits, NotAheadIn
<1>2. OneSave(t)'
  BY Numbers DEF Fits, OneSave
<1>3. FormFits(t)'
  BY Numbers DEF Fits, FormFits
<1>4. PendingIn(t)'
  BY DEF PendingIn, Ends
<1> QED BY <1>1, <1>2, <1>3, <1>4 DEF Fits
-----------------------------------------------------------------------------
(* Every step keeps them *)

\* A page, the one of tab t, sends a call.
LEMMA SubmitFits ==
  ASSUME Types, NEW t \in Tab, Submit(t), Fits(t)
  PROVE  Fits(t)'
<1>0. Stores /\ Flags
  BY Parts
<1>1. ASSUME NEW n, n.tab = t, Send(n)
      PROVE  Mine(t)' = Mine(t) \union {n}
  BY <1>1 DEF Send, Mine
<1>2. CASE Open(t)
  <2>1. PICK n : n = [NewCall(t, "hydrate", None, 1, FALSE) EXCEPT !.generation = 0]
    OBVIOUS
  <2>2. /\ n.tab = t /\ n.kind = "hydrate" /\ n.of = None /\ n.revision = 1 /\ n.generation = 0
    BY <2>1 DEF NewCall
  <2>3. \A c \in calls : [c EXCEPT !.tab = None, !.generation = 0, !.revision = 0,
                                   !.strict = FALSE, !.again = FALSE].tab # t
    <3> SUFFICES ASSUME NEW c \in calls
                 PROVE  [c EXCEPT !.tab = None, !.generation = 0, !.revision = 0,
                                  !.strict = FALSE, !.again = FALSE].tab # t
      OBVIOUS
    <3>1. c \in Call
      BY CallOf
    <3> QED BY <3>1, NoneAssumption DEF Call
  <2>4. Mine(t)' = {n}
    BY <1>2, <2>1, <2>2, <2>3 DEF Open, Mine
  <2>5. /\ status'[t] = "loading" /\ generation'[t] = 0 /\ timezoneSaving'[t] = FALSE
        /\ revision'[t] = 1 /\ saving'[t] = None
    BY <1>0, <1>2 DEF Open, Stores, Flags
  <2>6. NotAheadIn(t)' /\ PendingIn(t)'
    BY <2>2, <2>4, <2>5 DEF NotAheadIn, PendingIn, Ends
  <2>7. OneSave(t)'
    BY <2>2, <2>4, <2>5 DEF OneSave
  <2>8. FormFits(t)'
    BY <2>5, NoneAssumption DEF FormFits
  <2> QED BY <2>6, <2>7, <2>8 DEF Fits
<1>3. ASSUME NEW a \in Account, SubmitLogin(t, a)
      PROVE  Fits(t)'
  <2>1. PICK kind \in {"login", "signup"} : Send(NewCall(t, kind, a, 0, FALSE))
    BY <1>3 DEF SubmitLogin
  <2>2. NewCall(t, kind, a, 0, FALSE).tab = t /\ NewCall(t, kind, a, 0, FALSE).kind = kind
    BY DEF NewCall
  <2>3. TabSame(t)
    BY <1>3, SameAll DEF SubmitLogin
  <2> QED BY <1>1, <2>1, <2>2, <2>3, SentFits
<1>4. ASSUME NEW kind \in {"logout", "verify", "sync"}, NEW a, Send(NewCall(t, kind, a, 0, FALSE)),
             UNCHANGED <<store, confirmed>>
      PROVE  Fits(t)'
  <2>1. NewCall(t, kind, a, 0, FALSE).tab = t /\ NewCall(t, kind, a, 0, FALSE).kind = kind
    BY DEF NewCall
  <2> QED BY <1>1, <1>4, <2>1, SameAll, SentFits
<1>5. CASE handleSignOut(t) \/ handleConfirm(t) \/ bootstrapSync(t)
  BY <1>4, <1>5 DEF handleSignOut, handleConfirm, bootstrapSync
<1>6. ASSUME NEW a \in Account, SubmitReset(t, a)
      PROVE  Fits(t)'
  <2>1. PICK n : n = [NewCall(t, "reset", Id(t), 0, status[t] = "loading")
                        EXCEPT !.profile = [id |-> a, zone |-> 0]]
    OBVIOUS
  <2>2. /\ n.tab = t /\ n.kind = "reset" /\ n.generation = generation[t]
        /\ n.strict = (status[t] = "loading")
    BY <2>1 DEF NewCall
  <2>3. /\ Send(n) /\ revision' = [revision EXCEPT ![t] = @ + 1]
        /\ UNCHANGED <<status, account, generation, timezoneSaving, saving, confirmed>>
    BY <1>6, <2>1 DEF SubmitReset
  <2>4. revision'[t] = revision[t] + 1 /\ Mine(t)' = Mine(t) \union {n}
    BY <1>0, <1>1, <2>2, <2>3 DEF Flags
  <2>5. NotAheadIn(t)'
    BY <2>2, <2>3, <2>4, Numbers DEF Fits, NotAheadIn
  <2>6. PendingIn(t)'
    BY <2>2, <2>3, <2>4 DEF PendingIn, Ends
  <2>7. OneSave(t)'
    BY <2>2, <2>3, <2>4 DEF Fits, OneSave
  <2>8. FormFits(t)'
    BY <2>2, <2>3, <2>4, Numbers DEF Fits, FormFits
  <2> QED BY <2>5, <2>6, <2>7, <2>8 DEF Fits
<1>7. CASE updateTimezone(t)
  <2>1. PICK n : n = NewCall(t, "save", Id(t), 0, FALSE)
    OBVIOUS
  <2>2. n.tab = t /\ n.kind = "save" /\ n.generation = generation[t]
    BY <2>1 DEF NewCall
  <2>3. /\ Send(n) /\ revision' = [revision EXCEPT ![t] = @ + 1]
        /\ saving' = [saving EXCEPT ![t] = generation[t]]
        /\ timezoneSaving' = [timezoneSaving EXCEPT ![t] = TRUE]
        /\ saving[t] = None /\ status[t] = "authenticated"
        /\ UNCHANGED <<status, account, generation, confirmed>>
    BY <1>7, <2>1 DEF updateTimezone
  <2>4. /\ revision'[t] = revision[t] + 1 /\ Mine(t)' = Mine(t) \union {n}
        /\ saving'[t] = generation[t] /\ timezoneSaving'[t] = TRUE
    BY <1>0, <1>1, <2>2, <2>3 DEF Flags, Stores
  <2>5. NotAheadIn(t)'
    BY <2>2, <2>3, <2>4, Numbers DEF Fits, NotAheadIn
  <2>6. PendingIn(t)'
    BY <2>3 DEF PendingIn
  <2>7. \A c \in Mine(t) : c.kind # "save"
    BY <2>3, Numbers, NoneAssumption DEF Fits, OneSave
  <2>8. OneSave(t)'
    BY <2>2, <2>3, <2>4, <2>7, Numbers DEF Fits, OneSave
  <2>9. FormFits(t)'
    BY <2>2, <2>3, <2>4, Numbers DEF Fits, FormFits, NotAheadIn
  <2> QED BY <2>5, <2>6, <2>8, <2>9 DEF Fits
<1> QED BY <1>2, <1>3, <1>5, <1>6, <1>7 DEF Submit

LEMMA SubmitElsewhere ==
  ASSUME Types, NEW u \in Tab, Submit(u), NEW t \in Tab, t # u
  PROVE  TabSame(t) /\ Mine(t)' = Mine(t)
<1>0. Stores /\ Flags
  BY Parts
<1>1. ASSUME NEW n, n.tab = u, Send(n)
      PROVE  Mine(t)' = Mine(t)
  BY <1>1 DEF Send, Mine
<1>2. CASE Open(u)
  <2>1. PICK n : n = [NewCall(u, "hydrate", None, 1, FALSE) EXCEPT !.generation = 0]
    OBVIOUS
  <2>2. n.tab = u
    BY <2>1 DEF NewCall
  <2>3. \A c \in calls : [c EXCEPT !.tab = None, !.generation = 0, !.revision = 0,
                                   !.strict = FALSE, !.again = FALSE].tab # t
    <3> SUFFICES ASSUME NEW c \in calls
                 PROVE  [c EXCEPT !.tab = None, !.generation = 0, !.revision = 0,
                                  !.strict = FALSE, !.again = FALSE].tab # t
      OBVIOUS
    <3>1. c \in Call
      BY CallOf
    <3> QED BY <3>1, NoneAssumption DEF Call
  <2>4. Mine(t)' = Mine(t)
    BY <1>2, <2>1, <2>2, <2>3 DEF Open, Mine
  <2> QED BY <1>0, <1>2, <2>4 DEF Open, TabSame, Stores, Flags
<1>3. ASSUME NEW kind, NEW a, NEW strict, Send(NewCall(u, kind, a, 0, strict))
      PROVE  Mine(t)' = Mine(t)
  <2>1. NewCall(u, kind, a, 0, strict).tab = u
    BY DEF NewCall
  <2> QED BY <1>1, <1>3, <2>1
<1>4. CASE handleSignOut(u) \/ handleConfirm(u) \/ bootstrapSync(u) \/ \E a \in Account : SubmitLogin(u, a)
  BY <1>3, <1>4, SameAll DEF handleSignOut, handleConfirm, bootstrapSync, SubmitLogin
<1>5. ASSUME NEW a \in Account, SubmitReset(u, a)
      PROVE  TabSame(t) /\ Mine(t)' = Mine(t)
  <2>1. PICK n : n = [NewCall(u, "reset", Id(u), 0, status[u] = "loading")
                        EXCEPT !.profile = [id |-> a, zone |-> 0]]
    OBVIOUS
  <2>2. n.tab = u
    BY <2>1 DEF NewCall
  <2>3. Mine(t)' = Mine(t)
    BY <1>1, <1>5, <2>1, <2>2 DEF SubmitReset
  <2> QED BY <1>0, <1>5, <2>3 DEF SubmitReset, TabSame, Stores, Flags
<1>6. CASE updateTimezone(u)
  BY <1>0, <1>3, <1>6 DEF updateTimezone, TabSame, Stores, Flags
<1> QED BY <1>2, <1>4, <1>5, <1>6 DEF Submit

\* What Adopt and Replace make of the tab they are for
LEMMA AdoptedTab ==
  ASSUME Types, NEW t \in Tab, NEW p \in Profile, Adopt(t, p)
  PROVE  /\ status'[t] = "authenticated" /\ account'[t] = p
         /\ timezoneSaving'[t] = timezoneSaving[t]
         /\ IF Id(t) = p.id THEN generation'[t] = generation[t] /\ confirmed'[t] = confirmed[t]
                            ELSE generation'[t] = generation[t] + 1 /\ confirmed'[t] = 0
<1>1. Stores
  BY Parts
<1>2. status'[t] = "authenticated" /\ account'[t] = p /\ timezoneSaving'[t] = timezoneSaving[t]
  BY <1>1 DEF Adopt, Stores
<1>3. generation[t] \in Nat
  BY <1>1 DEF Stores
<1>4. IF Id(t) = p.id THEN generation'[t] = generation[t] /\ confirmed'[t] = confirmed[t]
                      ELSE generation'[t] = generation[t] + 1 /\ confirmed'[t] = 0
  BY <1>1, <1>3 DEF Adopt, Stores
<1> QED BY <1>2, <1>4

LEMMA ReplacedTab ==
  ASSUME Types, NEW t \in Tab, NEW s, NEW p, Replace(t, s, p)
  PROVE  /\ status'[t] = s /\ account'[t] = p /\ timezoneSaving'[t] = FALSE
         /\ generation'[t] = generation[t] + 1 /\ confirmed'[t] = 0
<1>1. Stores
  BY Parts
<1> QED BY <1>1 DEF Replace, Stores

\* Before an answer can be adopted, no save of that session is under way.
LEMMA AdoptFits ==
  ASSUME Types, NEW t \in Tab, Fits(t), NEW c \in Mine(t), c.kind # "save", Done(c), c.tab = t,
         NEW p \in Profile, Adopt(t, p), ~timezoneSaving[t], UNCHANGED <<revision, saving>>
  PROVE  Fits(t)'
<1>1. c \in calls /\ Mine(t)' = Mine(t) \ {c}
  BY MineEnds, Numbers
<1>2. /\ status'[t] = "authenticated" /\ timezoneSaving'[t] = timezoneSaving[t]
      /\ generation'[t] = generation[t] \/ generation'[t] = generation[t] + 1
  BY AdoptedTab
<1> QED BY <1>1, <1>2, SwitchFits

LEMMA ReplaceFits ==
  ASSUME Types, NEW t \in Tab, Fits(t), NEW c \in Mine(t), c.kind # "save", Done(c), c.tab = t,
         NEW s, NEW p, Replace(t, s, p), s # "loading", UNCHANGED <<revision, saving>>
  PROVE  Fits(t)'
<1>1. c \in calls /\ Mine(t)' = Mine(t) \ {c}
  BY MineEnds, Numbers
<1>2. /\ status'[t] = s /\ ~timezoneSaving'[t] /\ generation'[t] = generation[t] + 1
  BY ReplacedTab
<1> QED BY <1>1, <1>2, SwitchFits

LEMMA KeepFits ==
  ASSUME Types, NEW t \in Tab, Fits(t), NEW c \in Mine(t), c.kind # "save", c.tab = t,
         KeepLogin, UNCHANGED <<revision, saving>>,
         \/ Done(c) /\ (status[t] = "loading" => ~Ends(c, t))
         \/ \E e : Moves(c, e)
  PROVE  Fits(t)'
<1>0. c \in calls
  BY Numbers
<1>1. TabSame(t)
  BY DEF KeepLogin, TabSame
<1>2. CASE Done(c) /\ (status[t] = "loading" => ~Ends(c, t))
  BY <1>0, <1>1, <1>2, MineEnds, LeavesFits
<1>3. ASSUME NEW e, Moves(c, e)
      PROVE  Fits(t)'
  <2>1. Onward(c, e) /\ e.tab = t /\ calls' = (calls \ {c}) \union {e}
    BY <1>3 DEF Moves, Onward
  <2>2. Mine(t)' = (Mine(t) \ {c}) \union {e}
    BY <1>0, <2>1, MineMoves
  <2> QED BY <1>1, <2>1, <2>2, OnwardFits
<1> QED BY <1>2, <1>3

\* A current hydration meets no save of its own session.
LEMMA HydrationMeetsNoSave ==
  ASSUME Types, NEW t \in Tab, Fits(t), NEW c \in Mine(t), c.kind = "hydrate", c.revision = revision[t]
  PROVE  ~timezoneSaving[t]
BY Numbers DEF Fits, FormFits

LEMMA HydrateFits ==
  ASSUME Types, NEW c \in calls, NEW t \in Tab, c.tab = t, Fits(t),
         HydrateAnswer(c) \/ HydrateFromCache(c)
  PROVE  Fits(t)'
<1>0. /\ c \in Call /\ WellFormed(c) /\ c \in Mine(t) /\ c.tab # None /\ c.kind = "hydrate"
      /\ UNCHANGED <<revision, saving>> /\ c.of = None
  BY CallOf, NoneAssumption DEF Mine, HydrateAnswer, HydrateFromCache, WellFormed, KeepFlags
<1>1. ~HydrateIsCurrent(c) => ~Ends(c, t)
  BY <1>0 DEF HydrateIsCurrent, Ends, WellFormed
<1>2. CASE ~HydrateIsCurrent(c) /\ KeepLogin /\ Done(c)
  BY <1>0, <1>1, <1>2, KeepFits
<1>3. ASSUME HydrateIsCurrent(c), NEW p \in Profile, Adopt(t, p), Done(c)
      PROVE  Fits(t)'
  BY <1>0, <1>3, AdoptFits, HydrationMeetsNoSave DEF HydrateIsCurrent
<1>4. CASE clear(t) /\ Done(c)
  BY <1>0, <1>4, ReplaceFits DEF clear
<1>5. CASE KeepLogin /\ status[t] = "authenticated" /\ Done(c)
  BY <1>0, <1>5, KeepFits
<1>6. CASE KeepLogin /\ Becomes(c, "reading")
  BY <1>0, <1>6, KeepFits, BecomesTurns
<1>7. c.result = "ok" => c.profile \in Profile
  BY <1>0 DEF WellFormed, Call
<1>8. cache # None => cache \in Profile
  BY DEF Types, TypeOK
<1>9. CASE HydrateAnswer(c)
  BY <1>2, <1>3, <1>4, <1>5, <1>6, <1>7, <1>9 DEF HydrateAnswer
<1>10. CASE HydrateFromCache(c)
  BY <1>2, <1>3, <1>4, <1>8, <1>10 DEF HydrateFromCache
<1> QED BY <1>9, <1>10

LEMMA SignInFits ==
  ASSUME Types, NEW c \in calls, NEW t \in Tab, c.tab = t, Fits(t),
         ArriveNowhere(c) \/ LoginAnswer(c) \/ SignupAnswer(c) \/ LogoutAnswer(c)
  PROVE  Fits(t)'
<1>0. /\ c \in Call /\ WellFormed(c) /\ c \in Mine(t) /\ c.tab # None /\ Flags /\ Stores
  BY CallOf, Parts, NoneAssumption DEF Mine
<1>1. CASE ArriveNowhere(c)
  BY <1>0, <1>1 DEF ArriveNowhere
<1>2. CASE LoginAnswer(c)
  <2>1. c.kind = "login" /\ Done(c) /\ UNCHANGED <<revision, saving>>
    BY <1>2 DEF LoginAnswer, KeepFlags
  <2>2. CASE KeepLogin
    BY <1>0, <2>1, <2>2, KeepFits DEF Ends
  <2>3. CASE setAuthenticated(t, c.profile)
    BY <1>0, <2>1, <2>3, ReplaceFits DEF setAuthenticated
  <2> QED BY <1>2, <2>2, <2>3 DEF LoginAnswer
<1>3. CASE LogoutAnswer(c)
  BY <1>0, <1>3, ReplaceFits DEF LogoutAnswer, KeepFlags, clear
<1>4. CASE SignupAnswer(c)
  <2>1. c.kind = "signup" /\ KeepLogin /\ UNCHANGED saving
    BY <1>4 DEF SignupAnswer
  <2>2. CASE Done(c) /\ UNCHANGED revision
    BY <1>0, <2>1, <2>2, KeepFits DEF Ends
  <2>3. CASE ~(Done(c) /\ UNCHANGED revision)
    <3>1. PICK n : n = [NewCall(t, "hydrate", None, revision[t] + 1, FALSE) EXCEPT !.with = cookie']
      OBVIOUS
    <3>2. /\ n.tab = t /\ n.kind = "hydrate" /\ n.of = None /\ n.revision = revision[t] + 1
          /\ n.generation = generation[t]
      BY <3>1 DEF NewCall
    <3>3. /\ revision' = [revision EXCEPT ![t] = revision[t] + 1]
          /\ calls' = (calls \ {c}) \union {n} /\ saving[t] # generation[t]
      BY <1>4, <2>3, <3>1 DEF SignupAnswer
    <3>4. revision'[t] = revision[t] + 1 /\ Mine(t)' = (Mine(t) \ {c}) \union {n}
      BY <1>0, <3>2, <3>3, MineMoves DEF Flags
    <3>5. ~timezoneSaving[t]
      BY <3>3 DEF Fits, FormFits
    <3> QED BY <1>0, <2>1, <3>2, <3>4, <3>5, FollowFits DEF KeepLogin
  <2> QED BY <2>2, <2>3
<1> QED BY <1>1, <1>2, <1>3, <1>4

\* A refresh that starts is of the tab's own session, and of nobody while it is loading.
LEMMA StartRefreshFits ==
  ASSUME Types, NEW c \in calls, NEW t \in Tab, c.tab = t, Fits(t), c.tab # None, c.kind # "save",
         KeepLogin, UNCHANGED saving,
         NEW strict \in BOOLEAN, NEW again \in BOOLEAN, StartRefresh(c, strict, again),
         status[t] = "loading" /\ Ends(c, t) => c.of = None /\ c.strict
  PROVE  Fits(t)'
<1>0. c \in Mine(t) /\ Flags /\ Stores /\ c \in Call
  BY Parts, CallOf DEF Mine
<1>1. CASE Done(c) /\ UNCHANGED revision
  <2>1. ASSUME status[t] = "loading", Ends(c, t)
        PROVE  FALSE
    <3>1. Id(t) = None
      BY <1>0, <2>1 DEF Id, Stores
    <3>2. RefreshIsCurrent(t, c.of, c.generation)
      BY <2>1, <3>1 DEF RefreshIsCurrent, Ends
    <3>3. revision' = [revision EXCEPT ![t] = revision[t] + 1]
      BY <2>1, <3>2 DEF StartRefresh
    <3> QED BY <1>0, <1>1, <3>3 DEF Flags
  <2> QED BY <1>0, <1>1, <2>1, KeepFits
<1>2. ASSUME RefreshIsCurrent(t, c.of, c.generation),
             revision' = [revision EXCEPT ![t] = revision[t] + 1],
             NEW n, calls' = (calls \ {c}) \union {n}, n.tab = t, n.kind = "refresh", n.of = c.of,
             n.revision = revision[t] + 1, n.generation = generation[t]
      PROVE  Fits(t)'
  <2>1. status[t] = "loading" => n.of = None
    BY <1>2 DEF RefreshIsCurrent
  <2>2. revision'[t] = revision[t] + 1 /\ Mine(t)' = (Mine(t) \ {c}) \union {n}
    BY <1>0, <1>2, MineMoves DEF Flags
  <2> QED BY <1>0, <1>2, <2>1, <2>2, FollowFits DEF KeepLogin
<1> QED BY <1>1, <1>2, RefreshFollowsOrEnds

LEMMA RefreshFits ==
  ASSUME Types, NEW c \in calls, NEW t \in Tab, c.tab = t, Fits(t),
         EmailActionAnswer(c) \/ RefreshAnswer(c)
  PROVE  Fits(t)'
<1>0. /\ c \in Call /\ WellFormed(c) /\ c \in Mine(t) /\ c.tab # None /\ Stores
      /\ UNCHANGED saving /\ c.kind \in {"reset", "verify", "refresh"}
  BY CallOf, Parts, NoneAssumption DEF Mine, EmailActionAnswer, RefreshAnswer
<1>1. CASE EmailActionAnswer(c)
  <2>1. KeepLogin /\ c.kind \in {"reset", "verify"}
    BY <1>1 DEF EmailActionAnswer
  <2>2. CASE ~RefreshFollows(c) /\ Done(c) /\ UNCHANGED revision
    BY <1>0, <2>1, <2>2, KeepFits DEF Ends, RefreshFollows
  <2>3. CASE StartRefresh(c, c.kind = "reset", c.strict /\ c.result = "ok")
    <3>1. PICK strict \in BOOLEAN, again \in BOOLEAN :
            strict = (c.kind = "reset") /\ again = (c.strict /\ c.result = "ok")
      BY <1>0 DEF Call
    <3>2. StartRefresh(c, strict, again)
      BY <2>3, <3>1
    <3>3. Ends(c, t) => c.of = None /\ c.strict
      BY <1>0, <2>1 DEF Ends, WellFormed
    <3> QED BY <1>0, <2>1, <3>2, <3>3, StartRefreshFits
  <2> QED BY <1>1, <2>2, <2>3 DEF EmailActionAnswer
<1>2. CASE RefreshAnswer(c)
  <2>1. c.kind = "refresh"
    BY <1>2 DEF RefreshAnswer
  <2>2. CASE c.again /\ KeepLogin /\ StartRefresh(c, TRUE, FALSE)
    <3>1. c.of = None /\ c.strict
      BY <1>0, <2>1, <2>2 DEF WellFormed
    <3> QED BY <1>0, <2>2, <3>1, StartRefreshFits
  <2>3. CASE ~RefreshAsserts(c) /\ ~c.again /\ KeepLogin /\ Done(c) /\ UNCHANGED revision
    <3>1. ASSUME status[t] = "loading", Ends(c, t)
          PROVE  FALSE
      <4>1. c.of = None /\ c.revision = revision[t] /\ c.generation = generation[t] /\ Id(t) = None
        BY <1>0, <2>1, <2>3, <3>1 DEF Ends, Id, Stores
      <4> QED BY <2>3, <3>1, <4>1 DEF RefreshAsserts, RefreshIsCurrent
    <3> QED BY <1>0, <2>1, <2>3, <3>1, KeepFits
  <2>4. CASE TakeProfile(c)
    <3>1. c.profile \in Profile
      BY <1>0, <2>1, <2>4 DEF TakeProfile, WellFormed, Call
    <3>2. ~timezoneSaving[t]
      BY <2>4 DEF TakeProfile, RefreshAsserts, RefreshIsCurrent, Fits, FormFits
    <3> QED BY <1>0, <2>1, <2>4, <3>1, <3>2, AdoptFits DEF TakeProfile
  <2>5. CASE RenewProfile(c)
    <3>1. /\ UNCHANGED <<status, generation, timezoneSaving, confirmed, revision>>
          /\ Becomes(c, "caching") /\ status[t] = "authenticated"
      BY <2>5 DEF RenewProfile, RefreshAsserts, RefreshIsCurrent
    <3>2. PICK e : Moves(c, e)
      BY <3>1, BecomesTurns
    <3>3. Mine(t)' = (Mine(t) \ {c}) \union {e} /\ e.kind = c.kind /\ Onward(c, e)
      BY <1>0, <3>2, MineMoves DEF Moves, Onward
    <3>4. NotAheadIn(t)'
      BY <1>0, <3>1, <3>3 DEF Fits, NotAheadIn, Onward
    <3>5. OneSave(t)'
      BY <1>0, <2>1, <3>1, <3>3 DEF Fits, OneSave
    <3>6. FormFits(t)'
      BY <1>0, <2>1, <3>1, <3>3 DEF Fits, FormFits
    <3> QED BY <3>1, <3>4, <3>5, <3>6 DEF Fits, PendingIn
  <2>6. CASE clear(t) /\ Done(c) /\ UNCHANGED revision
    BY <1>0, <2>1, <2>6, ReplaceFits DEF clear
  <2>7. CASE /\ RefreshAsserts(c) /\ ~Expires(c) /\ (c.result = "ok" => c.of # None)
             /\ KeepLogin /\ Done(c) /\ UNCHANGED revision
    <3>1. status[t] = "loading" => c.of = None
      BY <2>7 DEF RefreshAsserts, RefreshIsCurrent
    <3>2. status[t] # "loading"
      BY <1>0, <2>1, <2>7, <3>1 DEF Expires, WellFormed
    <3> QED BY <1>0, <2>1, <2>7, <3>2, KeepFits
  <2> QED BY <1>0, <1>2, <2>2, <2>3, <2>4, <2>5, <2>6, <2>7 DEF RefreshAnswer
<1> QED BY <1>1, <1>2

\* The one save of a tab ends, and the lock with it.
LEMMA ReleaseFits ==
  ASSUME Types, NEW c \in calls, NEW t \in Tab, c.tab = t, Fits(t), c.kind = "save",
         ReleaseSave(c), Done(c), UNCHANGED <<status, generation, revision>>
  PROVE  Fits(t)'
<1>0. c \in Mine(t) /\ Mine(t)' = Mine(t) \ {c} /\ Stores /\ Flags
  BY MineEnds, Parts
<1>1. saving'[t] = None /\ timezoneSaving'[t] = (timezoneSaving[t] /\ generation[t] # c.generation)
  BY <1>0 DEF ReleaseSave, Stores, Flags
<1>2. NotAheadIn(t)'
  BY <1>0 DEF Fits, NotAheadIn
<1>3. \A d \in Mine(t)' : d.kind # "save"
  BY <1>0 DEF Fits, OneSave
<1>4. OneSave(t)'
  BY <1>1, <1>3 DEF OneSave
<1>5. ~timezoneSaving'[t]
  BY <1>0, <1>1 DEF Fits, OneSave, FormFits
<1>6. FormFits(t)'
  BY <1>1, <1>5, Numbers, NoneAssumption DEF FormFits
<1>7. PendingIn(t)'
  BY <1>0 DEF Fits, PendingIn, Ends
<1> QED BY <1>2, <1>4, <1>6, <1>7 DEF Fits

LEMMA SaveFits ==
  ASSUME Types, NEW c \in calls, NEW t \in Tab, c.tab = t, Fits(t),
         SaveAnswer(c) \/ SyncAnswer(c) \/ WriteCache(c) \/ expireSyncSession(c)
  PROVE  Fits(t)'
<1>0. c \in Call /\ WellFormed(c) /\ c \in Mine(t) /\ c.tab # None /\ Stores /\ Flags
  BY CallOf, Parts, NoneAssumption DEF Mine
<1>1. CASE SaveAnswer(c)
  <2>1. c.kind = "save" /\ UNCHANGED <<status, generation>>
    BY <1>1 DEF SaveAnswer
  <2>2. CASE ReleaseSave(c) /\ Done(c) /\ UNCHANGED revision
    BY <2>1, <2>2, ReleaseFits
  <2>3. CASE /\ isCurrentSyncSession(c) /\ Becomes(c, "caching")
             /\ revision' = [revision EXCEPT ![t] = @ + 1] /\ UNCHANGED <<timezoneSaving, saving>>
    <3>1. PICK e : Moves(c, e)
      BY <2>3, BecomesTurns
    <3>2. Mine(t)' = (Mine(t) \ {c}) \union {e} /\ e.kind = c.kind /\ Onward(c, e)
      BY <1>0, <3>1, MineMoves DEF Moves, Onward
    <3>3. revision'[t] = revision[t] + 1 /\ status[t] = "authenticated"
      BY <1>0, <2>3 DEF Flags, isCurrentSyncSession
    <3>4. NotAheadIn(t)'
      BY <1>0, <2>1, <3>2, <3>3, Numbers DEF Fits, NotAheadIn
    <3>5. OneSave(t)'
      BY <1>0, <2>1, <2>3, <3>2 DEF Fits, OneSave, Onward
    <3>6. FormFits(t)'
      BY <1>0, <2>1, <2>3, <3>2, <3>3, Numbers DEF Fits, FormFits
    <3> QED BY <2>1, <3>3, <3>4, <3>5, <3>6 DEF Fits, PendingIn
  <2> QED BY <1>1, <2>2, <2>3 DEF SaveAnswer
<1>2. CASE SyncAnswer(c)
  <2>1. c.kind = "sync" /\ KeepLogin /\ UNCHANGED <<revision, saving>>
    BY <1>2 DEF SyncAnswer, KeepFlags
  <2>2. Done(c) \/ Becomes(c, "caching") \/ Becomes(c, "expiring")
    BY <1>2 DEF SyncAnswer
  <2> QED BY <1>0, <2>1, <2>2, KeepFits, BecomesTurns DEF Ends
<1>3. CASE WriteCache(c)
  <2>1. /\ c.at = "caching" /\ Done(c) /\ c.kind \in {"refresh", "save", "sync"} /\ c.of # None
        /\ UNCHANGED <<status, account, generation, revision, confirmed>>
    BY <1>0, <1>3 DEF WriteCache, WellFormed
  <2>2. CASE c.kind = "save"
    BY <1>3, <2>1, <2>2, ReleaseFits DEF WriteCache
  <2>3. CASE c.kind # "save"
    <3>1. KeepLogin /\ UNCHANGED <<revision, saving>>
      BY <1>3, <2>1, <2>3 DEF WriteCache, KeepLogin
    <3>2. ~Ends(c, t)
      BY <1>0, <2>1 DEF Ends, WellFormed
    <3> QED BY <1>0, <2>1, <2>3, <3>1, <3>2, KeepFits
  <2> QED BY <2>2, <2>3
<1>4. CASE expireSyncSession(c)
  <2>1. c.kind = "sync" /\ Done(c) /\ UNCHANGED <<revision, saving>>
    BY <1>0, <1>4 DEF expireSyncSession, WellFormed, KeepFlags
  <2>2. CASE KeepLogin
    BY <1>0, <2>1, <2>2, KeepFits DEF Ends
  <2>3. CASE clear(t)
    BY <1>0, <2>1, <2>3, ReplaceFits DEF clear
  <2> QED BY <1>4, <2>2, <2>3 DEF expireSyncSession
<1> QED BY <1>1, <1>2, <1>3, <1>4

LEMMA ServeFits ==
  ASSUME Types, NEW c \in calls, NEW t \in Tab, c.tab = t, Fits(t), Serve(c)
  PROVE  Fits(t)'
<1>1. PICK e : Moves(c, e)
  BY Served
<1>2. c \in Mine(t) /\ Mine(t)' = (Mine(t) \ {c}) \union {e} /\ Onward(c, e)
  BY <1>1, MineMoves DEF Moves, Onward
<1> QED BY <1>2, Served, SameAll, OnwardFits

LEMMA InitFits ==
  ASSUME Init
  PROVE  TabsFit
<1> SUFFICES ASSUME NEW t \in Tab
             PROVE  Fits(t)
  BY DEF TabsFit
<1>1. Mine(t) = {} /\ status[t] = "closed" /\ saving[t] = None /\ timezoneSaving[t] = FALSE
      /\ generation[t] = 0
  BY DEF Init, Mine
<1>2. NotAheadIn(t) /\ OneSave(t) /\ PendingIn(t)
  BY <1>1 DEF NotAheadIn, OneSave, PendingIn
<1>3. FormFits(t)
  BY <1>1, NoneAssumption DEF FormFits
<1> QED BY <1>2, <1>3 DEF Fits

LEMMA NextFits ==
  ASSUME Types, TabsFit, [Next]_vars
  PROVE  TabsFit'
<1> SUFFICES ASSUME NEW t \in Tab
             PROVE  Fits(t)'
  BY DEF TabsFit
<1>0. Fits(t)
  BY DEF TabsFit
<1>1. CASE UNCHANGED vars
  <2>1. TabSame(t) /\ Mine(t)' = Mine(t)
    BY <1>1 DEF vars, store, TabSame, Mine
  <2> QED BY <1>0, <2>1, QuietFits
<1>2. ASSUME NEW u \in Tab, Submit(u)
      PROVE  Fits(t)'
  BY <1>0, <1>2, SubmitFits, SubmitElsewhere, QuietFits
<1>3. ASSUME NEW c \in calls, Serve(c) \/ Continue(c)
      PROVE  Fits(t)'
  <2>1. CASE c.tab # t
    BY <1>0, <1>3, <2>1, Elsewhere, QuietFits
  <2>2. CASE c.tab = t /\ Serve(c)
    BY <1>0, <2>2, ServeFits
  <2>3. CASE c.tab = t /\ Continue(c)
    BY <1>0, <2>3, HydrateFits, SignInFits, RefreshFits, SaveFits DEF Continue
  <2> QED BY <1>3, <2>1, <2>2, <2>3
<1>4. ASSUME NEW s \in DOMAIN session, ExpireSession(s)
      PROVE  Fits(t)'
  <2>1. TabSame(t) /\ Mine(t)' = Mine(t)
    BY <1>4, SameAll DEF ExpireSession, Mine
  <2> QED BY <1>0, <2>1, QuietFits
<1> QED BY <1>1, <1>2, <1>3, <1>4 DEF Next

\* The lock on saving a time zone ends with its save, in any number of tabs and however many
\* logins and logouts come in between (saveInFlight and the finally of updateTimezone).
THEOREM SaveLockEnds == Spec => []SaveLockIsReleased
<1>1. Init => Types /\ TabsFit
  BY InitTypes, InitFits
<1>2. Types /\ TabsFit /\ [Next]_vars => (Types /\ TabsFit)'
  BY NextTypes, NextFits
<1>3. Types /\ TabsFit => SaveLockIsReleased
  <2> SUFFICES ASSUME Types, TabsFit, NEW t \in Tab
               PROVE  /\ saving[t] # None <=> \E c \in calls : c.tab = t /\ c.kind = "save"
                      /\ timezoneSaving[t] <=> saving[t] = generation[t]
    BY DEF SaveLockIsReleased
  <2>1. OneSave(t) /\ FormFits(t)
    BY DEF TabsFit, Fits
  <2>2. ASSUME NEW c \in calls, c.tab = t, c.kind = "save"
        PROVE  saving[t] # None
    <3>1. c \in Mine(t)
      BY <2>2 DEF Mine
    <3>2. saving[t] = c.generation /\ c.generation \in Nat
      BY <2>1, <2>2, <3>1, Numbers DEF OneSave
    <3> QED BY <3>2, NoneAssumption
  <2>3. saving[t] # None => \E c \in calls : c.tab = t /\ c.kind = "save"
    BY <2>1 DEF OneSave, Mine
  <2> QED BY <2>1, <2>2, <2>3 DEF FormFits
<1> QED BY <1>1, <1>2, <1>3, PTL DEF Spec

\* No loading screen is forgotten, whichever of hydrations, resets and refreshes overtakes
\* which (hydrationRevision, invalidatePendingHydration).
THEOREM StartupAwaited == Spec => []StartupIsPending
<1>1. Init => Types /\ TabsFit
  BY InitTypes, InitFits
<1>2. Types /\ TabsFit /\ [Next]_vars => (Types /\ TabsFit)'
  BY NextTypes, NextFits
<1>3. TabsFit => StartupIsPending
  BY DEF TabsFit, Fits, PendingIn, Ends, Mine, StartupIsPending
<1> QED BY <1>1, <1>2, <1>3, PTL DEF Spec
-----------------------------------------------------------------------------
(* The time zone that stays *)

ZonesGrow == \A a \in Account : zone[a] \in Nat /\ zone'[a] \in Nat /\ zone[a] <= zone'[a]

LEMMA ZonesDoGrow ==
  ASSUME Types, [Next]_vars
  PROVE  ZonesGrow
<1>0. Types' /\ zone \in [Account -> Nat] /\ zone' \in [Account -> Nat]
  BY NextTypes DEF Types, TypeOK
<1>1. CASE zone' = zone
  BY <1>0, <1>1 DEF ZonesGrow
<1>2. ASSUME NEW a \in Account, NEW n \in 1 .. MaxZone, IsNext(n), zone' = [zone EXCEPT ![a] = n]
      PROVE  ZonesGrow
  <2>1. n \in Nat /\ \A b \in Account : zone[b] < n
    BY <1>2, BoundAssumption DEF IsNext
  <2> QED BY <1>0, <1>2, <2>1 DEF ZonesGrow
<1>3. ASSUME NEW c \in calls, ServeSession(c), zone' # zone
      PROVE  ZonesGrow
  <2>1. PICK n \in 1 .. MaxZone : IsNext(n) /\ zone' = [zone EXCEPT ![session[c.with].account] = n]
    BY <1>3 DEF ServeSession, Route, server
  <2>2. Known(c)
    BY <1>3 DEF ServeSession, server
  <2>3. c.with \in DOMAIN session
    BY <2>2, CallOf DEF Known, WellFormed
  <2>4. session[c.with].account \in Account
    BY <2>3, SessionAccounts DEF Types
  <2> QED BY <1>2, <2>1, <2>4
<1>4. ASSUME NEW t \in Tab, Submit(t)
      PROVE  zone' = zone
  BY <1>4 DEF Submit, Open, handleSignOut, handleConfirm, updateTimezone, bootstrapSync, SubmitLogin,
              SubmitReset, server
<1>5. ASSUME NEW c \in calls, Continue(c)
      PROVE  zone' = zone
  BY <1>5 DEF Continue, ArriveNowhere, HydrateAnswer, HydrateFromCache, LoginAnswer, SignupAnswer,
              LogoutAnswer, EmailActionAnswer, RefreshAnswer, SaveAnswer, SyncAnswer, WriteCache,
              expireSyncSession, server
<1>6. ASSUME NEW c \in calls, ServeLogin(c) \/ ServeEmailAction(c) \/ Lose(c)
      PROVE  zone' = zone
  BY <1>6 DEF ServeLogin, ServeEmailAction, Lose, server
<1> QED BY <1>1, <1>3, <1>4, <1>5, <1>6 DEF Next, Serve, ExpireSession, vars, server

\* A call that brings nothing new
Told(c) == \/ c.result # "ok" \/ c.profile = None
           \/ \E d \in calls : c.result = d.result /\ c.profile = d.profile

LEMMA ToldSaved ==
  ASSUME Types, AnswersSaved, ZonesGrow,
         \A c \in calls' : \/ Told(c)
                           \/ \E a \in Account : c.profile = [id |-> a, zone |-> zone'[a]]
                           \/ c.profile.zone = 0 /\ c.profile.id \in Account
  PROVE  AnswersSaved'
<1> SUFFICES ASSUME NEW c \in calls', c.result = "ok", c.profile # None
             PROVE  c.profile.zone <= zone'[c.profile.id]
  BY DEF AnswersSaved
<1>1. ASSUME NEW d \in calls, c.result = d.result, c.profile = d.profile
      PROVE  c.profile.zone <= zone'[c.profile.id]
  <2>1. d.profile \in Profile
    BY <1>1, CallOf DEF Call
  <2>2. d.profile.zone <= zone[d.profile.id]
    BY <1>1 DEF AnswersSaved
  <2> QED BY <1>1, <2>1, <2>2 DEF Profile, ZonesGrow
<1>2. ASSUME NEW a \in Account, c.profile = [id |-> a, zone |-> zone'[a]]
      PROVE  c.profile.zone <= zone'[c.profile.id]
  BY <1>2 DEF ZonesGrow
<1>3. CASE c.profile.zone = 0 /\ c.profile.id \in Account
  BY <1>3 DEF ZonesGrow
<1> QED BY <1>1, <1>2, <1>3 DEF Told

\* What the server may answer
LEMMA ServedNews ==
  ASSUME Types, NEW c \in calls, Serve(c)
  PROVE  \E e : /\ Moves(c, e) /\ e.at = "answered"
                /\ \/ e.result # "ok" \/ e.profile = None
                   \/ \E a \in Account : e.profile = [id |-> a, zone |-> zone'[a]]
                   \/ c.kind = "sync" /\ \E a \in Account : e.profile = [id |-> a, zone |-> 0]
<1>1. ASSUME NEW r, NEW s, Answer(c, r, None, s)
      PROVE  \E e : Moves(c, e) /\ e.at = "answered" /\ e.profile = None
  BY <1>1, AnswerTurns
<1>2. ASSUME NEW a \in Account, NEW s, Answer(c, "ok", [id |-> a, zone |-> zone'[a]], s)
      PROVE  \E e : Moves(c, e) /\ e.at = "answered" /\ e.profile = [id |-> a, zone |-> zone'[a]]
  BY <1>2, AnswerTurns
<1>3. ASSUME NEW a \in Account, NEW s, Answer(c, "ok", [id |-> a, zone |-> 0], s)
      PROVE  \E e : Moves(c, e) /\ e.at = "answered" /\ e.profile = [id |-> a, zone |-> 0]
  BY <1>3, AnswerTurns
<1>4. CASE ServeSession(c)
  <2>1. CASE ~Known(c)
    BY <1>1, <1>4, <2>1 DEF ServeSession
  <2>2. CASE Known(c)
    <3>1. PICK a : a = session[c.with].account
      OBVIOUS
    <3>2. a \in Account
      BY <2>2, <3>1, CallOf, SessionAccounts DEF Known, WellFormed, Types
    <3>3. Route(c, a)
      BY <1>4, <2>2, <3>1 DEF ServeSession
    <3>4. CASE c.kind \in {"hydrate", "refresh"}
      <4>1. Answer(c, "ok", [id |-> a, zone |-> zone'[a]], c.with)
        BY <3>3, <3>4 DEF Route, server
      <4> QED BY <1>2, <3>2, <4>1
    <3>5. CASE c.kind = "logout" \/ (c.kind \in {"save", "sync"} /\ ~Expected(c))
      BY <1>1, <3>3, <3>5 DEF Route
    <3>6. CASE c.kind = "sync" /\ Expected(c)
      BY <1>3, <3>2, <3>3, <3>6 DEF Route
    <3>7. CASE c.kind = "save" /\ Expected(c)
      <4>1. PICK n : zone' = [zone EXCEPT ![a] = n] /\ Answer(c, "ok", [id |-> a, zone |-> n], c.with)
        BY <3>3, <3>7 DEF Route
      <4>2. zone'[a] = n
        BY <3>2, <4>1 DEF Types, TypeOK
      <4>3. Answer(c, "ok", [id |-> a, zone |-> zone'[a]], c.with)
        BY <4>1, <4>2
      <4> QED BY <1>2, <3>2, <4>3
    <3> QED BY <3>3, <3>4, <3>5, <3>6, <3>7 DEF Route
  <2> QED BY <2>1, <2>2
<1>5. CASE ServeLogin(c)
  <2>1. c.of \in Account
    BY <1>5, CallOf DEF ServeLogin, WellFormed, Call
  <2>2. Answer(c, "ok", [id |-> c.of, zone |-> zone'[c.of]], Len(session) + 1)
    BY <1>5 DEF ServeLogin
  <2> QED BY <1>2, <2>1, <2>2
<1>6. CASE ServeEmailAction(c) \/ Lose(c)
  BY <1>1, <1>6 DEF ServeEmailAction, Lose
<1> QED BY <1>4, <1>5, <1>6 DEF Serve

\* A page asks, and no call tells more than before.
LEMMA SubmitTells ==
  ASSUME Types, NEW t \in Tab, Submit(t)
  PROVE  \A c \in calls' : Told(c)
<1>1. \A c \in calls : Told(c)
  BY DEF Told
<1>2. ASSUME NEW n, Send(n), n.result = "none"
      PROVE  \A c \in calls' : Told(c)
  BY <1>1, <1>2 DEF Send, Told
<1>3. ASSUME NEW kind, NEW a, NEW r, NEW strict
      PROVE  NewCall(t, kind, a, r, strict).result = "none"
  BY DEF NewCall
<1>4. CASE Open(t)
  <2>1. PICK n : n = [NewCall(t, "hydrate", None, 1, FALSE) EXCEPT !.generation = 0]
    OBVIOUS
  <2>2. Told(n)
    BY <2>1 DEF NewCall, Told
  <2> DEFINE Old(c) == [c EXCEPT !.tab = None, !.generation = 0, !.revision = 0,
                                 !.strict = FALSE, !.again = FALSE]
  <2>3. ASSUME NEW c \in calls
        PROVE  Old(c).result = c.result /\ Old(c).profile = c.profile
    BY CallOf DEF Call
  <2>4. \A c \in calls' : c \in calls \/ c = n \/ \E d \in calls : c = Old(d)
    BY <1>4, <2>1 DEF Open
  <2> HIDE DEF Old
  <2> QED BY <1>1, <2>2, <2>3, <2>4 DEF Told
<1>5. ASSUME NEW a \in Account, SubmitReset(t, a)
      PROVE  \A c \in calls' : Told(c)
  <2>1. PICK n : n = [NewCall(t, "reset", Id(t), 0, status[t] = "loading")
                        EXCEPT !.profile = [id |-> a, zone |-> 0]]
    OBVIOUS
  <2>2. n.result = "none"
    BY <2>1 DEF NewCall
  <2>3. Send(n)
    BY <1>5, <2>1 DEF SubmitReset
  <2> QED BY <1>2, <2>2, <2>3
<1>6. CASE handleSignOut(t) \/ handleConfirm(t) \/ updateTimezone(t) \/ bootstrapSync(t)
  <2>1. \E kind, a : Send(NewCall(t, kind, a, 0, FALSE))
    BY <1>6 DEF handleSignOut, handleConfirm, updateTimezone, bootstrapSync
  <2> QED BY <1>2, <1>3, <2>1
<1>7. ASSUME NEW a \in Account, SubmitLogin(t, a)
      PROVE  \A c \in calls' : Told(c)
  <2>1. \E kind : Send(NewCall(t, kind, a, 0, FALSE))
    BY <1>7 DEF SubmitLogin
  <2> QED BY <1>2, <1>3, <2>1
<1> QED BY <1>4, <1>5, <1>6, <1>7 DEF Submit

LEMMA ContinueTells ==
  ASSUME Types, NEW c \in calls, Continue(c)
  PROVE  \A d \in calls' : Told(d)
<1>1. \A d \in calls : Told(d)
  BY DEF Told
<1>2. CASE Done(c)
  BY <1>1, <1>2 DEF Done
<1>3. ASSUME NEW s, Becomes(c, s)
      PROVE  \A d \in calls' : Told(d)
  <2>1. PICK e : Moves(c, e) /\ e.result = c.result /\ e.profile = c.profile
    BY <1>3, BecomesTurns
  <2> QED BY <1>1, <2>1 DEF Moves, Told
<1>4. ASSUME NEW n, calls' = (calls \ {c}) \union {n}, n.at = "sent", n.result = "none"
      PROVE  \A d \in calls' : Told(d)
  BY <1>1, <1>4 DEF Told
<1>5. ASSUME NEW strict, NEW again, StartRefresh(c, strict, again)
      PROVE  \A d \in calls' : Told(d)
  <2>1. PICK n : n = [NewCall(c.tab, "refresh", c.of, revision[c.tab] + 1, strict)
                        EXCEPT !.with = cookie', !.again = again]
    OBVIOUS
  <2>2. n.at = "sent" /\ n.result = "none"
    BY <2>1 DEF NewCall
  <2>3. Done(c) \/ calls' = (calls \ {c}) \union {n}
    BY <1>5, <2>1 DEF StartRefresh
  <2> QED BY <1>2, <1>4, <2>2, <2>3
<1>6. CASE SignupAnswer(c)
  <2>1. PICK n : n = [NewCall(c.tab, "hydrate", None, revision[c.tab] + 1, FALSE) EXCEPT !.with = cookie']
    OBVIOUS
  <2>2. n.at = "sent" /\ n.result = "none"
    BY <2>1 DEF NewCall
  <2>3. Done(c) \/ calls' = (calls \ {c}) \union {n}
    BY <1>6, <2>1 DEF SignupAnswer
  <2> QED BY <1>2, <1>4, <2>2, <2>3
<1>7. CASE HydrateAnswer(c) \/ SaveAnswer(c) \/ SyncAnswer(c)
  BY <1>2, <1>3, <1>7 DEF HydrateAnswer, SaveAnswer, SyncAnswer
<1>8. CASE EmailActionAnswer(c)
  BY <1>2, <1>5, <1>8 DEF EmailActionAnswer
<1>9. CASE RefreshAnswer(c)
  BY <1>2, <1>3, <1>5, <1>9 DEF RefreshAnswer, TakeProfile, RenewProfile
<1> QED BY <1>2, <1>6, <1>7, <1>8, <1>9 DEF Continue, ArriveNowhere, HydrateFromCache, LoginAnswer,
          LogoutAnswer, WriteCache, expireSyncSession

LEMMA AnswersStaySaved ==
  ASSUME Types, AnswersSaved, [Next]_vars
  PROVE  AnswersSaved'
<1>0. ZonesGrow
  BY ZonesDoGrow
<1>1. ASSUME \A c \in calls' : Told(c)
      PROVE  AnswersSaved'
  BY <1>0, <1>1, ToldSaved
<1>2. ASSUME NEW c \in calls, Serve(c)
      PROVE  AnswersSaved'
  <2>1. PICK e : /\ Moves(c, e) /\ e.at = "answered"
                 /\ \/ e.result # "ok" \/ e.profile = None
                    \/ \E a \in Account : e.profile = [id |-> a, zone |-> zone'[a]]
                    \/ c.kind = "sync" /\ \E a \in Account : e.profile = [id |-> a, zone |-> 0]
    BY <1>2, ServedNews
  <2>2. \A d \in calls : Told(d)
    BY DEF Told
  <2>3. \/ Told(e) \/ \E a \in Account : e.profile = [id |-> a, zone |-> zone'[a]]
        \/ e.profile.zone = 0 /\ e.profile.id \in Account
    <3>1. ASSUME NEW a \in Account, e.profile = [id |-> a, zone |-> 0]
          PROVE  e.profile.zone = 0 /\ e.profile.id \in Account
      BY <3>1
    <3> QED BY <2>1, <3>1 DEF Told
  <2> QED BY <1>0, <2>1, <2>2, <2>3, ToldSaved DEF Moves
<1>3. CASE calls' = calls
  BY <1>1, <1>3 DEF Told
<1> QED BY <1>1, <1>2, <1>3, SubmitTells, ContinueTells DEF Next, ExpireSession, vars

\* The account a tab shows, and nothing it was shown, is what it was; its revision may move on.
LEMMA ZonesKeep ==
  ASSUME Types, NEW t \in Tab, Fits(t), ZonesIn(t), ZonesGrow,
         status'[t] = status[t], account'[t] = account[t], generation'[t] = generation[t],
         confirmed'[t] = confirmed[t], revision'[t] = revision[t] \/ revision'[t] = revision[t] + 1,
         \A c \in Mine(t)' : c \in Mine(t) \/ QuestionFits(c, t)'
  PROVE  ZonesIn(t)'
<1>0. Stores
  BY Parts
<1>1. ShownFits(t)'
  BY <1>0, Numbers DEF ZonesIn, ShownFits, ZonesGrow, Profile, Stores
<1>2. ASSUME NEW c \in Mine(t)
      PROVE  QuestionFits(c, t)'
  <2>1. QuestionFits(c, t)
    BY DEF ZonesIn
  <2>2. c.kind \in {"hydrate", "refresh"} /\ c.revision = revision'[t] => c.revision = revision[t]
    BY Numbers DEF Fits, NotAheadIn
  <2> QED BY <2>1, <2>2 DEF QuestionFits
<1> QED BY <1>1, <1>2 DEF ZonesIn

\* The answers under way to tab t, when it shows the profile p
LEMMA ZonesSwitch ==
  ASSUME Types, NEW t \in Tab, Fits(t), ZonesIn(t), ZonesGrow, Mine(t)' \subseteq Mine(t),
         revision'[t] = revision[t], NEW p \in Profile \union {None}, account'[t] = p,
         \/ generation'[t] = generation[t] + 1 /\ confirmed'[t] = 0
         \/ /\ p # None /\ Id(t) = p.id /\ generation'[t] = generation[t]
            /\ confirmed'[t] = confirmed[t] /\ confirmed[t] <= p.zone
  PROVE  ZonesIn(t)'
<1>0. Stores
  BY Parts
<1>1. CASE generation'[t] = generation[t] + 1 /\ confirmed'[t] = 0
  <2>1. ShownFits(t)'
    BY <1>1 DEF ShownFits, ZonesGrow, Profile
  <2>2. ASSUME NEW c \in Mine(t)
        PROVE  QuestionFits(c, t)'
    <3>0. c \in Call /\ WellFormed(c) /\ c.tab = t /\ c.tab # None
      BY Numbers, CallOf, NoneAssumption DEF Mine
    <3>1. c.kind \in {"hydrate", "refresh"} /\ c.result = "ok" => c.profile.zone \in Nat
      BY <3>0 DEF WellFormed, Call, Profile
    <3>2. c.at = "reading" => c.generation # generation'[t]
      BY <1>1, <3>0, Numbers DEF WellFormed, Fits, NotAheadIn
    <3> QED BY <1>1, <3>1, <3>2 DEF QuestionFits
  <2> QED BY <2>1, <2>2 DEF ZonesIn
<1>2. CASE /\ p # None /\ Id(t) = p.id /\ generation'[t] = generation[t]
           /\ confirmed'[t] = confirmed[t] /\ confirmed[t] <= p.zone
  <2>1. account[t] # None /\ account[t].id = p.id /\ status[t] = "authenticated"
        /\ p \in Profile
    BY <1>0, <1>2, NoneAssumption DEF Id, Stores, Profile
  <2>2. ShownFits(t)'
    BY <1>2, <2>1, Numbers DEF ZonesIn, ShownFits, ZonesGrow, Profile
  <2>3. ASSUME NEW c \in Mine(t)
        PROVE  QuestionFits(c, t)'
    <3>1. QuestionFits(c, t)
      BY DEF ZonesIn
    <3> QED BY <1>2, <2>1, <3>1 DEF QuestionFits
  <2> QED BY <2>2, <2>3 DEF ZonesIn
<1> QED BY <1>1, <1>2

LEMMA ZonesAdopt ==
  ASSUME Types, NEW t \in Tab, Fits(t), ZonesIn(t), ZonesGrow, NEW c \in Mine(t), Done(c), c.tab = t,
         revision' = revision, NEW p \in Profile, Adopt(t, p), Id(t) = p.id => confirmed[t] <= p.zone
  PROVE  ZonesIn(t)'
<1>1. Mine(t)' \subseteq Mine(t)
  BY MineEnds, Numbers
<1>2. p # None
  BY NoneAssumption
<1> QED BY <1>1, <1>2, AdoptedTab, ZonesSwitch

LEMMA ZonesReplace ==
  ASSUME Types, NEW t \in Tab, Fits(t), ZonesIn(t), ZonesGrow, NEW c \in Mine(t), Done(c), c.tab = t,
         revision' = revision, NEW s, NEW p \in Profile \union {None}, Replace(t, s, p)
  PROVE  ZonesIn(t)'
<1>1. Mine(t)' \subseteq Mine(t)
  BY MineEnds, Numbers
<1> QED BY <1>1, ReplacedTab, ZonesSwitch

LEMMA ZonesDone ==
  ASSUME Types, NEW t \in Tab, Fits(t), ZonesIn(t), ZonesGrow, NEW c \in Mine(t), Done(c), c.tab = t,
         UNCHANGED <<status, account, generation, confirmed, revision>>
  PROVE  ZonesIn(t)'
<1>1. Mine(t)' \subseteq Mine(t)
  BY MineEnds, Numbers
<1> QED BY <1>1, ZonesKeep

\* c goes on, to storage, or another question follows it.
LEMMA ZonesNext ==
  ASSUME Types, NEW t \in Tab, Fits(t), ZonesIn(t), ZonesGrow, NEW c \in Mine(t), c.tab = t,
         NEW e, e.tab = t, calls' = (calls \ {c}) \union {e}, e.at # "answered",
         e.at = "reading" => status[t] # "authenticated",
         UNCHANGED <<status, account, generation, confirmed>>,
         revision'[t] = revision[t] \/ revision'[t] = revision[t] + 1
  PROVE  ZonesIn(t)'
<1>0. c \in calls
  BY Numbers
<1>1. Mine(t)' = (Mine(t) \ {c}) \union {e}
  BY <1>0, MineMoves
<1>2. QuestionFits(e, t)'
  BY DEF QuestionFits
<1> QED BY <1>1, <1>2, ZonesKeep

LEMMA ZonesSent ==
  ASSUME Types, NEW t \in Tab, Fits(t), ZonesIn(t), ZonesGrow, NEW n, n.tab = t, n.at = "sent", Send(n),
         UNCHANGED <<status, account, generation, confirmed>>,
         revision'[t] = revision[t] \/ revision'[t] = revision[t] + 1
  PROVE  ZonesIn(t)'
<1>1. Mine(t)' = Mine(t) \union {n}
  BY DEF Send, Mine
<1>2. QuestionFits(n, t)'
  BY DEF QuestionFits
<1> QED BY <1>1, <1>2, ZonesKeep

LEMMA SubmitZones ==
  ASSUME Types, NEW t \in Tab, Fits(t), ZonesIn(t), ZonesGrow, Submit(t)
  PROVE  ZonesIn(t)'
<1>0. Stores /\ Flags
  BY Parts
<1>1. ASSUME NEW kind, NEW a, Send(NewCall(t, kind, a, 0, FALSE)),
             UNCHANGED <<status, account, generation, confirmed>>,
             revision' = revision \/ revision' = [revision EXCEPT ![t] = @ + 1]
      PROVE  ZonesIn(t)'
  <2>1. NewCall(t, kind, a, 0, FALSE).tab = t /\ NewCall(t, kind, a, 0, FALSE).at = "sent"
    BY DEF NewCall
  <2>2. revision'[t] = revision[t] \/ revision'[t] = revision[t] + 1
    BY <1>0, <1>1 DEF Flags
  <2> QED BY <1>1, <2>1, <2>2, ZonesSent
<1>2. CASE handleSignOut(t) \/ handleConfirm(t) \/ bootstrapSync(t)
           \/ \E a \in Account : SubmitLogin(t, a)
  BY <1>1, <1>2 DEF handleSignOut, handleConfirm, bootstrapSync, SubmitLogin, store
<1>3. CASE updateTimezone(t)
  BY <1>1, <1>3 DEF updateTimezone
<1>4. ASSUME NEW a \in Account, SubmitReset(t, a)
      PROVE  ZonesIn(t)'
  <2>1. PICK n : n = [NewCall(t, "reset", Id(t), 0, status[t] = "loading")
                        EXCEPT !.profile = [id |-> a, zone |-> 0]]
    OBVIOUS
  <2>2. n.tab = t /\ n.at = "sent"
    BY <2>1 DEF NewCall
  <2>3. Send(n) /\ UNCHANGED <<status, account, generation, confirmed>>
        /\ revision' = [revision EXCEPT ![t] = @ + 1]
    BY <1>4, <2>1 DEF SubmitReset
  <2>4. revision'[t] = revision[t] + 1
    BY <1>0, <2>3 DEF Flags
  <2> QED BY <2>2, <2>3, <2>4, ZonesSent
<1>5. CASE Open(t)
  <2>1. account'[t] = None /\ status'[t] = "loading"
    BY <1>0, <1>5 DEF Open, Stores
  <2> QED BY <2>1 DEF ZonesIn, ShownFits, QuestionFits
<1> QED BY <1>2, <1>3, <1>4, <1>5 DEF Submit

LEMMA ServeZones ==
  ASSUME Types, NEW c \in calls, NEW t \in Tab, c.tab = t, Fits(t), ZonesIn(t), ZonesGrow, Serve(c)
  PROVE  ZonesIn(t)'
<1>0. Stores
  BY Parts
<1>1. PICK e : /\ Moves(c, e) /\ e.at = "answered"
               /\ \/ e.result # "ok" \/ e.profile = None
                  \/ \E a \in Account : e.profile = [id |-> a, zone |-> zone'[a]]
                  \/ c.kind = "sync" /\ \E a \in Account : e.profile = [id |-> a, zone |-> 0]
  BY ServedNews
<1>2. TabSame(t)
  BY Served, SameAll
<1>3. c \in Mine(t) /\ Mine(t)' = (Mine(t) \ {c}) \union {e} /\ e.kind = c.kind
  BY <1>1, MineMoves DEF Moves, Onward
<1>4. QuestionFits(e, t)'
  <2>1. ASSUME e.kind \in {"hydrate", "refresh"}, e.result = "ok", account[t] # None,
               e.profile.id = account[t].id
        PROVE  confirmed[t] <= e.profile.zone
    <3>1. CASE e.profile = None
      <4>1. Types'
        BY NextTypes DEF Next
      <4>2. e \in calls' /\ e.tab = t /\ t # None
        BY <1>1, NoneAssumption DEF Moves, Onward
      <4>3. e.profile # None
        BY <2>1, <4>1, <4>2 DEF Types, CallsFit, WellFormed
      <4> QED BY <3>1, <4>3
    <3>2. CASE e.profile # None
      <4>1. PICK a \in Account : e.profile = [id |-> a, zone |-> zone'[a]]
        BY <1>1, <1>3, <2>1, <3>2
      <4>2. a = account[t].id /\ e.profile.zone = zone'[a]
        BY <2>1, <4>1
      <4>3. confirmed[t] <= zone[a]
        BY <2>1, <4>2 DEF ZonesIn, ShownFits
      <4> QED BY <4>2, <4>3, Numbers DEF ZonesGrow
    <3> QED BY <3>1, <3>2
  <2> QED BY <1>1, <1>2, <2>1 DEF QuestionFits, TabSame
<1> QED BY <1>2, <1>3, <1>4, ZonesKeep DEF TabSame

LEMMA ContinueZones ==
  ASSUME Types, NEW c \in calls, NEW t \in Tab, c.tab = t, Fits(t), ZonesIn(t), AnswersSaved, ZonesGrow,
         Continue(c)
  PROVE  ZonesIn(t)'
<1>0. /\ c \in Call /\ WellFormed(c) /\ c \in Mine(t) /\ c.tab # None /\ Stores /\ Flags
      /\ cache \in Profile \union {None} /\ QuestionFits(c, t)
  BY CallOf, Parts, NoneAssumption DEF Mine, Browser, ZonesIn
<1>1. CASE Done(c) /\ UNCHANGED <<status, account, generation, confirmed, revision>>
  BY <1>0, <1>1, ZonesDone
<1>2. ASSUME NEW s \in {"caching", "reading", "expiring"}, Becomes(c, s),
             s = "reading" => status[t] # "authenticated",
             UNCHANGED <<status, account, generation, confirmed, revision>>
      PROVE  ZonesIn(t)'
  <2>1. PICK e : Moves(c, e) /\ e.at = s
    BY <1>2, BecomesTurns
  <2>2. e.tab = t /\ calls' = (calls \ {c}) \union {e} /\ e.at # "answered"
    BY <1>2, <2>1 DEF Moves, Onward
  <2> QED BY <1>0, <1>2, <2>1, <2>2, ZonesNext
<1>3. ASSUME NEW strict \in BOOLEAN, NEW again \in BOOLEAN, StartRefresh(c, strict, again), KeepLogin
      PROVE  ZonesIn(t)'
  <2>1. CASE Done(c) /\ UNCHANGED revision
    BY <1>0, <1>1, <1>3, <2>1 DEF KeepLogin
  <2>2. ASSUME NEW n, calls' = (calls \ {c}) \union {n}, n.tab = t, n.at = "sent",
               revision' = [revision EXCEPT ![t] = revision[t] + 1]
        PROVE  ZonesIn(t)'
    <3>1. revision'[t] = revision[t] + 1
      BY <1>0, <2>2 DEF Flags
    <3> QED BY <1>0, <1>3, <2>2, <3>1, ZonesNext DEF KeepLogin
  <2> QED BY <1>0, <1>3, <2>1, <2>2, RefreshFollowsOrEnds
<1>4. CASE HydrateAnswer(c)
  <2>1. c.kind = "hydrate" /\ c.at = "answered" /\ UNCHANGED revision
    BY <1>4 DEF HydrateAnswer, Arrived, KeepFlags
  <2>2. CASE HydrateIsCurrent(c) /\ c.result = "ok" /\ Adopt(t, c.profile) /\ Done(c)
    <3>1. c.profile \in Profile
      BY <1>0, <2>1, <2>2 DEF WellFormed, Call
    <3>2. Id(t) = c.profile.id => confirmed[t] <= c.profile.zone
      BY <1>0, <2>1, <2>2, <3>1, NoneAssumption DEF QuestionFits, HydrateIsCurrent, Id, Profile
    <3> QED BY <1>0, <2>1, <2>2, <3>1, <3>2, ZonesAdopt
  <2>3. CASE clear(t) /\ Done(c)
    BY <1>0, <2>1, <2>3, ZonesReplace DEF clear
  <2>4. CASE KeepLogin /\ Done(c)
    BY <1>1, <2>1, <2>4 DEF KeepLogin
  <2>5. CASE KeepLogin /\ status[t] # "authenticated" /\ Becomes(c, "reading")
    BY <1>2, <2>1, <2>5 DEF KeepLogin
  <2> QED BY <1>4, <2>2, <2>3, <2>4, <2>5 DEF HydrateAnswer
<1>5. CASE HydrateFromCache(c)
  <2>1. c.at = "reading" /\ Done(c) /\ UNCHANGED revision
    BY <1>5 DEF HydrateFromCache, KeepFlags
  <2>2. CASE HydrateIsCurrent(c) /\ cache # None /\ Adopt(t, cache)
    <3>1. Id(t) = None
      BY <1>0, <2>1, <2>2 DEF QuestionFits, HydrateIsCurrent, Id, Stores
    <3>2. Id(t) # cache.id
      BY <1>0, <2>2, <3>1, NoneAssumption DEF Profile
    <3> QED BY <1>0, <2>1, <2>2, <3>2, ZonesAdopt
  <2>3. CASE clear(t)
    BY <1>0, <2>1, <2>3, ZonesReplace DEF clear
  <2>4. CASE KeepLogin
    BY <1>1, <2>1, <2>4 DEF KeepLogin
  <2> QED BY <1>5, <2>2, <2>3, <2>4 DEF HydrateFromCache
<1>6. CASE LoginAnswer(c)
  <2>1. c.kind = "login" /\ Done(c) /\ UNCHANGED revision
    BY <1>6 DEF LoginAnswer, KeepFlags
  <2>2. CASE setAuthenticated(t, c.profile)
    <3>1. c.profile \in Profile \union {None}
      BY <1>0 DEF Call
    <3> QED BY <1>0, <2>1, <2>2, <3>1, ZonesReplace DEF setAuthenticated
  <2>3. CASE KeepLogin
    BY <1>1, <2>1, <2>3 DEF KeepLogin
  <2> QED BY <1>6, <2>2, <2>3 DEF LoginAnswer
<1>7. CASE LogoutAnswer(c)
  BY <1>0, <1>7, ZonesReplace DEF LogoutAnswer, clear, KeepFlags
<1>8. CASE SignupAnswer(c)
  <2>1. KeepLogin
    BY <1>8 DEF SignupAnswer
  <2>2. CASE Done(c) /\ UNCHANGED revision
    BY <1>1, <2>1, <2>2 DEF KeepLogin
  <2>3. CASE ~(Done(c) /\ UNCHANGED revision)
    <3>1. PICK n : n = [NewCall(t, "hydrate", None, revision[t] + 1, FALSE) EXCEPT !.with = cookie']
      OBVIOUS
    <3>2. n.tab = t /\ n.at = "sent"
      BY <3>1 DEF NewCall
    <3>3. /\ revision' = [revision EXCEPT ![t] = revision[t] + 1]
          /\ calls' = (calls \ {c}) \union {n}
      BY <1>8, <2>3, <3>1 DEF SignupAnswer
    <3>4. revision'[t] = revision[t] + 1
      BY <1>0, <3>3 DEF Flags
    <3> QED BY <1>0, <2>1, <3>2, <3>3, <3>4, ZonesNext DEF KeepLogin
  <2> QED BY <2>2, <2>3
<1>9. CASE EmailActionAnswer(c)
  <2>1. KeepLogin
    BY <1>9 DEF EmailActionAnswer
  <2>2. CASE Done(c) /\ UNCHANGED revision
    BY <1>1, <2>1, <2>2 DEF KeepLogin
  <2>3. CASE StartRefresh(c, c.kind = "reset", c.strict /\ c.result = "ok")
    <3>1. PICK strict \in BOOLEAN, again \in BOOLEAN :
            strict = (c.kind = "reset") /\ again = (c.strict /\ c.result = "ok")
      BY <1>0 DEF Call
    <3>2. StartRefresh(c, strict, again)
      BY <2>3, <3>1
    <3> QED BY <1>3, <2>1, <3>2
  <2> QED BY <1>9, <2>2, <2>3 DEF EmailActionAnswer
<1>10. CASE RefreshAnswer(c)
  <2>1. c.kind = "refresh" /\ c.at = "answered"
    BY <1>10 DEF RefreshAnswer, Arrived
  <2>2. CASE KeepLogin /\ StartRefresh(c, TRUE, FALSE)
    BY <1>3, <2>2
  <2>3. CASE KeepLogin /\ Done(c) /\ UNCHANGED revision
    BY <1>1, <2>3 DEF KeepLogin
  <2>4. CASE TakeProfile(c)
    <3>1. c.profile \in Profile /\ Id(t) = None
      BY <1>0, <2>1, <2>4 DEF TakeProfile, WellFormed, Call, RefreshAsserts, RefreshIsCurrent
    <3>2. Id(t) # c.profile.id
      BY <3>1, NoneAssumption DEF Profile
    <3> QED BY <1>0, <2>4, <3>1, <3>2, ZonesAdopt DEF TakeProfile
  <2>5. CASE RenewProfile(c)
    <3>1. /\ c.profile \in Profile /\ c.result = "ok" /\ Id(t) = c.profile.id
          /\ c.revision = revision[t] /\ account' = [account EXCEPT ![t] = c.profile]
          /\ UNCHANGED <<status, generation, confirmed, revision>> /\ Becomes(c, "caching")
          /\ status[t] = "authenticated"
      BY <1>0, <2>1, <2>5 DEF RenewProfile, RefreshAsserts, RefreshIsCurrent, WellFormed, Call
    <3>2. account[t] # None /\ account[t].id = c.profile.id /\ account'[t] = c.profile
      BY <1>0, <3>1 DEF Stores, Id
    <3>3. confirmed[t] <= c.profile.zone
      BY <1>0, <2>1, <3>1, <3>2 DEF QuestionFits
    <3>4. ShownFits(t)'
      BY <3>1, <3>2, <3>3, Numbers DEF ZonesIn, ShownFits, ZonesGrow, Profile
    <3>5. PICK e : Moves(c, e) /\ e.at = "caching"
      BY <3>1, BecomesTurns
    <3>6. Mine(t)' = (Mine(t) \ {c}) \union {e}
      BY <3>5, MineMoves DEF Moves, Onward
    <3>7. \A d \in Mine(t) : QuestionFits(d, t)'
      BY <3>1, <3>2 DEF ZonesIn, QuestionFits
    <3>8. QuestionFits(e, t)'
      BY <3>5 DEF QuestionFits
    <3> QED BY <3>4, <3>6, <3>7, <3>8 DEF ZonesIn
  <2>6. CASE clear(t) /\ Done(c) /\ UNCHANGED revision
    BY <1>0, <2>6, ZonesReplace DEF clear
  <2> QED BY <1>10, <2>2, <2>3, <2>4, <2>5, <2>6 DEF RefreshAnswer
<1>11. CASE SaveAnswer(c)
  <2>1. c.kind = "save" /\ UNCHANGED <<status, generation>>
    BY <1>11 DEF SaveAnswer
  <2>2. CASE Done(c) /\ UNCHANGED <<account, revision, confirmed>>
    BY <1>1, <2>1, <2>2
  <2>3. CASE ~(Done(c) /\ UNCHANGED <<account, revision, confirmed>>)
    <3>1. /\ c.result = "ok" /\ isCurrentSyncSession(c) /\ c.profile.id = c.of
          /\ account'   = [account EXCEPT ![t] = c.profile]
          /\ revision'  = [revision EXCEPT ![t] = @ + 1]
          /\ confirmed' = [confirmed EXCEPT ![t] = c.profile.zone]
          /\ Becomes(c, "caching")
      BY <1>11, <2>3 DEF SaveAnswer
    <3>2. c.profile \in Profile /\ c.profile # None /\ status[t] = "authenticated"
      BY <1>0, <2>1, <3>1, NoneAssumption DEF WellFormed, Call, isCurrentSyncSession
    <3>3. account'[t] = c.profile /\ revision'[t] = revision[t] + 1 /\ confirmed'[t] = c.profile.zone
      BY <1>0, <3>1 DEF Stores, Flags
    <3>4. c.profile.zone <= zone[c.profile.id]
      BY <3>1, <3>2 DEF AnswersSaved
    <3>5. ShownFits(t)'
      BY <3>2, <3>3, <3>4 DEF ShownFits, ZonesGrow, Profile
    <3>6. PICK e : Moves(c, e) /\ e.at = "caching"
      BY <3>1, BecomesTurns
    <3>7. Mine(t)' = (Mine(t) \ {c}) \union {e}
      BY <3>6, MineMoves DEF Moves, Onward
    <3>8. ASSUME NEW d \in Mine(t)
          PROVE  QuestionFits(d, t)'
      <4>1. QuestionFits(d, t)
        BY DEF ZonesIn
      <4>2. d.kind \in {"hydrate", "refresh"} => d.revision # revision'[t]
        BY <3>3, Numbers DEF Fits, NotAheadIn
      <4> QED BY <2>1, <4>1, <4>2 DEF QuestionFits
    <3>9. QuestionFits(e, t)'
      BY <3>6 DEF QuestionFits
    <3> QED BY <3>5, <3>7, <3>8, <3>9 DEF ZonesIn
  <2> QED BY <2>2, <2>3
<1>12. CASE SyncAnswer(c)
  <2>1. KeepLogin /\ UNCHANGED revision
    BY <1>12 DEF SyncAnswer, KeepFlags
  <2>2. Done(c) \/ Becomes(c, "caching") \/ Becomes(c, "expiring")
    BY <1>12 DEF SyncAnswer
  <2> QED BY <1>1, <1>2, <2>1, <2>2 DEF KeepLogin
<1>13. CASE WriteCache(c)
  BY <1>1, <1>13 DEF WriteCache
<1>14. CASE expireSyncSession(c)
  <2>1. Done(c) /\ UNCHANGED revision /\ (KeepLogin \/ clear(t))
    BY <1>14 DEF expireSyncSession, KeepFlags
  <2> QED BY <1>0, <1>1, <2>1, ZonesReplace DEF KeepLogin, clear
<1>15. CASE ArriveNowhere(c)
  BY <1>0, <1>15 DEF ArriveNowhere
<1> QED BY <1>4, <1>5, <1>6, <1>7, <1>8, <1>9, <1>10, <1>11, <1>12, <1>13, <1>14, <1>15 DEF Continue

LEMMA ZonesQuiet ==
  ASSUME Types, NEW t \in Tab, Fits(t), ZonesIn(t), ZonesGrow, TabSame(t), Mine(t)' = Mine(t)
  PROVE  ZonesIn(t)'
BY ZonesKeep DEF TabSame

LEMMA NextZones ==
  ASSUME Types, TabsFit, ZonesFit, [Next]_vars
  PROVE  ZonesFit'
<1>0. AnswersSaved /\ AnswersSaved' /\ ZonesGrow
  BY AnswersStaySaved, ZonesDoGrow DEF ZonesFit
<1> SUFFICES ASSUME NEW t \in Tab
             PROVE  ZonesIn(t)'
  BY <1>0 DEF ZonesFit
<1>t. Fits(t) /\ ZonesIn(t)
  BY DEF TabsFit, ZonesFit
<1>1. CASE UNCHANGED vars
  <2>1. TabSame(t) /\ Mine(t)' = Mine(t)
    BY <1>1 DEF vars, store, TabSame, Mine
  <2> QED BY <1>0, <1>t, <2>1, ZonesQuiet
<1>2. ASSUME NEW u \in Tab, Submit(u)
      PROVE  ZonesIn(t)'
  BY <1>0, <1>t, <1>2, SubmitZones, SubmitElsewhere, ZonesQuiet
<1>3. ASSUME NEW c \in calls, Serve(c) \/ Continue(c)
      PROVE  ZonesIn(t)'
  <2>1. CASE c.tab # t
    BY <1>0, <1>t, <1>3, <2>1, Elsewhere, ZonesQuiet
  <2>2. CASE c.tab = t
    BY <1>0, <1>t, <1>3, <2>2, ServeZones, ContinueZones
  <2> QED BY <2>1, <2>2
<1>4. ASSUME NEW s \in DOMAIN session, ExpireSession(s)
      PROVE  ZonesIn(t)'
  <2>1. TabSame(t) /\ Mine(t)' = Mine(t)
    BY <1>4, SameAll DEF ExpireSession, Mine
  <2> QED BY <1>0, <1>t, <2>1, ZonesQuiet
<1> QED BY <1>1, <1>2, <1>3, <1>4 DEF Next

\* A tab that has shown its saved time zone never shows an older one in that session: the
\* revision of hydrate and refreshCurrentAccount outdates every earlier question.
THEOREM SavedZoneIsKept == Spec => []SavedZoneStays
<1>1. Init => IInv
  <2>1. Init => ZonesFit
    BY DEF Init, ZonesFit, AnswersSaved, ZonesIn, ShownFits, Mine
  <2> QED BY <2>1, InitTypes, InitFits DEF IInv
<1>2. IInv /\ [Next]_vars => IInv'
  BY NextTypes, NextFits, NextZones DEF IInv
<1>3. IInv => SavedZoneStays
  <2> SUFFICES ASSUME IInv, NEW t \in Tab, status[t] = "authenticated"
               PROVE  account[t].zone >= confirmed[t]
    BY DEF SavedZoneStays
  <2>1. account[t] \in Profile /\ account[t] # None
    BY DEF IInv, Types, TypeOK
  <2> QED BY <2>1, Numbers DEF IInv, ZonesFit, ZonesIn, ShownFits, Profile
<1> QED BY <1>1, <1>2, <1>3, PTL DEF Spec
=============================================================================
