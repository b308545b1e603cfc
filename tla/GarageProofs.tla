---------------------------- MODULE GarageProofs ----------------------------
(***************************************************************************)
(* What holds of Garage for every value of its constants: the server takes *)
(* the whole outbox (QueueIsAccepted), synced devices show the same        *)
(* (DevicesAgree), a service resets its reminder (ServiceClears), and the  *)
(* history costs what the cost table says (HistoryAddsUp).                 *)
(*                                                                         *)
(* The inductive invariant says of every mutation there is, wherever it is *)
(* (Held), that it fits its id and that the domain rules let it through;   *)
(* of every reference, that it is met where it is used (Closed); and of    *)
(* every row, how it stands to the server's (Known .. Numbered).  A call   *)
(* of a repository keeps it because its writes do (WritesFit).             *)
(***************************************************************************)
EXTENDS Garage, FiniteSetTheorems, WellFoundedInduction, TLAPS

\* An amount that counts something, or none
Counted == (Nat \ {0}) \union {None}
\* What something cost, if it is known
Cost    == Int \union {None}

\* The fields of a row or of a mutation fit its id, ...
About(i, x) ==
  /\ DOMAIN x = Fields(i)
  /\ i \in Reminder => x.vehicle = i.vehicle /\ x.partType = i.partType /\ ~i.twin
  /\ i \in Odometer \union Fuel \union Service => x.vehicle \in Vehicle /\ x.at \in 1 .. clock
  /\ i \in Service => x.partType \in PartType
  /\ i \in Fuel => x.odometerLog \in Odometer \union {None}

\* ... and its amounts have passed the domain rules of some device.
Amounts(i, x) ==
  /\ i \in Vehicle  => x.dueSoonRatio \in (1 .. 100) \union {None}
  /\ i \in Reminder => /\ x.everyKm \in Counted /\ x.everyDays \in Counted
                       /\ x.everyKm # None \/ x.everyDays # None
  /\ i \in Fuel     => x.liters \in Counted /\ x.cost \in Cost
  /\ i \in Service  => x.km \in Nat \union {None} /\ x.cost \in Cost

\* What is said anywhere, as mutations: on the device, on the server, on its way
Held ==
  {[id |-> i, payload |-> local[i].is] : i \in DOMAIN local}
    \union {[id |-> i, payload |-> server[i].is] : i \in DOMAIN server}
    \union {outbox[n] : n \in DOMAIN outbox}

HeldFits == \A m \in Held : m.id \in Id /\ About(m.id, m.payload) /\ Amounts(m.id, m.payload)

\* m says that the odometer log o is of the vehicle v.
Says(m, o, v) ==
  \/ m.id \in Odometer /\ m.id = o /\ m.payload.vehicle = v
  \/ m.id \in Fuel /\ m.payload.odometerLog = o /\ m.payload.vehicle = v

\* Nothing that is said disagrees about it.
OneVehicle ==
  \A a, b \in Held, o \in Odometer, v, w \in Vehicle : Says(a, o, v) /\ Says(b, o, w) => v = w

\* The ids a payload refers to
Refs(x) == {x[k] : k \in {"vehicle", "partType", "odometerLog"} \intersect DOMAIN x} \ {None}

Queued    == {outbox[n].id : n \in DOMAIN outbox}
Before(n) == DOMAIN server \union {outbox[k].id : k \in 1 .. n - 1}

\* What is referred to is there: in the same table, or earlier in the queue.
Closed ==
  /\ \A i \in DOMAIN local  : Refs(local[i].is) \subseteq DOMAIN local
  /\ \A i \in DOMAIN server : Refs(server[i].is) \subseteq DOMAIN server
  /\ \A n \in DOMAIN outbox : Refs(outbox[n].payload) \subseteq Before(n)

\* What the device has, the server has or will get.
Known == DOMAIN local \subseteq DOMAIN server \union Queued

\* A reading is pushed once.
ReadOnce ==
  \A n \in DOMAIN outbox : outbox[n].id \in Odometer =>
    /\ outbox[n].id \notin DOMAIN server
    /\ \A k \in DOMAIN outbox \ {n} : outbox[k].id # outbox[n].id

\* What the server had when the device last pulled, the device has; ...
Pulling == \A i \in DOMAIN server : server[i].synced <= seen => i \in DOMAIN local

\* ... a stamp is one of the server, ...
Stamped ==
  \A i \in DOMAIN local : local[i].synced # None =>
    i \in DOMAIN server /\ local[i].synced <= server[i].synced

\* ... and a row of which nothing waits is the server's, unless a change of it is to be pulled.
UpToDate ==
  \A i \in DOMAIN local \ Queued :
    \/ server[i].synced > seen
    \/ local[i].is = server[i].is /\ local[i].synced = server[i].synced

\* The sequence numbers one row, but for those both devices start with.
Numbered ==
  /\ \A i \in DOMAIN server : i \notin Seeded => server[i].synced > 1
  /\ \A i, j \in DOMAIN server :
       server[i].synced = server[j].synced /\ server[i].synced > 1 => i = j

RowsAreRows ==
  /\ \A i \in DOMAIN local :
       local[i] = [is |-> local[i].is, created |-> local[i].created, synced |-> local[i].synced]
  /\ \A i \in DOMAIN server : server[i] = [is |-> server[i].is, synced |-> server[i].synced]

IInv ==
  /\ TypeOK /\ RowsAreRows /\ HeldFits /\ OneVehicle /\ Closed /\ Known /\ ReadOnce
  /\ Pulling /\ Stamped /\ UpToDate /\ Numbered

-----------------------------------------------------------------------------
(* Ids, fields and columns *)

\* Each id is of one table, and has the fields of it.
LEMMA FieldsOfId ==
  ASSUME NEW i \in Id
  PROVE  /\ i \in Vehicle  => /\ i \notin PartType \union Reminder \union Odometer \union Fuel \union Service
                              /\ Fields(i) = {"archived", "deleted", "dueSoonRatio"}
         /\ i \in PartType => /\ i \notin Vehicle \union Reminder \union Odometer \union Fuel \union Service
                              /\ Fields(i) = {"active"}
         /\ i \in Reminder => /\ i \notin Vehicle \union PartType \union Odometer \union Fuel \union Service
                              /\ Fields(i) = {"vehicle", "partType", "everyKm", "everyDays",
                                              "baselineKm", "baselineDate", "enabled", "deleted"}
         /\ i \in Odometer => /\ i \notin Vehicle \union PartType \union Reminder \union Fuel \union Service
                              /\ Fields(i) = {"vehicle", "km", "at"}
         /\ i \in Fuel     => /\ i \notin Vehicle \union PartType \union Reminder \union Odometer \union Service
                              /\ Fields(i) = {"vehicle", "at", "liters", "cost", "odometerLog", "deleted"}
         /\ i \in Service  => /\ i \notin Vehicle \union PartType \union Reminder \union Odometer \union Fuel
                              /\ Fields(i) = {"vehicle", "partType", "at", "km", "cost", "deleted"}
<1>1. /\ i \in Vehicle  => i \notin PartType \union Reminder \union Odometer \union Fuel \union Service
      /\ i \in PartType => i \notin Vehicle \union Reminder \union Odometer \union Fuel \union Service
      /\ i \in Reminder => i \notin Vehicle \union PartType \union Odometer \union Fuel \union Service
      /\ i \in Odometer => i \notin Vehicle \union PartType \union Reminder \union Fuel \union Service
      /\ i \in Fuel     => i \notin Vehicle \union PartType \union Reminder \union Odometer \union Service
      /\ i \in Service  => i \notin Vehicle \union PartType \union Reminder \union Odometer \union Fuel
  BY IdAssumption
<1> QED BY <1>1 DEF Fields

\* None is no id.
LEMMA NoneIsNoId == None \notin Id /\ None \notin Int
BY NoneAssumption

LEMMA HundredthsType ==
  ASSUME NEW n \in Nat
  PROVE  Hundredths(n) \in Nat
BY NoneIsNoId DEF Hundredths

\* The columns keep what a payload refers to.
LEMMA CanonicalKeeps ==
  ASSUME NEW x
  PROVE  /\ DOMAIN Canonical(x) = DOMAIN x
         /\ \A k \in DOMAIN x \ {"km", "everyKm", "baselineKm", "liters"} : Canonical(x)[k] = x[k]
         /\ \A k \in DOMAIN x \intersect {"km", "everyKm", "baselineKm", "liters"} :
              Canonical(x)[k] = Hundredths(x[k])
BY DEF Canonical

LEMMA CanonicalRefs ==
  ASSUME NEW x
  PROVE  Refs(Canonical(x)) = Refs(x)
<1>1. \A k \in {"vehicle", "partType", "odometerLog"} :
        /\ k \in DOMAIN Canonical(x) <=> k \in DOMAIN x
        /\ k \in DOMAIN x => Canonical(x)[k] = x[k]
  BY CanonicalKeeps
<1> QED BY <1>1 DEF Refs

LEMMA CanonicalAbout ==
  ASSUME NEW i \in Id, NEW x, About(i, x)
  PROVE  About(i, Canonical(x))
<1> DEFINE c == Canonical(x)
<1>1. DOMAIN c = Fields(i)
  BY CanonicalKeeps DEF About
<1>2. /\ i \in Reminder => c.vehicle = x.vehicle /\ c.partType = x.partType
      /\ i \in Odometer \union Fuel \union Service => c.vehicle = x.vehicle /\ c.at = x.at
      /\ i \in Service => c.partType = x.partType
      /\ i \in Fuel => c.odometerLog = x.odometerLog
  BY CanonicalKeeps, FieldsOfId DEF About
<1>3. About(i, c)
  <2> HIDE DEF c
  <2> QED BY <1>1, <1>2 DEF About
<1> QED BY <1>3

LEMMA CanonicalAmounts ==
  ASSUME NEW i \in Id, NEW x, About(i, x), Amounts(i, x), Storable(x)
  PROVE  Amounts(i, Canonical(x))
<1> DEFINE c == Canonical(x)
<1>1. /\ DOMAIN c = Fields(i) /\ DOMAIN x = Fields(i)
      /\ Readable(c)
  BY CanonicalKeeps DEF About, Storable
<1>2. CASE i \in Vehicle
  <2>1. c.dueSoonRatio = x.dueSoonRatio
    BY <1>1, <1>2, CanonicalKeeps, FieldsOfId
  <2> QED BY <1>2, <2>1, FieldsOfId DEF Amounts
<1>3. CASE i \in Reminder
  <2>1. c.everyDays = x.everyDays /\ c.everyKm = Hundredths(x.everyKm)
    BY <1>1, <1>3, CanonicalKeeps, FieldsOfId
  <2>2. x.everyKm \in Counted /\ x.everyDays \in Counted
    BY <1>3 DEF Amounts
  <2>3. c.everyKm \in Nat \union {None}
    BY <2>1, <2>2, HundredthsType DEF Counted, Hundredths
  <2>4. /\ c.everyKm # None \/ c.everyDays # None
        /\ c.everyKm # None => c.everyKm > 0
    <3>1. {"everyKm", "everyDays"} \subseteq DOMAIN c
      BY <1>1, <1>3, FieldsOfId
    <3> HIDE DEF c
    <3> QED BY <1>1, <3>1 DEF Readable, Has
  <2>5. c.everyKm \in Counted
    BY <2>3, <2>4 DEF Counted
  <2> HIDE DEF c
  <2>6. Amounts(i, c)
    BY <1>3, <2>1, <2>2, <2>4, <2>5, FieldsOfId DEF Amounts
  <2> QED BY <2>6 DEF c
<1>4. CASE i \in Fuel
  <2>1. c.liters = Hundredths(x.liters) /\ c.cost = x.cost
    BY <1>1, <1>4, CanonicalKeeps, FieldsOfId
  <2>2. x.liters \in Counted /\ x.cost \in Cost
    BY <1>4 DEF Amounts
  <2>3. c.liters \in Nat \union {None}
    BY <2>1, <2>2, HundredthsType DEF Counted, Hundredths
  <2>4. c.liters # None => c.liters > 0
    <3>1. "liters" \in DOMAIN c
      BY <1>1, <1>4, FieldsOfId
    <3> HIDE DEF c
    <3> QED BY <1>1, <3>1 DEF Readable, Has
  <2>5. c.liters \in Counted
    BY <2>3, <2>4 DEF Counted
  <2> HIDE DEF c
  <2>6. Amounts(i, c)
    BY <1>4, <2>1, <2>2, <2>5, FieldsOfId DEF Amounts
  <2> QED BY <2>6 DEF c
<1>5. CASE i \in Service
  <2>1. c.km = Hundredths(x.km) /\ c.cost = x.cost
    BY <1>1, <1>5, CanonicalKeeps, FieldsOfId
  <2>2. x.km \in Nat \union {None} /\ x.cost \in Cost
    BY <1>5 DEF Amounts
  <2>3. c.km \in Nat \union {None}
    BY <2>1, <2>2, HundredthsType DEF Hundredths
  <2> HIDE DEF c
  <2>6. Amounts(i, c)
    BY <1>5, <2>1, <2>2, <2>3, FieldsOfId DEF Amounts
  <2> QED BY <2>6 DEF c
<1>6. CASE i \in PartType \union Odometer
  BY <1>6, FieldsOfId DEF Amounts
<1> QED BY <1>2, <1>3, <1>4, <1>5, <1>6 DEF Id

LEMMA CanonicalSays ==
  ASSUME NEW h, h.id \in Id, About(h.id, h.payload),
         NEW m, m.id = h.id, m.payload = Canonical(h.payload),
         NEW o, NEW v, Says(m, o, v)
  PROVE  Says(h, o, v)
<1>1. /\ h.id \in Odometer \union Fuel => m.payload.vehicle = h.payload.vehicle
      /\ h.id \in Fuel => m.payload.odometerLog = h.payload.odometerLog
  BY CanonicalKeeps, FieldsOfId DEF About
<1> QED BY <1>1 DEF Says

\* Whatever a device may hold of a reminder or a fuel log, the columns take it, unless
\* an amount vanishes in them.
LEMMA StorableOrVanishes ==
  ASSUME NEW i \in Id, NEW x, About(i, x), Amounts(i, x)
  PROVE  Storable(x) \/ Vanishes(x)
<1> DEFINE c == Canonical(x)
<1> SUFFICES ASSUME ~Vanishes(x) PROVE Readable(c)
  BY DEF Storable
<1>1. DOMAIN c = Fields(i) /\ DOMAIN x = Fields(i)
  BY CanonicalKeeps DEF About
<1>2. \A k \in {"everyKm", "liters"} : k \in Fields(i) /\ x[k] # None => Hundredths(x[k]) # 0
  BY <1>1 DEF Vanishes, Has
<1>3. CASE i \in Reminder
  <2>1. c.everyDays = x.everyDays /\ c.everyKm = Hundredths(x.everyKm)
    BY <1>1, <1>3, CanonicalKeeps, FieldsOfId
  <2>2. /\ x.everyKm \in Counted /\ x.everyDays \in Counted
        /\ x.everyKm # None \/ x.everyDays # None
    BY <1>3 DEF Amounts
  <2>3. x.everyKm # None => Hundredths(x.everyKm) \in Nat /\ Hundredths(x.everyKm) # 0
    BY <1>2, <1>3, <2>2, FieldsOfId, HundredthsType DEF Counted
  <2>4. x.everyKm = None => c.everyKm = None
    BY <2>1 DEF Hundredths
  <2>5. x.everyKm # None => c.everyKm # None
    BY <2>1, <2>3, NoneIsNoId
  <2>6. /\ c.everyKm # None => c.everyKm > 0
        /\ c.everyDays # None => c.everyDays > 0
    BY <2>1, <2>2, <2>3, <2>4 DEF Counted
  <2>7. "liters" \notin DOMAIN c /\ "everyKm" \in DOMAIN c /\ "everyDays" \in DOMAIN c
    BY <1>1, <1>3, FieldsOfId
  <2> HIDE DEF c
  <2> QED BY <2>1, <2>2, <2>5, <2>6, <2>7 DEF Readable, Has
<1>4. CASE i \in Fuel
  <2>1. c.liters = Hundredths(x.liters)
    BY <1>1, <1>4, CanonicalKeeps, FieldsOfId
  <2>2. x.liters \in Counted
    BY <1>4 DEF Amounts
  <2>3. x.liters # None => Hundredths(x.liters) \in Nat /\ Hundredths(x.liters) # 0
    BY <1>2, <1>4, <2>2, FieldsOfId, HundredthsType DEF Counted
  <2>4. x.liters = None => c.liters = None
    BY <2>1 DEF Hundredths
  <2>5. c.liters # None => c.liters > 0
    BY <2>1, <2>3, <2>4
  <2>6. "everyKm" \notin DOMAIN c /\ "everyDays" \notin DOMAIN c
    BY <1>1, <1>4, FieldsOfId
  <2> HIDE DEF c
  <2> QED BY <2>5, <2>6 DEF Readable, Has
<1>5. CASE i \notin Reminder \union Fuel
  <2>1. {"everyKm", "everyDays", "liters"} \intersect DOMAIN c = {}
    BY <1>1, <1>5, FieldsOfId DEF Id
  <2> HIDE DEF c
  <2> QED BY <2>1 DEF Readable, Has
<1> QED BY <1>3, <1>4, <1>5

-----------------------------------------------------------------------------
(* What a step may say *)

\* Whatever is said after a step was said before it or is new, or is what the columns
\* make of that; if what is new fits, all of it does.
LEMMA HeldKeeps ==
  ASSUME HeldFits, OneVehicle, clock \in Nat, clock' \in Nat, clock <= clock', NEW More,
         \A m \in More : m.id \in Id /\ About(m.id, m.payload) /\ Amounts(m.id, m.payload),
         \A m \in More, h \in Held \union More, o \in Odometer, v, w \in Vehicle :
           Says(m, o, v) /\ Says(h, o, w) => v = w,
         \A m \in Held' : \E h \in Held \union More :
           /\ m.id = h.id
           /\ \/ m.payload = h.payload
              \/ m.payload = Canonical(h.payload) /\ Storable(h.payload)
  PROVE  HeldFits' /\ OneVehicle'
<1>1. \A h \in Held \union More : h.id \in Id /\ About(h.id, h.payload) /\ Amounts(h.id, h.payload)
  BY DEF HeldFits
<1>2. ASSUME NEW i, NEW x, About(i, x) PROVE About(i, x)'
  BY <1>2 DEF About
<1>3. ASSUME NEW m \in Held'
      PROVE  /\ m.id \in Id /\ About(m.id, m.payload)' /\ Amounts(m.id, m.payload)
             /\ \E h \in Held \union More : \A o, v : Says(m, o, v) => Says(h, o, v)
  <2>1. PICK h \in Held \union More :
           /\ m.id = h.id
           /\ \/ m.payload = h.payload
              \/ m.payload = Canonical(h.payload) /\ Storable(h.payload)
    BY <1>3
  <2>2. m.id \in Id /\ About(h.id, h.payload) /\ Amounts(h.id, h.payload)
    BY <1>1, <2>1
  <2>3. CASE m.payload = h.payload
    <3>1. \A o, v : Says(m, o, v) => Says(h, o, v)
      BY <2>1, <2>3 DEF Says
    <3> QED BY <1>2, <2>1, <2>2, <2>3, <3>1
  <2>4. CASE m.payload = Canonical(h.payload) /\ Storable(h.payload)
    <3>1. About(m.id, m.payload) /\ Amounts(m.id, m.payload)
      BY <2>1, <2>2, <2>4, CanonicalAbout, CanonicalAmounts
    <3>2. \A o, v : Says(m, o, v) => Says(h, o, v)
      BY <2>1, <2>2, <2>4, CanonicalSays
    <3> QED BY <1>2, <2>1, <2>2, <3>1, <3>2
  <2> QED BY <2>1, <2>3, <2>4
<1>4. HeldFits'
  BY <1>3 DEF HeldFits, Amounts
<1>5. OneVehicle'
  <2>1. \A a, b \in Held \union More, o \in Odometer, v, w \in Vehicle :
          Says(a, o, v) /\ Says(b, o, w) => v = w
    BY DEF OneVehicle
  <2>2. \A a, b \in Held', o \in Odometer, v, w \in Vehicle :
          Says(a, o, v) /\ Says(b, o, w) => v = w
    BY <1>3, <2>1
  <2> QED BY <2>2 DEF OneVehicle, Says
<1> QED BY <1>4, <1>5

LEMMA HeldStays ==
  ASSUME HeldFits, OneVehicle, clock \in Nat, clock' \in Nat, clock <= clock',
         \A m \in Held' : \E h \in Held :
           /\ m.id = h.id
           /\ \/ m.payload = h.payload
              \/ m.payload = Canonical(h.payload) /\ Storable(h.payload)
  PROVE  HeldFits' /\ OneVehicle'
<1>1. PICK More : More = {}
  OBVIOUS
<1>2. /\ \A m \in More : m.id \in Id /\ About(m.id, m.payload) /\ Amounts(m.id, m.payload)
      /\ \A m \in More, h \in Held \union More, o \in Odometer, v, w \in Vehicle :
           Says(m, o, v) /\ Says(h, o, w) => v = w
      /\ Held \union More = Held
  BY <1>1
<1> QED BY <1>2, HeldKeeps

LEMMA SeqElements ==
  ASSUME NEW S, NEW s \in Seq(S)
  PROVE  /\ Len(s) \in Nat /\ DOMAIN s = 1 .. Len(s)
         /\ \A n \in DOMAIN s : s[n] \in S
OBVIOUS

LEMMA MutationType ==
  ASSUME NEW S, NEW P, NEW m \in [id : S, payload : P]
  PROVE  m.id \in S /\ m = [id |-> m.id, payload |-> m.payload]
OBVIOUS

\* The outbox is a sequence of mutations of rows of the device.
LEMMA QueueType ==
  ASSUME TypeOK
  PROVE  /\ Len(outbox) \in Nat /\ DOMAIN outbox = 1 .. Len(outbox)
         /\ \A n \in DOMAIN outbox :
              /\ outbox[n].id \in DOMAIN local
              /\ outbox[n] = [id |-> outbox[n].id, payload |-> outbox[n].payload]
         /\ Queued \subseteq DOMAIN local
<1>1. PICK P : outbox \in Seq([id : DOMAIN local, payload : P])
  BY DEF TypeOK
<1> DEFINE M == [id : DOMAIN local, payload : P]
<1>2. Len(outbox) \in Nat /\ DOMAIN outbox = 1 .. Len(outbox) /\ \A n \in DOMAIN outbox : outbox[n] \in M
  <2> HIDE DEF M
  <2>1. outbox \in Seq(M)
    BY <1>1 DEF M
  <2> QED BY <2>1, SeqElements
<1>3. \A n \in DOMAIN outbox : outbox[n] \in [id : DOMAIN local, payload : P]
  BY <1>2
<1>4. \A n \in DOMAIN outbox :
        /\ outbox[n].id \in DOMAIN local
        /\ outbox[n] = [id |-> outbox[n].id, payload |-> outbox[n].payload]
  BY <1>3, MutationType
<1>5. Queued \subseteq DOMAIN local
  BY <1>4 DEF Queued
<1> QED BY <1>2, <1>4, <1>5

\* A reading with a new id is not spoken of.
LEMMA Unsaid ==
  ASSUME IInv, NEW o \in Odometer, o \notin DOMAIN local \union DOMAIN server,
         NEW m \in Held, NEW v
  PROVE  ~Says(m, o, v)
<1>1. Queued \subseteq DOMAIN local
  BY QueueType DEF IInv
<1>2. m.id \in DOMAIN local \union DOMAIN server \union Queued
  BY DEF Held, Queued
<1>3. Refs(m.payload) \subseteq DOMAIN local \union DOMAIN server
  <2>1. \A n \in DOMAIN outbox : Before(n) \subseteq DOMAIN server \union Queued
    <3>1. DOMAIN outbox = 1 .. Len(outbox) /\ Len(outbox) \in Nat
      BY QueueType DEF IInv
    <3> QED BY <3>1 DEF Before, Queued
  <2> QED BY <1>1, <2>1 DEF IInv, Closed, Held
<1>4. m.id \in Fuel => (m.payload.odometerLog = o => o \in Refs(m.payload))
  <2>1. m.id \in Fuel => "odometerLog" \in DOMAIN m.payload
    BY FieldsOfId DEF IInv, HeldFits, About
  <2> QED BY <2>1, NoneIsNoId DEF Refs, Id
<1> QED BY <1>1, <1>2, <1>3, <1>4 DEF Says

-----------------------------------------------------------------------------
(* Writes.  A repository call writes one row, or a reading and the fuel log of it. *)

IsRow(row) == row = [is |-> row.is, created |-> row.created, synced |-> row.synced]

\* The write w fits what d has once the rows of the ids done are written.
WriteFits(d, done, w) ==
  /\ w.id \in Id /\ IsRow(w.row) /\ About(w.id, w.row.is) /\ Amounts(w.id, w.row.is)
  /\ Refs(w.row.is) \subseteq DOMAIN RowsOf(d) \union done
  /\ w.id \in Odometer => w.id \notin DOMAIN local \union DOMAIN server
  /\ w.row.synced # None => w.id \in DOMAIN RowsOf(d) /\ w.row.synced = RowsOf(d)[w.id].synced

Ids(ws, n)   == {ws[k].id : k \in 1 .. n}
Mutations(ws) == {Mutation(ws[n]) : n \in DOMAIN ws}

WritesFit(d, ws) ==
  /\ Len(ws) \in {1, 2} /\ DOMAIN ws = 1 .. Len(ws)
  /\ \A n \in DOMAIN ws : WriteFits(d, Ids(ws, n - 1), ws[n])
  /\ \A n, k \in DOMAIN ws : ws[n].id = ws[k].id => n = k
  /\ \A m \in Mutations(ws), h \in Held \union Mutations(ws), o \in Odometer, v, w \in Vehicle :
       Says(m, o, v) /\ Says(h, o, w) => v = w

\* What a device has is said, and closed under reference.
LEMMA RowsOfDevice ==
  ASSUME IInv, NEW d \in Device, NEW i \in DOMAIN RowsOf(d)
  PROVE  LET row == RowsOf(d)[i] IN
         /\ i \in Id /\ IsRow(row) /\ About(i, row.is) /\ Amounts(i, row.is)
         /\ [id |-> i, payload |-> row.is] \in Held
         /\ Refs(row.is) \subseteq DOMAIN RowsOf(d)
<1> DEFINE row == RowsOf(d)[i]
<1>1. CASE d = Here
  <2>1. i \in DOMAIN local /\ row = local[i] /\ DOMAIN RowsOf(d) = DOMAIN local
    BY <1>1 DEF RowsOf
  <2>2. [id |-> i, payload |-> row.is] \in Held
    BY <2>1 DEF Held
  <2>3. IsRow(row) /\ Refs(row.is) \subseteq DOMAIN local
    BY <2>1 DEF IInv, RowsAreRows, Closed, IsRow
  <2> HIDE DEF row
  <2>4. i \in Id /\ About(i, row.is) /\ Amounts(i, row.is)
    BY <2>2 DEF IInv, HeldFits
  <2> QED BY <2>1, <2>2, <2>3, <2>4 DEF row
<1>2. CASE d = There
  <2>1. /\ i \in DOMAIN server /\ DOMAIN RowsOf(d) = DOMAIN server
        /\ row = applyEntityChange(<<>>, i, server[i])
    BY <1>2, DeviceAssumption DEF RowsOf, Pulled
  <2>2. row = [is |-> server[i].is, created |-> server[i].synced, synced |-> server[i].synced]
    BY <2>1 DEF applyEntityChange
  <2>3. row.is = server[i].is /\ IsRow(row)
    BY <2>2 DEF IsRow
  <2>4. [id |-> i, payload |-> server[i].is] \in Held
    BY <2>1 DEF Held
  <2>5. Refs(server[i].is) \subseteq DOMAIN server
    BY <2>1 DEF IInv, Closed
  <2> HIDE DEF row
  <2>6. i \in Id /\ About(i, server[i].is) /\ Amounts(i, server[i].is)
    BY <2>4 DEF IInv, HeldFits
  <2> QED BY <2>1, <2>3, <2>4, <2>5, <2>6 DEF row
<1> QED BY <1>1, <1>2 DEF Device

LEMMA Concatenated ==
  ASSUME NEW S, NEW s \in Seq(S), NEW T, NEW t \in Seq(T)
  PROVE  /\ Len(s) \in Nat /\ Len(t) \in Nat
         /\ Len(s \o t) = Len(s) + Len(t) /\ DOMAIN (s \o t) = 1 .. Len(s) + Len(t)
         /\ \A n \in 1 .. Len(s) : (s \o t)[n] = s[n]
         /\ \A n \in 1 .. Len(t) : (s \o t)[Len(s) + n] = t[n]
<1>1. s \in Seq(S \union T) /\ t \in Seq(S \union T)
  OBVIOUS
<1> QED BY <1>1

LEMMA ConcatenatedIn ==
  ASSUME NEW S, NEW s \in Seq(S), NEW T, NEW t \in Seq(T)
  PROVE  s \o t \in Seq(S \union T)
<1>1. s \in Seq(S \union T) /\ t \in Seq(S \union T)
  OBVIOUS
<1> QED BY <1>1

LEMMA MutationIn ==
  ASSUME NEW I, NEW P, NEW m, m = [id |-> m.id, payload |-> m.payload], m.id \in I, m.payload \in P
  PROVE  m \in [id : I, payload : P]
OBVIOUS

LEMMA OutboxIn ==
  ASSUME NEW S, NEW s \in Seq(S), NEW I, NEW P,
         \A n \in DOMAIN s :
           /\ s[n].id \in I /\ s[n].payload \in P
           /\ s[n] = [id |-> s[n].id, payload |-> s[n].payload]
  PROVE  s \in Seq([id : I, payload : P])
<1> DEFINE M == [id : I, payload : P]
<1>1. \A n \in DOMAIN s : s[n] \in M
  BY MutationIn
<1>2. Len(s) \in Nat /\ DOMAIN s = 1 .. Len(s)
  OBVIOUS
<1> HIDE DEF M
<1>3. s \in Seq(M)
  BY <1>1, <1>2
<1> QED BY <1>3 DEF M

\* What a transaction of the device writes
LEMMA EnqueueEffect ==
  ASSUME TypeOK, NEW ws, Enqueue(ws), Len(ws) \in Nat, DOMAIN ws = 1 .. Len(ws),
         \A n, k \in DOMAIN ws : ws[n].id = ws[k].id => n = k
  PROVE  /\ DOMAIN local' = DOMAIN local \union Ids(ws, Len(ws))
         /\ \A n \in DOMAIN ws : local'[ws[n].id] = ws[n].row
         /\ \A i \in DOMAIN local \ Ids(ws, Len(ws)) : local'[i] = local[i]
         /\ \E S : outbox' \in Seq(S)
         /\ Len(outbox') = Len(outbox) + Len(ws) /\ DOMAIN outbox' = 1 .. Len(outbox')
         /\ \A n \in 1 .. Len(outbox) : outbox'[n] = outbox[n]
         /\ \A n \in DOMAIN ws : outbox'[Len(outbox) + n] = Mutation(ws[n])
         /\ UNCHANGED <<server, seq>>
<1>1. Ids(ws, Len(ws)) = {ws[n].id : n \in DOMAIN ws}
  BY DEF Ids
<1>2. DOMAIN local' = DOMAIN local \union Ids(ws, Len(ws))
  BY <1>1 DEF Enqueue
<1>3. ASSUME NEW n \in DOMAIN ws PROVE local'[ws[n].id] = ws[n].row
  <2>1. ws[n].id \in DOMAIN local \union {ws[k].id : k \in DOMAIN ws}
    OBVIOUS
  <2>2. (CHOOSE k \in DOMAIN ws : ws[k].id = ws[n].id) = n
    OBVIOUS
  <2> QED BY <2>1, <2>2 DEF Enqueue
<1>4. ASSUME NEW i \in DOMAIN local \ Ids(ws, Len(ws)) PROVE local'[i] = local[i]
  BY <1>1 DEF Enqueue
<1>5. /\ \E S : outbox' \in Seq(S)
      /\ Len(outbox') = Len(outbox) + Len(ws) /\ DOMAIN outbox' = 1 .. Len(outbox')
      /\ \A n \in 1 .. Len(outbox) : outbox'[n] = outbox[n]
      /\ \A n \in DOMAIN ws : outbox'[Len(outbox) + n] = Mutation(ws[n])
  <2> DEFINE ms == [n \in DOMAIN ws |-> Mutation(ws[n])]
  <2>1. ms \in Seq(Mutations(ws)) /\ Len(ms) = Len(ws)
    BY DEF Mutations
  <2>2. PICK S : outbox \in Seq(S)
    BY DEF TypeOK
  <2>3. outbox' = outbox \o ms
    BY DEF Enqueue
  <2>4. \A n \in DOMAIN ws : ms[n] = Mutation(ws[n])
    OBVIOUS
  <2> HIDE DEF ms
  <2>5. /\ Len(outbox \o ms) = Len(outbox) + Len(ms) /\ DOMAIN (outbox \o ms) = 1 .. Len(outbox) + Len(ms)
        /\ \A n \in 1 .. Len(outbox) : (outbox \o ms)[n] = outbox[n]
        /\ \A n \in 1 .. Len(ms) : (outbox \o ms)[Len(outbox) + n] = ms[n]
    <3>1. PICK M, t : M = Mutations(ws) /\ t = ms
      OBVIOUS
    <3>2. PICK s : s = outbox
      OBVIOUS
    <3>3. s \in Seq(S) /\ t \in Seq(M)
      BY <2>1, <2>2, <3>1, <3>2
    <3>4. /\ Len(s \o t) = Len(s) + Len(t) /\ DOMAIN (s \o t) = 1 .. Len(s) + Len(t)
          /\ \A n \in 1 .. Len(s) : (s \o t)[n] = s[n]
          /\ \A n \in 1 .. Len(t) : (s \o t)[Len(s) + n] = t[n]
      BY ONLY <3>3, Concatenated
    <3> QED BY <3>1, <3>2, <3>4
  <2>6. \E T : outbox \o ms \in Seq(T)
    <3>1. outbox \o ms \in Seq(S \union Mutations(ws))
      BY ONLY <2>1, <2>2, ConcatenatedIn
    <3> QED BY <3>1
  <2>7. /\ Len(outbox') = Len(outbox) + Len(ws) /\ DOMAIN outbox' = 1 .. Len(outbox')
        /\ \A n \in 1 .. Len(outbox) : outbox'[n] = outbox[n]
    BY <2>1, <2>3, <2>5
  <2>8. \A n \in DOMAIN ws : outbox'[Len(outbox) + n] = Mutation(ws[n])
    BY <2>1, <2>3, <2>4, <2>5
  <2> QED BY <2>3, <2>6, <2>7, <2>8
<1> QED BY <1>2, <1>3, <1>4, <1>5 DEF Enqueue

\* A mutation as the server takes it
LEMMA ApplyEffect ==
  ASSUME NEW at, NEW m, m.id \in Odometer => m.id \notin DOMAIN at.rows
  PROVE  LET after == ApplyMutation(at, m) IN
         /\ after.seq = at.seq + 1
         /\ DOMAIN after.rows = DOMAIN at.rows \union {m.id}
         /\ after.rows[m.id] = [is |-> Canonical(m.payload), synced |-> at.seq + 1]
         /\ \A i \in DOMAIN at.rows \ {m.id} : after.rows[i] = at.rows[i]
BY DEF ApplyMutation

\* What the other device writes, pushed at once
LEMMA PushEffect ==
  ASSUME TypeOK, NEW ws, PushAtOnce(ws), Len(ws) \in {1, 2}, DOMAIN ws = 1 .. Len(ws),
         \A n, k \in DOMAIN ws : ws[n].id = ws[k].id => n = k,
         \A n \in DOMAIN ws : ws[n].id \in Odometer => ws[n].id \notin DOMAIN server
  PROVE  /\ DOMAIN server' = DOMAIN server \union Ids(ws, Len(ws))
         /\ \A n \in DOMAIN ws : server'[ws[n].id] = [is |-> Canonical(ws[n].row.is), synced |-> seq + n]
         /\ \A i \in DOMAIN server \ Ids(ws, Len(ws)) : server'[i] = server[i]
         /\ seq' = seq + Len(ws)
         /\ \A n \in DOMAIN ws : Storable(ws[n].row.is)
         /\ UNCHANGED <<local, outbox>>
<1> DEFINE start == [rows |-> server, seq |-> seq]
           first == ApplyMutation(start, Mutation(ws[1]))
           second == ApplyMutation(first, Mutation(ws[2]))
<1>1. \A n \in DOMAIN ws : Mutation(ws[n]).id = ws[n].id /\ Mutation(ws[n]).payload = ws[n].row.is
  BY DEF Mutation
<1>2. start.rows = server /\ start.seq = seq /\ seq \in Nat
  BY DEF TypeOK
<1>3. /\ first.seq = seq + 1
      /\ DOMAIN first.rows = DOMAIN server \union {ws[1].id}
      /\ first.rows[ws[1].id] = [is |-> Canonical(ws[1].row.is), synced |-> seq + 1]
      /\ \A i \in DOMAIN server \ {ws[1].id} : first.rows[i] = server[i]
  <2>1. 1 \in DOMAIN ws
    OBVIOUS
  <2> HIDE DEF start
  <2> QED BY <1>1, <1>2, <2>1, ApplyEffect
<1>4. CASE Len(ws) = 1
  <2>1. Ids(ws, Len(ws)) = {ws[1].id} /\ DOMAIN ws = {1}
    BY <1>4 DEF Ids
  <2>2. server' = first.rows /\ seq' = first.seq
    BY <1>4 DEF PushAtOnce
  <2> HIDE DEF first
  <2>3. UNCHANGED <<local, outbox>> /\ \A n \in DOMAIN ws : Storable(ws[n].row.is)
    BY DEF PushAtOnce
  <2> QED BY <1>3, <1>4, <2>1, <2>2, <2>3
<1>5. CASE Len(ws) = 2
  <2>1. Ids(ws, Len(ws)) = {ws[1].id, ws[2].id} /\ DOMAIN ws = {1, 2} /\ ws[1].id # ws[2].id
    BY <1>5 DEF Ids
  <2>2. server' = second.rows /\ seq' = second.seq
    BY <1>5 DEF PushAtOnce
  <2> HIDE DEF first
  <2>3. /\ second.seq = first.seq + 1
        /\ DOMAIN second.rows = DOMAIN first.rows \union {ws[2].id}
        /\ second.rows[ws[2].id] = [is |-> Canonical(ws[2].row.is), synced |-> first.seq + 1]
        /\ \A i \in DOMAIN first.rows \ {ws[2].id} : second.rows[i] = first.rows[i]
    BY <1>1, <1>3, <2>1, ApplyEffect
  <2> HIDE DEF second
  <2>4. UNCHANGED <<local, outbox>> /\ \A n \in DOMAIN ws : Storable(ws[n].row.is)
    BY DEF PushAtOnce
  <2>5. first.seq + 1 = seq + 2 /\ seq' = seq + 2
    BY <1>2, <1>3, <2>2, <2>3
  <2>6. DOMAIN server' = DOMAIN server \union {ws[1].id, ws[2].id}
    BY <1>3, <2>2, <2>3
  <2>7. server'[ws[1].id] = [is |-> Canonical(ws[1].row.is), synced |-> seq + 1]
    BY <1>3, <2>1, <2>2, <2>3
  <2>8. server'[ws[2].id] = [is |-> Canonical(ws[2].row.is), synced |-> seq + 2]
    BY <2>2, <2>3, <2>5
  <2>9. \A i \in DOMAIN server \ {ws[1].id, ws[2].id} : server'[i] = server[i]
    BY <1>3, <2>2, <2>3
  <2> QED BY <1>5, <2>1, <2>4, <2>5, <2>6, <2>7, <2>8, <2>9
<1> QED BY <1>4, <1>5

\* The facts a write rests on
LEMMA FitFacts ==
  ASSUME IInv, NEW d \in Device, NEW ws, WritesFit(d, ws), NEW n \in DOMAIN ws
  PROVE  /\ n \in 1 .. Len(ws) /\ Len(ws) \in Nat /\ DOMAIN ws = 1 .. Len(ws)
         /\ ws[n].id \in Ids(ws, Len(ws)) /\ ws[n].id \in Id
         /\ ws[n].row = [is |-> ws[n].row.is, created |-> ws[n].row.created, synced |-> ws[n].row.synced]
         /\ About(ws[n].id, ws[n].row.is) /\ Amounts(ws[n].id, ws[n].row.is)
         /\ Refs(ws[n].row.is) \subseteq DOMAIN RowsOf(d) \union Ids(ws, n - 1)
         /\ ws[n].id \in Odometer => ws[n].id \notin DOMAIN local \union DOMAIN server
         /\ ws[n].row.synced # None =>
              ws[n].id \in DOMAIN RowsOf(d) /\ ws[n].row.synced = RowsOf(d)[ws[n].id].synced
         /\ Mutation(ws[n]) = [id |-> ws[n].id, payload |-> ws[n].row.is]
         /\ Mutation(ws[n]) \in Mutations(ws)
<1>1. n \in 1 .. Len(ws) /\ Len(ws) \in Nat /\ DOMAIN ws = 1 .. Len(ws)
  BY DEF WritesFit
<1>2. ws[n].id \in Ids(ws, Len(ws))
  BY <1>1 DEF Ids
<1>3. WriteFits(d, Ids(ws, n - 1), ws[n])
  BY DEF WritesFit
<1> QED BY <1>1, <1>2, <1>3 DEF WriteFits, IsRow, Mutation, Mutations

LEMMA IdsOfWrites ==
  ASSUME NEW ws, DOMAIN ws = 1 .. Len(ws), Len(ws) \in Nat
  PROVE  /\ Ids(ws, Len(ws)) = {ws[n].id : n \in DOMAIN ws}
         /\ \A n \in DOMAIN ws : Ids(ws, n - 1) \subseteq Ids(ws, Len(ws))
         /\ \A n \in DOMAIN ws : \A i \in Ids(ws, n - 1) : \E k \in 1 .. n - 1 : i = ws[k].id
BY DEF Ids

LEMMA WriteHereKeeps ==
  ASSUME IInv, NEW ws, WritesFit(Here, ws), Write(Here, ws)
  PROVE  IInv'
<1> DEFINE new == Ids(ws, Len(ws))
           L == Len(outbox)
<1>1. /\ Len(ws) \in Nat /\ DOMAIN ws = 1 .. Len(ws) /\ Here \in Device
      /\ \A n, k \in DOMAIN ws : ws[n].id = ws[k].id => n = k
  BY DEF WritesFit, Device
<1>2. Enqueue(ws) /\ UNCHANGED <<clock, seen>> /\ edits' = [edits EXCEPT ![Here] = @ + 1]
  BY DEF Write
<1>3. /\ DOMAIN local' = DOMAIN local \union new
      /\ \A n \in DOMAIN ws : local'[ws[n].id] = ws[n].row
      /\ \A i \in DOMAIN local \ new : local'[i] = local[i]
  BY <1>1, <1>2, EnqueueEffect DEF IInv
<1>4. /\ \E S : outbox' \in Seq(S)
      /\ Len(outbox') = L + Len(ws) /\ DOMAIN outbox' = 1 .. Len(outbox')
  BY <1>1, <1>2, EnqueueEffect DEF IInv
<1>5. /\ \A n \in 1 .. L : outbox'[n] = outbox[n]
      /\ \A n \in DOMAIN ws : outbox'[L + n] = Mutation(ws[n])
  BY <1>1, <1>2, EnqueueEffect DEF IInv
<1>6. UNCHANGED <<server, seq>>
  BY <1>2 DEF Enqueue
<1>7. /\ new = {ws[n].id : n \in DOMAIN ws}
      /\ \A n \in DOMAIN ws : Ids(ws, n - 1) \subseteq new
  BY <1>1, IdsOfWrites
<1> HIDE DEF new
<1>8. RowsOf(Here) = local
  BY DEF RowsOf
<1>9. \A n \in DOMAIN ws :
         /\ ws[n].id \in new /\ ws[n].id \in Id
         /\ About(ws[n].id, ws[n].row.is) /\ Amounts(ws[n].id, ws[n].row.is)
         /\ ws[n].id \in Odometer => ws[n].id \notin DOMAIN local \union DOMAIN server
  BY <1>1, <1>7, FitFacts
<1>10. \A n \in DOMAIN ws : Refs(ws[n].row.is) \subseteq DOMAIN local \union Ids(ws, n - 1)
  BY <1>1, <1>8, FitFacts
<1>11. \A n \in DOMAIN ws :
         /\ ws[n].row = [is |-> ws[n].row.is, created |-> ws[n].row.created, synced |-> ws[n].row.synced]
         /\ ws[n].row.synced # None => ws[n].id \in DOMAIN local /\ ws[n].row.synced = local[ws[n].id].synced
  BY <1>1, <1>8, FitFacts
<1>12. \A n \in DOMAIN ws :
         /\ Mutation(ws[n]) = [id |-> ws[n].id, payload |-> ws[n].row.is]
         /\ Mutation(ws[n]) \in Mutations(ws)
  BY <1>1, FitFacts
<1>13. /\ L \in Nat /\ DOMAIN outbox = 1 .. L
       /\ Queued \subseteq DOMAIN local
  BY QueueType DEF IInv
<1>14. \A n \in DOMAIN outbox :
         /\ outbox[n].id \in DOMAIN local
         /\ outbox[n] = [id |-> outbox[n].id, payload |-> outbox[n].payload]
  BY QueueType DEF IInv
<1> HIDE DEF L
<1>15. \A i \in DOMAIN local' :
         \/ i \in DOMAIN local \ new /\ local'[i] = local[i]
         \/ \E n \in DOMAIN ws : i = ws[n].id /\ local'[i] = ws[n].row
  BY <1>3, <1>7
<1>16. \A n \in DOMAIN outbox' :
         \/ n \in DOMAIN outbox /\ outbox'[n] = outbox[n]
         \/ \E k \in DOMAIN ws : n = L + k /\ outbox'[n] = Mutation(ws[k])
  <2>1. ASSUME NEW n \in DOMAIN outbox', n \notin DOMAIN outbox
        PROVE  \E k \in DOMAIN ws : n = L + k
    <3>1. n - L \in 1 .. Len(ws) /\ n = L + (n - L)
      BY <1>1, <1>4, <1>13, <2>1
    <3> QED BY <1>1, <3>1
  <2> QED BY <1>5, <1>13, <2>1
<1>17. /\ \A k \in DOMAIN ws : L + k \in DOMAIN outbox'
       /\ DOMAIN outbox \subseteq DOMAIN outbox'
  BY <1>1, <1>4, <1>13
<1>18. \A n \in DOMAIN outbox' :
         /\ outbox'[n].id \in DOMAIN local'
         /\ outbox'[n] = [id |-> outbox'[n].id, payload |-> outbox'[n].payload]
  <2>1. ASSUME NEW k \in DOMAIN ws, NEW m, m = Mutation(ws[k])
        PROVE  m.id \in DOMAIN local' /\ m = [id |-> m.id, payload |-> m.payload]
    BY <1>3, <1>9, <1>12, <2>1
  <2> QED BY <1>3, <1>14, <1>16, <2>1
<1>19. Queued' = Queued \union new
  <2>1. \A n \in DOMAIN outbox' : outbox'[n].id \in Queued \union new
    BY <1>9, <1>12, <1>16 DEF Queued
  <2>2. \A n \in DOMAIN outbox : n \in DOMAIN outbox' /\ outbox'[n].id = outbox[n].id
    BY <1>5, <1>13, <1>17
  <2>3. \A k \in DOMAIN ws : L + k \in DOMAIN outbox' /\ outbox'[L + k].id = ws[k].id
    BY <1>5, <1>12, <1>17
  <2> QED BY <1>7, <2>1, <2>2, <2>3 DEF Queued
<1>20. TypeOK'
  <2>1. outbox' \in Seq([id : DOMAIN local', payload : {outbox'[n].payload : n \in DOMAIN outbox'}])
    <3>1. PICK S : outbox' \in Seq(S)
      BY <1>4
    <3>2. PICK P : P = {outbox'[n].payload : n \in DOMAIN outbox'}
      OBVIOUS
    <3>3. \A n \in DOMAIN outbox' : outbox'[n].payload \in P
      BY <3>2
    <3>4. outbox' \in Seq([id : DOMAIN local', payload : P])
      BY <1>18, <3>1, <3>3, OutboxIn
    <3> QED BY <3>2, <3>4
  <2>2. clock' \in 1 .. MaxClock /\ seq' \in Nat /\ seen' \in 1 .. seq'
    BY <1>2, <1>6 DEF IInv, TypeOK
  <2>3. edits' \in [Device -> Nat]
    <3>1. edits \in [Device -> Nat]
      BY DEF IInv, TypeOK
    <3> QED BY <1>1, <1>2, <3>1
  <2>4. DOMAIN local' \subseteq Id /\ DOMAIN server' \subseteq Id
    BY <1>6, <1>9, <1>15 DEF IInv, TypeOK
  <2>5. \A i \in DOMAIN local' : DOMAIN local'[i].is = Fields(i)
    BY <1>9, <1>15 DEF IInv, TypeOK, About
  <2>6. \A i \in DOMAIN local' : local'[i].synced \in 1 .. seq' \union {None}
    <3>1. \A i \in DOMAIN local : local[i].synced \in 1 .. seq \union {None}
      BY DEF IInv, TypeOK
    <3>2. ASSUME NEW n \in DOMAIN ws PROVE ws[n].row.synced \in 1 .. seq \union {None}
      BY <1>11, <3>1
    <3> QED BY <1>6, <1>15, <3>1, <3>2
  <2>7. \A i \in DOMAIN server' : DOMAIN server'[i].is = Fields(i) /\ server'[i].synced \in 1 .. seq'
    BY <1>6 DEF IInv, TypeOK
  <2> QED BY <2>1, <2>2, <2>3, <2>4, <2>5, <2>6, <2>7 DEF TypeOK, Fields
<1>21. RowsAreRows'
  <2>1. \A i \in DOMAIN local' :
          local'[i] = [is |-> local'[i].is, created |-> local'[i].created, synced |-> local'[i].synced]
    <3>1. ASSUME NEW i \in DOMAIN local', NEW n \in DOMAIN ws, local'[i] = ws[n].row
          PROVE  local'[i] = [is |-> local'[i].is, created |-> local'[i].created, synced |-> local'[i].synced]
      BY <1>11, <3>1
    <3> QED BY <1>15, <3>1 DEF IInv, RowsAreRows
  <2> QED BY <1>6, <2>1 DEF IInv, RowsAreRows
<1>22. HeldFits' /\ OneVehicle'
  <2>1. Held' \subseteq Held \union Mutations(ws)
    <3>1. ASSUME NEW i \in DOMAIN local'
          PROVE  [id |-> i, payload |-> local'[i].is] \in Held \union Mutations(ws)
      BY <1>12, <1>15 DEF Held
    <3>2. \A n \in DOMAIN outbox' : outbox'[n] \in Held \union Mutations(ws)
      BY <1>12, <1>16 DEF Held
    <3>3. \A i \in DOMAIN server' : [id |-> i, payload |-> server'[i].is] \in Held
      BY <1>6 DEF Held
    <3> QED BY <3>1, <3>2, <3>3 DEF Held
  <2>2. \A m \in Mutations(ws) : m.id \in Id /\ About(m.id, m.payload) /\ Amounts(m.id, m.payload)
    <3>1. ASSUME NEW n \in DOMAIN ws, NEW m, m = Mutation(ws[n])
          PROVE  m.id \in Id /\ About(m.id, m.payload) /\ Amounts(m.id, m.payload)
      <4>1. m.id = ws[n].id /\ m.payload = ws[n].row.is
        BY <1>12, <3>1
      <4> QED BY <1>9, <4>1
    <3> QED BY <3>1 DEF Mutations
  <2>3. \A m \in Mutations(ws), h \in Held \union Mutations(ws), o \in Odometer, v, w \in Vehicle :
          Says(m, o, v) /\ Says(h, o, w) => v = w
    BY DEF WritesFit
  <2>4. clock \in Nat /\ clock' = clock
    BY <1>2 DEF IInv, TypeOK
  <2>5. \A m \in Held' : \E h \in Held \union Mutations(ws) : m.id = h.id /\ m.payload = h.payload
    BY <2>1
  <2>6. HeldFits /\ OneVehicle /\ clock' \in Nat /\ clock <= clock'
    BY <2>4 DEF IInv
  <2> QED BY <2>2, <2>3, <2>4, <2>5, <2>6, HeldKeeps
<1>23. Closed'
  <2>1. \A i \in DOMAIN local' : Refs(local'[i].is) \subseteq DOMAIN local'
    BY <1>3, <1>7, <1>10, <1>15 DEF IInv, Closed
  <2>2. \A i \in DOMAIN server' : Refs(server'[i].is) \subseteq DOMAIN server'
    BY <1>6 DEF IInv, Closed
  <2>3. ASSUME NEW n \in DOMAIN outbox PROVE Refs(outbox'[n].payload) \subseteq Before(n)'
    <3>1. Before(n) \subseteq Before(n)'
      <4>1. \A k \in 1 .. n - 1 : outbox'[k] = outbox[k]
        BY <1>5, <1>13
      <4> QED BY <1>6, <4>1 DEF Before
    <3>2. outbox'[n] = outbox[n]
      BY <1>5, <1>13
    <3> QED BY <3>1, <3>2 DEF IInv, Closed
  <2>4. ASSUME NEW n \in DOMAIN ws, NEW j, j = L + n PROVE Refs(outbox'[j].payload) \subseteq Before(j)'
    <3>1. Queued \union DOMAIN server \subseteq Before(j)'
      <4>1. \A k \in DOMAIN outbox : k \in 1 .. j - 1 /\ outbox'[k].id = outbox[k].id
        BY <1>1, <1>5, <1>13, <2>4
      <4> QED BY <1>6, <4>1 DEF Before, Queued
    <3>2. Ids(ws, n - 1) \subseteq Before(j)'
      <4>1. \A k \in 1 .. n - 1 : k \in DOMAIN ws /\ L + k \in 1 .. j - 1
        BY <1>1, <1>13, <2>4
      <4>2. \A k \in DOMAIN ws : outbox'[L + k].id = ws[k].id
        BY <1>5, <1>12
      <4>3. \A i \in Ids(ws, n - 1) : \E k \in 1 .. n - 1 : i = ws[k].id
        BY DEF Ids
      <4> QED BY <4>1, <4>2, <4>3 DEF Before
    <3>3. DOMAIN local \subseteq Queued \union DOMAIN server
      BY DEF IInv, Known
    <3>4. outbox'[j].payload = ws[n].row.is
      BY <1>5, <1>12, <2>4
    <3> QED BY <1>10, <3>1, <3>2, <3>3, <3>4
  <2>5. \A n \in DOMAIN outbox' : Refs(outbox'[n].payload) \subseteq Before(n)'
    BY <1>16, <2>3, <2>4
  <2> QED BY <2>1, <2>2, <2>5 DEF Closed, Refs
<1>24. Known'
  BY <1>3, <1>6, <1>19 DEF IInv, Known
<1>25. ReadOnce'
  <2>1. ASSUME NEW k \in DOMAIN ws, NEW m, m = Mutation(ws[k])
        PROVE  m.id = ws[k].id /\ (m.id \in Odometer => m.id \notin DOMAIN local \union DOMAIN server)
    BY <1>9, <1>12, <2>1
  <2>2. ASSUME NEW n \in DOMAIN outbox', outbox'[n].id \in Odometer
        PROVE  outbox'[n].id \notin DOMAIN server'
    BY <1>6, <1>16, <2>1, <2>2 DEF IInv, ReadOnce
  <2>3. ASSUME NEW n \in DOMAIN outbox', outbox'[n].id \in Odometer, NEW k \in DOMAIN outbox',
               outbox'[k].id = outbox'[n].id
        PROVE  k = n
    <3>1. CASE n \in DOMAIN outbox /\ k \in DOMAIN outbox
      <4>1. outbox'[n] = outbox[n] /\ outbox'[k] = outbox[k]
        BY <1>5, <1>13, <3>1
      <4> QED BY <2>3, <3>1, <4>1 DEF IInv, ReadOnce
    <3>2. CASE n \notin DOMAIN outbox /\ k \notin DOMAIN outbox
      <4>1. PICK a \in DOMAIN ws : n = L + a /\ outbox'[n] = Mutation(ws[a])
        BY <1>16, <3>2
      <4>2. PICK b \in DOMAIN ws : k = L + b /\ outbox'[k] = Mutation(ws[b])
        BY <1>16, <3>2
      <4>3. ws[a].id = ws[b].id
        BY <2>1, <2>3, <4>1, <4>2
      <4> QED BY <1>1, <4>1, <4>2, <4>3
    <3>3. CASE n \in DOMAIN outbox /\ k \notin DOMAIN outbox
      <4>1. PICK b \in DOMAIN ws : outbox'[k] = Mutation(ws[b])
        BY <1>16, <3>3
      <4>2. outbox'[n].id \in DOMAIN local
        BY <1>5, <1>13, <1>14, <3>3
      <4> QED BY <2>1, <2>3, <4>1, <4>2
    <3>4. CASE n \notin DOMAIN outbox /\ k \in DOMAIN outbox
      <4>1. PICK b \in DOMAIN ws : outbox'[n] = Mutation(ws[b])
        BY <1>16, <3>4
      <4>2. outbox'[k].id \in DOMAIN local
        BY <1>5, <1>13, <1>14, <3>4
      <4> QED BY <2>1, <2>3, <4>1, <4>2
    <3> QED BY <3>1, <3>2, <3>3, <3>4
  <2> QED BY <2>2, <2>3 DEF ReadOnce
<1>26. Pulling'
  BY <1>2, <1>3, <1>6 DEF IInv, Pulling
<1>27. Stamped'
  <2>1. \A i \in DOMAIN local : local[i].synced # None =>
          i \in DOMAIN server /\ local[i].synced <= server[i].synced
    BY DEF IInv, Stamped
  <2>2. ASSUME NEW n \in DOMAIN ws, ws[n].row.synced # None
        PROVE  ws[n].id \in DOMAIN server /\ ws[n].row.synced <= server[ws[n].id].synced
    BY <1>11, <2>1, <2>2
  <2>3. \A i \in DOMAIN local' : local'[i].synced # None =>
          i \in DOMAIN server /\ local'[i].synced <= server[i].synced
    BY <1>15, <2>1, <2>2
  <2> QED BY <1>6, <2>3 DEF Stamped
<1>28. UpToDate'
  <2>1. \A i \in DOMAIN local' \ Queued' : i \in DOMAIN local \ Queued /\ local'[i] = local[i]
    BY <1>3, <1>19
  <2> QED BY <1>2, <1>6, <2>1 DEF IInv, UpToDate
<1>29. Numbered'
  BY <1>6 DEF IInv, Numbered
<1> QED BY <1>20, <1>21, <1>22, <1>23, <1>24, <1>25, <1>26, <1>27, <1>28, <1>29 DEF IInv

LEMMA WriteThereKeeps ==
  ASSUME IInv, NEW ws, WritesFit(There, ws), Write(There, ws)
  PROVE  IInv'
<1> DEFINE new == Ids(ws, Len(ws))
<1>1. /\ Len(ws) \in {1, 2} /\ DOMAIN ws = 1 .. Len(ws) /\ There \in Device /\ Len(ws) \in Nat
      /\ \A n, k \in DOMAIN ws : ws[n].id = ws[k].id => n = k
  BY DEF WritesFit, Device
<1>2. PushAtOnce(ws) /\ UNCHANGED <<clock, seen>> /\ edits' = [edits EXCEPT ![There] = @ + 1]
  BY DeviceAssumption DEF Write
<1>3. RowsOf(There) = Pulled /\ DOMAIN Pulled = DOMAIN server
  BY DeviceAssumption DEF RowsOf, Pulled
<1>4. \A n \in DOMAIN ws :
         /\ ws[n].id \in Id
         /\ About(ws[n].id, ws[n].row.is) /\ Amounts(ws[n].id, ws[n].row.is)
         /\ ws[n].id \in Odometer => ws[n].id \notin DOMAIN local \union DOMAIN server
  BY <1>1, FitFacts
<1>5. \A n \in DOMAIN ws : Refs(ws[n].row.is) \subseteq DOMAIN server \union Ids(ws, n - 1)
  BY <1>1, <1>3, FitFacts
<1>6. \A n \in DOMAIN ws :
         /\ Mutation(ws[n]) = [id |-> ws[n].id, payload |-> ws[n].row.is]
         /\ Mutation(ws[n]) \in Mutations(ws)
  BY <1>1, FitFacts
<1>7. /\ DOMAIN server' = DOMAIN server \union new
      /\ \A n \in DOMAIN ws : server'[ws[n].id] = [is |-> Canonical(ws[n].row.is), synced |-> seq + n]
      /\ \A i \in DOMAIN server \ new : server'[i] = server[i]
      /\ seq' = seq + Len(ws)
      /\ \A n \in DOMAIN ws : Storable(ws[n].row.is)
      /\ UNCHANGED <<local, outbox>>
  BY <1>1, <1>2, <1>4, PushEffect DEF IInv
<1>8. /\ new = {ws[n].id : n \in DOMAIN ws}
      /\ \A n \in DOMAIN ws : Ids(ws, n - 1) \subseteq new
  BY <1>1, IdsOfWrites
<1> HIDE DEF new
<1>9. \A i \in DOMAIN server' :
        \/ i \in DOMAIN server \ new /\ server'[i] = server[i]
        \/ \E n \in DOMAIN ws :
             i = ws[n].id /\ server'[i] = [is |-> Canonical(ws[n].row.is), synced |-> seq + n]
  BY <1>7, <1>8
<1>10. /\ seq \in Nat /\ seq' \in Nat /\ seq >= 1 /\ seen <= seq /\ seen \in 1 .. seq
       /\ \A i \in DOMAIN server : server[i].synced \in 1 .. seq
       /\ \A n \in DOMAIN ws : seq + n \in 1 .. seq' /\ seq + n > seq
  BY <1>1, <1>7 DEF IInv, TypeOK
<1>11. \A i \in DOMAIN server' :
         \/ i \in DOMAIN server /\ server'[i] = server[i]
         \/ \E n \in DOMAIN ws :
              i = ws[n].id /\ server'[i].is = Canonical(ws[n].row.is) /\ server'[i].synced = seq + n
  BY <1>9
<1>12. \A i \in DOMAIN server : i \in DOMAIN server' /\ server'[i].synced >= server[i].synced
  <2>1. ASSUME NEW i \in DOMAIN server PROVE server'[i].synced >= server[i].synced
    BY <1>7, <1>10, <1>11
  <2> QED BY <1>7, <2>1
<1>13. TypeOK'
  <2>1. outbox' \in Seq([id : DOMAIN local', payload : {outbox'[n].payload : n \in DOMAIN outbox'}])
    BY <1>7 DEF IInv, TypeOK
  <2>2. clock' \in 1 .. MaxClock /\ seq' \in Nat /\ seen' \in 1 .. seq'
    BY <1>2, <1>1, <1>7, <1>10 DEF IInv, TypeOK
  <2>3. edits' \in [Device -> Nat]
    <3>1. edits \in [Device -> Nat]
      BY DEF IInv, TypeOK
    <3> QED BY <1>1, <1>2, <3>1
  <2>4. DOMAIN local' \subseteq Id /\ DOMAIN server' \subseteq Id
    BY <1>4, <1>7, <1>8 DEF IInv, TypeOK
  <2>5. \A i \in DOMAIN local' : DOMAIN local'[i].is = Fields(i) /\ local'[i].synced \in 1 .. seq' \union {None}
    BY <1>1, <1>7, <1>10 DEF IInv, TypeOK
  <2>6. \A i \in DOMAIN server' : DOMAIN server'[i].is = Fields(i)
    <3>1. ASSUME NEW n \in DOMAIN ws PROVE DOMAIN Canonical(ws[n].row.is) = Fields(ws[n].id)
      BY <1>4, CanonicalKeeps DEF About
    <3> QED BY <1>11, <3>1 DEF IInv, TypeOK
  <2>7. \A i \in DOMAIN server' : server'[i].synced \in 1 .. seq'
    BY <1>1, <1>7, <1>10, <1>11
  <2> QED BY <2>1, <2>2, <2>3, <2>4, <2>5, <2>6, <2>7 DEF TypeOK, Fields
<1>14. RowsAreRows'
  <2>1. \A i \in DOMAIN server' : server'[i] = [is |-> server'[i].is, synced |-> server'[i].synced]
    <3>1. ASSUME NEW i \in DOMAIN server', NEW n \in DOMAIN ws,
                 server'[i] = [is |-> Canonical(ws[n].row.is), synced |-> seq + n]
          PROVE  server'[i] = [is |-> server'[i].is, synced |-> server'[i].synced]
      BY <3>1
    <3> QED BY <1>9, <3>1 DEF IInv, RowsAreRows
  <2> QED BY <1>7, <2>1 DEF IInv, RowsAreRows
<1>15. HeldFits' /\ OneVehicle'
  <2>1. \A m \in Held' : \E h \in Held \union Mutations(ws) :
           /\ m.id = h.id
           /\ \/ m.payload = h.payload
              \/ m.payload = Canonical(h.payload) /\ Storable(h.payload)
    <3>1. ASSUME NEW i \in DOMAIN server', NEW m, m = [id |-> i, payload |-> server'[i].is]
          PROVE  \E h \in Held \union Mutations(ws) :
                   /\ m.id = h.id
                   /\ \/ m.payload = h.payload
                      \/ m.payload = Canonical(h.payload) /\ Storable(h.payload)
      <4>1. CASE i \in DOMAIN server /\ server'[i] = server[i]
        <5>1. m \in Held
          BY <3>1, <4>1 DEF Held
        <5> QED BY <5>1
      <4>2. CASE \E n \in DOMAIN ws : i = ws[n].id /\ server'[i].is = Canonical(ws[n].row.is)
        <5>1. PICK n \in DOMAIN ws : i = ws[n].id /\ server'[i].is = Canonical(ws[n].row.is)
          BY <4>2
        <5>2. PICK h : h = Mutation(ws[n])
          OBVIOUS
        <5>3. h \in Mutations(ws) /\ h.id = ws[n].id /\ h.payload = ws[n].row.is
          BY <1>6, <5>2
        <5>4. m.id = h.id /\ m.payload = Canonical(h.payload) /\ Storable(h.payload)
          BY <1>7, <3>1, <5>1, <5>3
        <5> QED BY <5>3, <5>4
      <4> QED BY <1>11, <4>1, <4>2
    <3>2. ASSUME NEW m \in Held', ~ \E i \in DOMAIN server' : m = [id |-> i, payload |-> server'[i].is]
          PROVE  m \in Held
      BY <1>7, <3>2 DEF Held
    <3> QED BY <3>1, <3>2
  <2>2. \A m \in Mutations(ws) : m.id \in Id /\ About(m.id, m.payload) /\ Amounts(m.id, m.payload)
    <3>1. ASSUME NEW n \in DOMAIN ws, NEW m, m = Mutation(ws[n])
          PROVE  m.id \in Id /\ About(m.id, m.payload) /\ Amounts(m.id, m.payload)
      <4>1. m.id = ws[n].id /\ m.payload = ws[n].row.is
        BY <1>6, <3>1
      <4> QED BY <1>4, <4>1
    <3> QED BY <3>1 DEF Mutations
  <2>3. \A m \in Mutations(ws), h \in Held \union Mutations(ws), o \in Odometer, v, w \in Vehicle :
          Says(m, o, v) /\ Says(h, o, w) => v = w
    BY DEF WritesFit
  <2>4. HeldFits /\ OneVehicle /\ clock \in Nat /\ clock' \in Nat /\ clock <= clock'
    BY <1>2 DEF IInv, TypeOK
  <2> QED BY <2>1, <2>2, <2>3, <2>4, HeldKeeps
<1>16. Closed'
  <2>1. \A i \in DOMAIN local' : Refs(local'[i].is) \subseteq DOMAIN local'
    BY <1>7 DEF IInv, Closed
  <2>2. \A i \in DOMAIN server' : Refs(server'[i].is) \subseteq DOMAIN server'
    <3>1. ASSUME NEW n \in DOMAIN ws PROVE Refs(Canonical(ws[n].row.is)) \subseteq DOMAIN server'
      BY <1>5, <1>7, <1>8, CanonicalRefs
    <3>2. ASSUME NEW i \in DOMAIN server PROVE Refs(server[i].is) \subseteq DOMAIN server'
      BY <1>7 DEF IInv, Closed
    <3> QED BY <1>11, <3>1, <3>2
  <2>3. ASSUME NEW n \in DOMAIN outbox PROVE Refs(outbox[n].payload) \subseteq Before(n)'
    <3>1. Before(n) \subseteq Before(n)'
      BY <1>7 DEF Before
    <3> QED BY <3>1 DEF IInv, Closed
  <2> QED BY <1>7, <2>1, <2>2, <2>3 DEF Closed, Refs
<1>17. Known'
  <2>1. Queued' = Queued
    BY <1>7 DEF Queued
  <2> QED BY <1>7, <2>1 DEF IInv, Known
<1>18. ReadOnce'
  <2>1. ASSUME NEW n \in DOMAIN outbox, outbox[n].id \in Odometer PROVE outbox[n].id \notin new
    <3>1. outbox[n].id \in DOMAIN local
      BY QueueType DEF IInv
    <3> QED BY <1>4, <1>8, <2>1, <3>1
  <2> QED BY <1>7, <2>1 DEF IInv, ReadOnce
<1>19. Pulling'
  BY <1>2, <1>7, <1>10, <1>11 DEF IInv, Pulling
<1>20. Stamped'
  <2>1. ASSUME NEW i \in DOMAIN local, local[i].synced # None
        PROVE  i \in DOMAIN server' /\ local[i].synced <= server'[i].synced
    <3>1. i \in DOMAIN server /\ local[i].synced <= server[i].synced
      BY <2>1 DEF IInv, Stamped
    <3>2. local[i].synced \in Nat /\ server[i].synced \in Nat /\ server'[i].synced \in Nat
      <4>1. local[i].synced \in 1 .. seq /\ server[i].synced \in 1 .. seq
        BY <1>10, <2>1, <3>1 DEF IInv, TypeOK
      <4>2. server'[i].synced \in 1 .. seq'
        BY <1>12, <1>13, <3>1 DEF TypeOK
      <4> QED BY <1>10, <4>1, <4>2
    <3> QED BY <1>12, <3>1, <3>2
  <2> QED BY <1>7, <2>1 DEF Stamped
<1>21. UpToDate'
  <2>1. Queued' = Queued
    BY <1>7 DEF Queued
  <2>2. ASSUME NEW i \in DOMAIN local \ Queued
        PROVE  \/ server'[i].synced > seen
               \/ local[i].is = server'[i].is /\ local[i].synced = server'[i].synced
    <3>1. i \in DOMAIN server'
      BY <1>7 DEF IInv, Known
    <3> QED BY <1>10, <1>11, <3>1 DEF IInv, UpToDate
  <2> QED BY <1>2, <1>7, <2>1, <2>2 DEF UpToDate
<1>22. Numbered'
  <2>1. ASSUME NEW i \in DOMAIN server', i \notin Seeded PROVE server'[i].synced > 1
    BY <1>10, <1>11, <2>1 DEF IInv, Numbered
  <2>2. ASSUME NEW i \in DOMAIN server', NEW j \in DOMAIN server',
               server'[i].synced = server'[j].synced, server'[i].synced > 1
        PROVE  i = j
    <3>1. CASE i \in DOMAIN server /\ server'[i] = server[i] /\ j \in DOMAIN server /\ server'[j] = server[j]
      BY <2>2, <3>1 DEF IInv, Numbered
    <3>2. ASSUME NEW a \in DOMAIN server, NEW n \in DOMAIN ws PROVE server[a].synced # seq + n
      BY <1>10
    <3>3. CASE \E n \in DOMAIN ws : i = ws[n].id /\ server'[i].synced = seq + n
      BY <1>1, <1>10, <1>11, <2>2, <3>2, <3>3
    <3>4. CASE \E n \in DOMAIN ws : j = ws[n].id /\ server'[j].synced = seq + n
      BY <1>1, <1>10, <1>11, <2>2, <3>2, <3>4
    <3> QED BY <1>11, <3>1, <3>3, <3>4
  <2> QED BY <2>1, <2>2 DEF Numbered
<1> QED BY <1>13, <1>14, <1>15, <1>16, <1>17, <1>18, <1>19, <1>20, <1>21, <1>22 DEF IInv

-----------------------------------------------------------------------------
(* Sync *)

LEMMA HeadAndTail ==
  ASSUME NEW S, NEW s \in Seq(S), s # <<>>
  PROVE  /\ Len(s) \in Nat /\ Len(s) >= 1 /\ Head(s) = s[1]
         /\ Tail(s) \in Seq(S) /\ Len(Tail(s)) = Len(s) - 1 /\ DOMAIN Tail(s) = 1 .. Len(s) - 1
         /\ \A n \in 1 .. Len(s) - 1 : Tail(s)[n] = s[n + 1]
OBVIOUS

LEMMA PushKeeps ==
  ASSUME IInv, push
  PROVE  IInv'
<1> DEFINE L == Len(outbox)
<1>1. PICK m : m = Head(outbox)
  OBVIOUS
<1>2. PICK after : after = ApplyMutation([rows |-> server, seq |-> seq], m)
  OBVIOUS
<1>3. PICK newer \in BOOLEAN : newer = (\E n \in 2 .. Len(outbox) : outbox[n].id = m.id)
  OBVIOUS
<1>4. /\ outbox # <<>> /\ Accepts(server, m)
      /\ server' = after.rows /\ seq' = after.seq
      /\ outbox' = Tail(outbox)
      /\ local'  = IF newer THEN local ELSE [local EXCEPT ![m.id].synced = after.rows[m.id].synced]
      /\ UNCHANGED <<clock, seen, edits>>
  BY <1>1, <1>2, <1>3 DEF push
<1>5. /\ L \in Nat /\ L >= 1 /\ DOMAIN outbox = 1 .. L /\ m = outbox[1]
      /\ (\E S : outbox' \in Seq(S)) /\ Len(outbox') = L - 1 /\ DOMAIN outbox' = 1 .. L - 1
      /\ \A n \in 1 .. L - 1 : outbox'[n] = outbox[n + 1]
  <2>1. PICK S : outbox \in Seq(S)
    BY DEF IInv, TypeOK
  <2>2. /\ L \in Nat /\ L >= 1 /\ Head(outbox) = outbox[1]
        /\ Tail(outbox) \in Seq(S) /\ Len(Tail(outbox)) = L - 1 /\ DOMAIN Tail(outbox) = 1 .. L - 1
        /\ \A n \in 1 .. L - 1 : Tail(outbox)[n] = outbox[n + 1]
    BY <1>4, <2>1, HeadAndTail
  <2>3. DOMAIN outbox = 1 .. L
    BY QueueType DEF IInv
  <2> QED BY <1>1, <1>4, <2>2, <2>3
<1>6. /\ m.id \in DOMAIN local /\ m.id \in Queued
      /\ m = [id |-> m.id, payload |-> m.payload]
      /\ \A n \in DOMAIN outbox :
           /\ outbox[n].id \in DOMAIN local
           /\ outbox[n] = [id |-> outbox[n].id, payload |-> outbox[n].payload]
  BY <1>5, QueueType DEF IInv, Queued
<1> HIDE DEF L
<1>7. m \in Held /\ m.id \in Id /\ About(m.id, m.payload) /\ Amounts(m.id, m.payload)
  BY <1>5 DEF IInv, Held, HeldFits
<1>8. m.id \in Odometer => m.id \notin DOMAIN server
  BY <1>5 DEF IInv, ReadOnce
<1>9. /\ seq' = seq + 1
      /\ DOMAIN server' = DOMAIN server \union {m.id}
      /\ server'[m.id] = [is |-> Canonical(m.payload), synced |-> seq + 1]
      /\ \A i \in DOMAIN server \ {m.id} : server'[i] = server[i]
  <2>1. PICK at : at = [rows |-> server, seq |-> seq]
    OBVIOUS
  <2>2. at.rows = server /\ at.seq = seq /\ after = ApplyMutation(at, m)
    BY <1>2, <2>1
  <2> QED BY <1>4, <1>8, <2>2, ApplyEffect
<1>10. /\ DOMAIN local' = DOMAIN local
       /\ \A i \in DOMAIN local : local'[i].is = local[i].is /\ (i # m.id => local'[i] = local[i])
       /\ \A i \in DOMAIN local :
            local'[i] = [is |-> local'[i].is, created |-> local'[i].created, synced |-> local'[i].synced]
       /\ \/ m.id \in Queued' /\ local'[m.id].synced = local[m.id].synced
          \/ local'[m.id].synced = seq + 1
  <2>1. \A i \in DOMAIN local :
          local[i] = [is |-> local[i].is, created |-> local[i].created, synced |-> local[i].synced]
    BY DEF IInv, RowsAreRows
  <2>2. CASE newer
    <3>1. PICK n \in 2 .. L : outbox[n].id = m.id
      BY <1>3, <2>2 DEF L
    <3>2. n - 1 \in DOMAIN outbox' /\ outbox'[n - 1].id = m.id
      BY <1>5, <3>1
    <3>3. m.id \in Queued'
      BY <3>2 DEF Queued
    <3> QED BY <1>4, <2>1, <2>2, <3>3
  <2>3. CASE ~newer
    <3>1. PICK row : row = local[m.id]
      OBVIOUS
    <3>2. row = [is |-> row.is, created |-> row.created, synced |-> row.synced]
      BY <1>6, <2>1, <3>1
    <3>3. after.rows[m.id].synced = seq + 1
      BY <1>4, <1>9
    <3>4. local' = [local EXCEPT ![m.id] = [row EXCEPT !.synced = seq + 1]]
      BY <1>4, <2>3, <3>1, <3>3
    <3>5. [row EXCEPT !.synced = seq + 1] = [is |-> row.is, created |-> row.created, synced |-> seq + 1]
      BY <3>2
    <3>6. PICK new : new = [is |-> row.is, created |-> row.created, synced |-> seq + 1]
      OBVIOUS
    <3>7. DOMAIN local' = DOMAIN local /\ local'[m.id] = new /\ \A i \in DOMAIN local : i # m.id => local'[i] = local[i]
      BY <1>6, <3>4, <3>5, <3>6
    <3>8. new.is = local[m.id].is /\ new = [is |-> new.is, created |-> new.created, synced |-> new.synced]
      BY <3>1, <3>6
    <3>9. new.synced = seq + 1
      BY <3>6
    <3> QED BY <2>1, <3>7, <3>8, <3>9
  <2> QED BY <1>3, <2>2, <2>3
<1>11. /\ seq \in Nat /\ seq >= 1 /\ seen <= seq /\ seen \in 1 .. seq
       /\ \A i \in DOMAIN server : server[i].synced \in 1 .. seq
       /\ \A i \in DOMAIN local : local[i].synced \in 1 .. seq \union {None}
  BY DEF IInv, TypeOK
<1>12. \A i \in DOMAIN server' :
         \/ i \in DOMAIN server /\ i # m.id /\ server'[i] = server[i]
         \/ i = m.id /\ server'[i].is = Canonical(m.payload) /\ server'[i].synced = seq + 1
  BY <1>9
<1>13. /\ Queued' \subseteq Queued /\ Queued \subseteq Queued' \union {m.id}
       /\ \A n \in DOMAIN outbox' : n + 1 \in DOMAIN outbox /\ outbox'[n] = outbox[n + 1]
  <2>1. \A n \in DOMAIN outbox' : n + 1 \in DOMAIN outbox /\ outbox'[n] = outbox[n + 1]
    BY <1>5
  <2>2. \A n \in DOMAIN outbox : n = 1 \/ (n - 1 \in DOMAIN outbox' /\ outbox'[n - 1] = outbox[n])
    BY <1>5
  <2> QED BY <1>5, <2>1, <2>2 DEF Queued
<1>14. TypeOK'
  <2>1. outbox' \in Seq([id : DOMAIN local', payload : {outbox'[n].payload : n \in DOMAIN outbox'}])
    <3>1. PICK S : outbox' \in Seq(S)
      BY <1>5
    <3>2. PICK P : P = {outbox'[n].payload : n \in DOMAIN outbox'}
      OBVIOUS
    <3>3. \A n \in DOMAIN outbox' : outbox'[n].payload \in P
      BY <3>2
    <3>4. \A n \in DOMAIN outbox' :
            /\ outbox'[n].id \in DOMAIN local'
            /\ outbox'[n] = [id |-> outbox'[n].id, payload |-> outbox'[n].payload]
      BY <1>6, <1>10, <1>13
    <3>5. outbox' \in Seq([id : DOMAIN local', payload : P])
      BY <3>1, <3>3, <3>4, OutboxIn
    <3> QED BY <3>2, <3>5
  <2>2. clock' \in 1 .. MaxClock /\ seq' \in Nat /\ seen' \in 1 .. seq' /\ edits' \in [Device -> Nat]
    BY <1>4, <1>9 DEF IInv, TypeOK
  <2>3. DOMAIN local' \subseteq Id /\ DOMAIN server' \subseteq Id
    BY <1>7, <1>9, <1>10 DEF IInv, TypeOK
  <2>4. \A i \in DOMAIN local' : DOMAIN local'[i].is = Fields(i)
    BY <1>10 DEF IInv, TypeOK
  <2>5. \A i \in DOMAIN local' : local'[i].synced \in 1 .. seq' \union {None}
    <3>1. ASSUME NEW i \in DOMAIN local PROVE local'[i].synced \in 1 .. seq' \union {None}
      <4>1. local'[i].synced = local[i].synced \/ local'[i].synced = seq + 1
        BY <1>10
      <4> QED BY <1>9, <1>11, <4>1
    <3> QED BY <1>10, <3>1
  <2>6. \A i \in DOMAIN server' : DOMAIN server'[i].is = Fields(i)
    BY <1>7, <1>12, CanonicalKeeps DEF IInv, TypeOK, About
  <2>7. \A i \in DOMAIN server' : server'[i].synced \in 1 .. seq'
    BY <1>9, <1>11, <1>12
  <2> QED BY <2>1, <2>2, <2>3, <2>4, <2>5, <2>6, <2>7 DEF TypeOK, Fields
<1>15. RowsAreRows'
  <2>1. \A i \in DOMAIN server' : server'[i] = [is |-> server'[i].is, synced |-> server'[i].synced]
    <3>1. ASSUME NEW row, row = [is |-> Canonical(m.payload), synced |-> seq + 1]
          PROVE  row = [is |-> row.is, synced |-> row.synced]
      BY <3>1
    <3>2. \A i \in DOMAIN server' : i = m.id \/ (i \in DOMAIN server /\ server'[i] = server[i])
      BY <1>9
    <3> QED BY <1>9, <3>1, <3>2 DEF IInv, RowsAreRows
  <2> QED BY <1>10, <2>1 DEF RowsAreRows
<1>16. HeldFits' /\ OneVehicle'
  <2>1. \A h \in Held' : \/ h \in Held
                         \/ h.id = m.id /\ h.payload = Canonical(m.payload)
    <3>1. ASSUME NEW i \in DOMAIN server', NEW h, h = [id |-> i, payload |-> server'[i].is]
          PROVE  h \in Held \/ (h.id = m.id /\ h.payload = Canonical(m.payload))
      BY <1>12, <3>1 DEF Held
    <3>2. ASSUME NEW i \in DOMAIN local' PROVE [id |-> i, payload |-> local'[i].is] \in Held
      BY <1>10 DEF Held
    <3>3. ASSUME NEW n \in DOMAIN outbox' PROVE outbox'[n] \in Held
      BY <1>13 DEF Held
    <3> QED BY <3>1, <3>2, <3>3 DEF Held
  <2>2. \A h \in Held' : \E g \in Held :
           /\ h.id = g.id
           /\ \/ h.payload = g.payload
              \/ h.payload = Canonical(g.payload) /\ Storable(g.payload)
    BY <1>4, <1>7, <2>1 DEF Accepts
  <2>3. HeldFits /\ OneVehicle /\ clock \in Nat /\ clock' \in Nat /\ clock <= clock'
    BY <1>4 DEF IInv, TypeOK
  <2> QED BY <2>2, <2>3, HeldStays
<1>17. Closed'
  <2>1. \A i \in DOMAIN local' : Refs(local'[i].is) \subseteq DOMAIN local'
    BY <1>10 DEF IInv, Closed
  <2>2. \A i \in DOMAIN server' : Refs(server'[i].is) \subseteq DOMAIN server'
    <3>1. Refs(m.payload) \subseteq DOMAIN server
      <4>1. Refs(m.payload) \subseteq Before(1)
        BY <1>5 DEF IInv, Closed
      <4> QED BY <4>1 DEF Before
    <3> QED BY <1>9, <1>12, <3>1, CanonicalRefs DEF IInv, Closed
  <2>3. ASSUME NEW n \in DOMAIN outbox' PROVE Refs(outbox'[n].payload) \subseteq Before(n)'
    <3>1. Before(n + 1) \subseteq Before(n)'
      <4>1. \A k \in 1 .. (n + 1) - 1 : outbox[k].id = m.id \/ (k - 1 \in 1 .. n - 1 /\ outbox'[k - 1] = outbox[k])
        BY <1>5, <2>3
      <4> QED BY <1>9, <4>1 DEF Before
    <3>2. Refs(outbox[n + 1].payload) \subseteq Before(n + 1)
      BY <1>13 DEF IInv, Closed
    <3> QED BY <1>13, <3>1, <3>2
  <2> QED BY <2>1, <2>2, <2>3 DEF Closed, Refs
<1>18. Known'
  BY <1>9, <1>10, <1>13 DEF IInv, Known
<1>19. ReadOnce'
  <2>1. ASSUME NEW n \in DOMAIN outbox', outbox'[n].id \in Odometer, NEW k \in DOMAIN outbox',
               outbox'[k].id = outbox'[n].id
        PROVE  k = n
    <3>1. k + 1 = n + 1
      BY <1>13, <2>1 DEF IInv, ReadOnce
    <3> QED BY <1>5, <3>1
  <2>2. ASSUME NEW n \in DOMAIN outbox', outbox'[n].id \in Odometer
        PROVE  outbox'[n].id \notin DOMAIN server'
    <3>1. outbox[n + 1].id \notin DOMAIN server
      BY <1>13, <2>2 DEF IInv, ReadOnce
    <3>2. outbox[n + 1].id # m.id
      <4>1. n + 1 # 1 /\ 1 \in DOMAIN outbox
        BY <1>5, <2>2
      <4> QED BY <1>5, <1>13, <2>2, <4>1 DEF IInv, ReadOnce
    <3> QED BY <1>9, <1>13, <3>1, <3>2
  <2> QED BY <2>1, <2>2 DEF ReadOnce
<1>20. Pulling'
  BY <1>4, <1>10, <1>11, <1>12 DEF IInv, Pulling
<1>21. Stamped'
  <2>1. ASSUME NEW i \in DOMAIN local, local'[i].synced # None
        PROVE  i \in DOMAIN server' /\ local'[i].synced <= server'[i].synced
    <3>1. CASE i # m.id
      <4>1. local'[i].synced = local[i].synced
        BY <1>10, <3>1
      <4>2. i \in DOMAIN server /\ local[i].synced <= server[i].synced
        BY <2>1, <4>1 DEF IInv, Stamped
      <4> QED BY <1>9, <3>1, <4>1, <4>2
    <3>2. CASE i = m.id
      <4>1. local'[i].synced \in 1 .. seq \/ local'[i].synced = seq + 1
        BY <1>10, <1>11, <2>1, <3>2
      <4>2. i \in DOMAIN server' /\ server'[i].synced = seq + 1
        BY <1>9, <3>2
      <4> QED BY <1>11, <4>1, <4>2
    <3> QED BY <3>1, <3>2
  <2> QED BY <1>10, <2>1 DEF Stamped
<1>22. UpToDate'
  <2>1. ASSUME NEW i \in DOMAIN local', i \notin Queued'
        PROVE  \/ server'[i].synced > seen
               \/ local'[i].is = server'[i].is /\ local'[i].synced = server'[i].synced
    <3>1. CASE i = m.id
      <4>1. server'[i].synced = seq + 1
        BY <1>9, <3>1
      <4> QED BY <1>11, <4>1
    <3>2. CASE i # m.id
      <4>1. i \in DOMAIN local \ Queued /\ local'[i] = local[i]
        BY <1>10, <1>13, <2>1, <3>2
      <4>2. i \in DOMAIN server /\ server'[i] = server[i]
        BY <1>9, <3>2, <4>1 DEF IInv, Known
      <4> QED BY <4>1, <4>2 DEF IInv, UpToDate
    <3> QED BY <3>1, <3>2
  <2> QED BY <1>4, <2>1 DEF UpToDate
<1>23. Numbered'
  <2>1. ASSUME NEW i \in DOMAIN server', i \notin Seeded PROVE server'[i].synced > 1
    BY <1>11, <1>12, <2>1 DEF IInv, Numbered
  <2>2. ASSUME NEW i \in DOMAIN server', NEW j \in DOMAIN server',
               server'[i].synced = server'[j].synced, server'[i].synced > 1
        PROVE  i = j
    <3>1. \A a \in DOMAIN server : server[a].synced # seq + 1
      BY <1>11
    <3> QED BY <1>12, <2>2, <3>1 DEF IInv, Numbered
  <2> QED BY <2>1, <2>2 DEF Numbered
<1> QED BY <1>14, <1>15, <1>16, <1>17, <1>18, <1>19, <1>20, <1>21, <1>22, <1>23 DEF IInv

LEMMA PullKeeps ==
  ASSUME IInv, pull
  PROVE  IInv'
<1>1. PICK changed : changed = {i \in DOMAIN server : server[i].synced > seen}
  OBVIOUS
<1>2. /\ outbox = <<>> /\ seen < seq /\ seen' = seq
      /\ local' = [i \in DOMAIN local \union changed |->
                    IF i \in changed THEN applyEntityChange(local, i, server[i]) ELSE local[i]]
      /\ UNCHANGED <<clock, outbox, server, seq, edits>>
  BY <1>1 DEF pull
<1>3. /\ seq \in Nat /\ seen \in 1 .. seq
      /\ \A i \in DOMAIN server : server[i].synced \in 1 .. seq
      /\ \A i \in DOMAIN local : local[i].synced \in 1 .. seq \union {None}
  BY DEF IInv, TypeOK
<1>4. Queued = {} /\ Queued' = {} /\ DOMAIN outbox = {} /\ DOMAIN outbox' = {}
  BY <1>2 DEF Queued
<1>5. DOMAIN local \subseteq DOMAIN server
  BY <1>4 DEF IInv, Known
<1>6. DOMAIN local' = DOMAIN server
  <2>1. \A i \in DOMAIN server : i \in DOMAIN local \/ i \in changed
    BY <1>1, <1>3 DEF IInv, Pulling
  <2> QED BY <1>1, <1>2, <1>5, <2>1
<1>7. ASSUME NEW i \in DOMAIN server
      PROVE  /\ local'[i].is = server[i].is /\ local'[i].synced = server[i].synced
             /\ local'[i] = [is |-> local'[i].is, created |-> local'[i].created, synced |-> local'[i].synced]
  <2>1. CASE i \notin changed
    <3>1. i \in DOMAIN local /\ server[i].synced <= seen /\ ~(server[i].synced > seen)
      BY <1>1, <1>3, <2>1 DEF IInv, Pulling
    <3>2. local'[i] = local[i]
      BY <1>2, <2>1, <3>1
    <3> QED BY <1>4, <3>1, <3>2 DEF IInv, UpToDate, RowsAreRows
  <2>2. CASE i \in changed /\ i \notin DOMAIN local
    <3>1. local'[i] = [is |-> server[i].is, created |-> server[i].synced, synced |-> server[i].synced]
      BY <1>2, <2>2 DEF applyEntityChange
    <3> QED BY <3>1
  <2>3. CASE i \in changed /\ i \in DOMAIN local
    <3>1. PICK row : row = local[i]
      OBVIOUS
    <3>2. row = [is |-> row.is, created |-> row.created, synced |-> row.synced]
      BY <2>3, <3>1 DEF IInv, RowsAreRows
    <3>3. ~(row.synced # None /\ row.synced > server[i].synced)
      BY <1>3, <2>3, <3>1 DEF IInv, Stamped
    <3>4. local'[i] = [row EXCEPT !.is = server[i].is, !.synced = server[i].synced]
      BY <1>2, <2>3, <3>1, <3>3 DEF applyEntityChange
    <3>5. local'[i] = [is |-> server[i].is, created |-> row.created, synced |-> server[i].synced]
      BY <3>2, <3>4
    <3> QED BY <3>5
  <2> QED BY <2>1, <2>2, <2>3
<1>8. TypeOK'
  <2>1. outbox' \in Seq([id : DOMAIN local', payload : {outbox'[n].payload : n \in DOMAIN outbox'}])
    BY <1>2
  <2>2. clock' \in 1 .. MaxClock /\ seq' \in Nat /\ seen' \in 1 .. seq' /\ edits' \in [Device -> Nat]
    BY <1>2, <1>3 DEF IInv, TypeOK
  <2>3. DOMAIN local' \subseteq Id /\ DOMAIN server' \subseteq Id
    BY <1>2, <1>6 DEF IInv, TypeOK
  <2>4. \A i \in DOMAIN server' : DOMAIN server'[i].is = Fields(i) /\ server'[i].synced \in 1 .. seq'
    BY <1>2 DEF IInv, TypeOK
  <2>5. \A i \in DOMAIN local' : DOMAIN local'[i].is = Fields(i) /\ local'[i].synced \in 1 .. seq' \union {None}
    BY <1>2, <1>6, <1>7, <2>4
  <2> QED BY <2>1, <2>2, <2>3, <2>4, <2>5 DEF TypeOK, Fields
<1>9. RowsAreRows'
  BY <1>2, <1>6, <1>7 DEF IInv, RowsAreRows
<1>10. HeldFits' /\ OneVehicle'
  <2>1. Held' \subseteq Held
    <3>1. \A i \in DOMAIN local' : [id |-> i, payload |-> local'[i].is] = [id |-> i, payload |-> server[i].is]
      BY <1>6, <1>7
    <3> QED BY <1>2, <1>6, <3>1 DEF Held
  <2>2. \A h \in Held' : \E g \in Held : h.id = g.id /\ h.payload = g.payload
    BY <2>1
  <2>3. HeldFits /\ OneVehicle /\ clock \in Nat /\ clock' \in Nat /\ clock <= clock'
    BY <1>2 DEF IInv, TypeOK
  <2> QED BY <2>2, <2>3, HeldStays
<1>11. Closed'
  <2>1. \A i \in DOMAIN local' : Refs(local'[i].is) \subseteq DOMAIN local'
    BY <1>6, <1>7 DEF IInv, Closed
  <2>2. \A i \in DOMAIN server' : Refs(server'[i].is) \subseteq DOMAIN server'
    BY <1>2 DEF IInv, Closed
  <2> QED BY <1>4, <2>1, <2>2 DEF Closed, Refs
<1>12. Known' /\ ReadOnce'
  BY <1>2, <1>4, <1>6 DEF Known, ReadOnce
<1>13. Pulling' /\ Stamped' /\ UpToDate'
  <2>1. \A i \in DOMAIN server : server[i].synced <= server[i].synced
    BY <1>3
  <2> QED BY <1>2, <1>6, <1>7, <2>1 DEF Pulling, Stamped, UpToDate
<1>14. Numbered'
  BY <1>2 DEF IInv, Numbered
<1> QED BY <1>8, <1>9, <1>10, <1>11, <1>12, <1>13, <1>14 DEF IInv

LEMMA TimeKeeps ==
  ASSUME IInv, TimePasses
  PROVE  IInv'
<1>1. /\ clock \in 1 .. MaxClock /\ clock < MaxClock /\ clock' = clock + 1
      /\ UNCHANGED <<local, outbox, seen, server, seq, edits>>
  BY DEF TimePasses, IInv, TypeOK
<1>2. TypeOK'
  <2>1. clock' \in 1 .. MaxClock
    BY <1>1, BoundAssumption
  <2> QED BY <1>1, <2>1 DEF IInv, TypeOK, Fields
<1>3. HeldFits' /\ OneVehicle'
  <2>1. Held' = Held
    BY <1>1 DEF Held
  <2>2. \A h \in Held' : \E g \in Held : h.id = g.id /\ h.payload = g.payload
    BY <2>1
  <2>3. HeldFits /\ OneVehicle /\ clock \in Nat /\ clock' \in Nat /\ clock <= clock'
    BY <1>1 DEF IInv
  <2> QED BY <2>2, <2>3, HeldStays
<1>4. Queued' = Queued /\ \A n : Before(n)' = Before(n)
  BY <1>1 DEF Queued, Before
<1>5. Closed'
  BY <1>1, <1>4 DEF IInv, Closed, Refs
<1>6. RowsAreRows' /\ Known' /\ ReadOnce' /\ Pulling' /\ Stamped' /\ UpToDate' /\ Numbered'
  BY <1>1, <1>4 DEF IInv, RowsAreRows, Known, ReadOnce, Pulling, Stamped, UpToDate, Numbered
<1> QED BY <1>2, <1>3, <1>5, <1>6 DEF IInv

-----------------------------------------------------------------------------
(* Repository calls *)

LEMMA WriteKeeps ==
  ASSUME IInv, NEW d \in Device, NEW ws, WritesFit(d, ws), Write(d, ws)
  PROVE  IInv'
BY WriteHereKeeps, WriteThereKeeps DEF Device

LEMMA NewRow ==
  ASSUME NEW x
  PROVE  IsRow(New(x)) /\ New(x).is = x /\ New(x).synced = None
BY DEF New, IsRow

LEMMA PatchedRow ==
  ASSUME NEW row, IsRow(row), NEW x
  PROVE  IsRow(Patched(row, x)) /\ Patched(row, x).is = x /\ Patched(row, x).synced = row.synced
<1>1. Patched(row, x) = [is |-> x, created |-> row.created, synced |-> row.synced]
  BY DEF Patched, IsRow
<1> QED BY <1>1 DEF IsRow

LEMMA FreshId ==
  ASSUME NEW S, NEW i \in Fresh(S)
  PROVE  i \in S /\ i \notin DOMAIN local \union DOMAIN server
BY DEF Fresh

\* A call of one row
LEMMA OneWrite ==
  ASSUME IInv, NEW d \in Device, NEW i \in Id, NEW row,
         IsRow(row), About(i, row.is), Amounts(i, row.is),
         Refs(row.is) \subseteq DOMAIN RowsOf(d),
         i \in Odometer => i \notin DOMAIN local \union DOMAIN server,
         i \in Fuel => \/ row.is.odometerLog = None
                       \/ /\ i \in DOMAIN RowsOf(d)
                          /\ RowsOf(d)[i].is.odometerLog = row.is.odometerLog
                          /\ RowsOf(d)[i].is.vehicle = row.is.vehicle,
         row.synced # None => i \in DOMAIN RowsOf(d) /\ row.synced = RowsOf(d)[i].synced,
         Write(d, <<Put(i, row)>>)
  PROVE  IInv'
<1>1. PICK w : w = Put(i, row)
  OBVIOUS
<1>2. w.id = i /\ w.row = row
  BY <1>1 DEF Put
<1>3. PICK ws : ws = <<w>>
  OBVIOUS
<1>4. Len(ws) = 1 /\ DOMAIN ws = {1} /\ 1 .. Len(ws) = {1} /\ ws[1] = w
  BY <1>3
<1>5. PICK m : m = Mutation(w)
  OBVIOUS
<1>6. m.id = i /\ m.payload = row.is
  BY <1>2, <1>5 DEF Mutation
<1>7. Mutations(ws) = {m}
  BY <1>4, <1>5 DEF Mutations
<1>8. ASSUME NEW o \in Odometer, NEW v \in Vehicle, NEW u \in Vehicle, NEW h \in Held,
             Says(m, o, v), Says(h, o, u)
      PROVE  v = u
  <2>1. CASE i \in Odometer
    <3>1. o = i
      BY <1>6, <1>8, <2>1, FieldsOfId DEF Says
    <3> QED BY <1>8, <2>1, <3>1, Unsaid
  <2>2. CASE i \in Fuel
    <3>1. row.is.odometerLog = o /\ row.is.vehicle = v
      BY <1>6, <1>8, <2>2, FieldsOfId DEF Says
    <3>2. /\ i \in DOMAIN RowsOf(d)
          /\ RowsOf(d)[i].is.odometerLog = o /\ RowsOf(d)[i].is.vehicle = v
      BY <2>2, <3>1, NoneIsNoId DEF Id
    <3>3. PICK g : g = [id |-> i, payload |-> RowsOf(d)[i].is]
      OBVIOUS
    <3>4. g \in Held /\ Says(g, o, v)
      BY <2>2, <3>2, <3>3, RowsOfDevice DEF Says
    <3> QED BY <1>8, <3>4 DEF IInv, OneVehicle
  <2>3. CASE i \notin Odometer \union Fuel
    BY <1>6, <1>8, <2>3 DEF Says
  <2> QED BY <2>1, <2>2, <2>3
<1>9. ASSUME NEW o, NEW v, NEW u, Says(m, o, v), Says(m, o, u)
      PROVE  v = u
  BY <1>9 DEF Says
<1>10. WriteFits(d, Ids(ws, 0), w)
  BY <1>2 DEF WriteFits
<1>11. WritesFit(d, ws)
  <2>1. Len(ws) \in {1, 2} /\ DOMAIN ws = 1 .. Len(ws)
    BY <1>4
  <2>2. \A n \in DOMAIN ws : WriteFits(d, Ids(ws, n - 1), ws[n])
    BY <1>4, <1>10
  <2>3. \A n, k \in DOMAIN ws : ws[n].id = ws[k].id => n = k
    BY <1>4
  <2>4. \A g \in Mutations(ws), h \in Held \union Mutations(ws), o \in Odometer, v, u \in Vehicle :
          Says(g, o, v) /\ Says(h, o, u) => v = u
    BY <1>7, <1>8, <1>9
  <2> QED BY <2>1, <2>2, <2>3, <2>4 DEF WritesFit
<1>12. Write(d, ws)
  BY <1>1, <1>3
<1> QED BY <1>11, <1>12, WriteKeeps

\* A call that changes a row and leaves what the row refers to
LEMMA PatchKeeps ==
  ASSUME IInv, NEW d \in Device, NEW i \in DOMAIN RowsOf(d), i \notin Odometer,
         NEW x, DOMAIN x = DOMAIN RowsOf(d)[i].is,
         \A k \in {"vehicle", "partType", "odometerLog"} \intersect DOMAIN x : x[k] = RowsOf(d)[i].is[k],
         "at" \in DOMAIN x => x["at"] \in 1 .. clock,
         Amounts(i, x),
         Write(d, <<Put(i, Patched(RowsOf(d)[i], x))>>)
  PROVE  IInv'
<1>1. PICK old : old = RowsOf(d)[i]
  OBVIOUS
<1>2. /\ i \in Id /\ IsRow(old) /\ About(i, old.is)
      /\ Refs(old.is) \subseteq DOMAIN RowsOf(d)
  BY <1>1, RowsOfDevice
<1>3. PICK row : row = Patched(old, x)
  OBVIOUS
<1>4. IsRow(row) /\ row.is = x /\ row.synced = old.synced
  BY <1>2, <1>3, PatchedRow
<1>5. DOMAIN x = Fields(i) /\ DOMAIN old.is = Fields(i)
  BY <1>1, <1>2 DEF About
<1>6. About(i, x)
  <2>1. i \in Reminder => x.vehicle = old.is.vehicle /\ x.partType = old.is.partType
    BY <1>1, <1>2, <1>5, FieldsOfId
  <2>2. i \in Fuel \union Service => x.vehicle = old.is.vehicle /\ x.at \in 1 .. clock
    BY <1>1, <1>2, <1>5, FieldsOfId
  <2>3. i \in Service => x.partType = old.is.partType
    BY <1>1, <1>2, <1>5, FieldsOfId
  <2>4. i \in Fuel => x.odometerLog = old.is.odometerLog
    BY <1>1, <1>2, <1>5, FieldsOfId
  <2> QED BY <1>2, <1>5, <2>1, <2>2, <2>3, <2>4 DEF About
<1>7. Refs(x) \subseteq DOMAIN RowsOf(d)
  <2>1. Refs(x) = Refs(old.is)
    BY <1>1, <1>5 DEF Refs
  <2> QED BY <1>2, <2>1
<1>8. i \in Fuel => old.is.odometerLog = x.odometerLog /\ old.is.vehicle = x.vehicle
  BY <1>1, <1>2, <1>5, FieldsOfId
<1>9. Write(d, <<Put(i, row)>>)
  BY <1>1, <1>3
<1> QED BY <1>1, <1>2, <1>4, <1>6, <1>7, <1>8, <1>9, OneWrite

-----------------------------------------------------------------------------

LEMMA CreateVehicleKeeps ==
  ASSUME IInv, NEW d \in Device, createVehicle(d)
  PROVE  IInv'
<1>1. PICK v \in Fresh(Vehicle) : Write(d, <<Put(v, New(VehicleFields(FALSE, FALSE, None)))>>)
  BY DEF createVehicle
<1>2. PICK x : x = VehicleFields(FALSE, FALSE, None)
  OBVIOUS
<1>3. v \in Vehicle /\ v \in Id
  BY FreshId DEF Id
<1>4. DOMAIN x = {"archived", "deleted", "dueSoonRatio"} /\ x.dueSoonRatio = None
  BY <1>2 DEF VehicleFields
<1>5. About(v, x) /\ Amounts(v, x)
  BY <1>3, <1>4, FieldsOfId DEF About, Amounts
<1>6. Refs(x) = {}
  BY <1>4 DEF Refs
<1> QED BY <1>1, <1>2, <1>3, <1>5, <1>6, FieldsOfId, NewRow, OneWrite

LEMMA VehicleFieldsOf ==
  ASSUME IInv, NEW d \in Device, NEW v \in Table(d, Vehicle), NEW x, x = RowsOf(d)[v].is
  PROVE  DOMAIN x = {"archived", "deleted", "dueSoonRatio"} /\ x.dueSoonRatio \in (1 .. 100) \union {None}
<1>1. v \in DOMAIN RowsOf(d) /\ v \in Vehicle /\ v \in Id
  BY DEF Table, Id
<1>2. About(v, x) /\ Amounts(v, x)
  BY <1>1, RowsOfDevice
<1> QED BY <1>1, <1>2, FieldsOfId DEF About, Amounts

LEMMA VehiclePatchKeeps ==
  ASSUME IInv, NEW d \in Device, NEW v \in Table(d, Vehicle), NEW x,
         DOMAIN x = DOMAIN RowsOf(d)[v].is, x.dueSoonRatio \in (1 .. 100) \union {None},
         PatchVehicle(d, v, x)
  PROVE  IInv'
<1>1. v \in DOMAIN RowsOf(d) /\ v \in Vehicle /\ v \in Id
  BY DEF Table, Id
<1>2. DOMAIN x = {"archived", "deleted", "dueSoonRatio"}
  BY VehicleFieldsOf
<1>3. Amounts(v, x)
  BY <1>1, FieldsOfId DEF Amounts
<1>4. v \notin Odometer
  BY <1>1, FieldsOfId
<1>5. Write(d, <<Put(v, Patched(RowsOf(d)[v], x))>>)
  BY DEF PatchVehicle
<1> QED BY <1>1, <1>2, <1>3, <1>4, <1>5, PatchKeeps

LEMMA UpdateVehicleKeeps ==
  ASSUME IInv, NEW d \in Device,
         updateVehicle(d) \/ archiveVehicle(d) \/ restoreVehicle(d) \/ deleteVehicle(d)
  PROVE  IInv'
<1>1. PICK v, x, old :
        /\ v \in Table(d, Vehicle)
        /\ old = RowsOf(d)[v].is /\ PatchVehicle(d, v, x)
        /\ \/ x = old
           \/ x = [old EXCEPT !.archived = TRUE]
           \/ x = [old EXCEPT !.archived = FALSE]
           \/ x = [old EXCEPT !.deleted = TRUE]
  <2>1. CASE updateVehicle(d)
    BY <2>1 DEF updateVehicle
  <2>2. CASE archiveVehicle(d)
    BY <2>2 DEF archiveVehicle
  <2>3. CASE restoreVehicle(d)
    BY <2>3 DEF restoreVehicle
  <2>4. CASE deleteVehicle(d)
    BY <2>4 DEF deleteVehicle
  <2> QED BY <2>1, <2>2, <2>3, <2>4
<1>2. DOMAIN old = {"archived", "deleted", "dueSoonRatio"} /\ old.dueSoonRatio \in (1 .. 100) \union {None}
  BY <1>1, VehicleFieldsOf
<1>3. DOMAIN x = DOMAIN old /\ x.dueSoonRatio = old.dueSoonRatio
  BY <1>1, <1>2
<1> QED BY <1>1, <1>2, <1>3, VehiclePatchKeeps

LEMMA UpdateVehicleDetailsKeeps ==
  ASSUME IInv, NEW d \in Device, updateVehicleDetails(d)
  PROVE  IInv'
<1>1. PICK v \in Table(d, Vehicle), ratio \in RatioInput :
        /\ Optional(LAMBDA y : y \in 1 .. 100, ratio)
        /\ PatchVehicle(d, v, [RowsOf(d)[v].is EXCEPT !.dueSoonRatio = ratio])
  BY DEF updateVehicleDetails
<1>2. PICK old, x : old = RowsOf(d)[v].is /\ x = [old EXCEPT !.dueSoonRatio = ratio]
  OBVIOUS
<1>3. ratio \in (1 .. 100) \union {None}
  BY <1>1 DEF Optional
<1>4. DOMAIN x = DOMAIN old /\ x.dueSoonRatio = ratio
  BY <1>2, VehicleFieldsOf
<1> QED BY <1>1, <1>2, <1>3, <1>4, VehiclePatchKeeps

LEMMA CreatePartTypeKeeps ==
  ASSUME IInv, NEW d \in Device, createPartType(d)
  PROVE  IInv'
<1>1. PICK p \in Fresh(PartType) : Write(d, <<Put(p, New([active |-> TRUE]))>>)
  BY DEF createPartType
<1>2. PICK x : x = [active |-> TRUE]
  OBVIOUS
<1>3. p \in PartType /\ p \in Id
  BY FreshId DEF Id
<1>4. DOMAIN x = {"active"}
  BY <1>2
<1>5. About(p, x) /\ Amounts(p, x)
  BY <1>3, <1>4, FieldsOfId DEF About, Amounts
<1>6. Refs(x) = {}
  BY <1>4 DEF Refs
<1> QED BY <1>1, <1>2, <1>3, <1>5, <1>6, FieldsOfId, NewRow, OneWrite

LEMMA UpdatePartTypeNameKeeps ==
  ASSUME IInv, NEW d \in Device, updatePartTypeName(d)
  PROVE  IInv'
<1>1. PICK p \in Table(d, PartType) : Write(d, <<Put(p, RowsOf(d)[p])>>)
  BY DEF updatePartTypeName
<1>2. p \in DOMAIN RowsOf(d) /\ p \in PartType /\ p \in Id
  BY DEF Table, Id
<1>3. PICK row : row = RowsOf(d)[p]
  OBVIOUS
<1>4. IsRow(row) /\ About(p, row.is) /\ Amounts(p, row.is) /\ Refs(row.is) \subseteq DOMAIN RowsOf(d)
  BY <1>2, <1>3, RowsOfDevice
<1> QED BY <1>1, <1>2, <1>3, <1>4, FieldsOfId, OneWrite

LEMMA SetPartTypeActiveKeeps ==
  ASSUME IInv, NEW d \in Device, setPartTypeActive(d)
  PROVE  IInv'
<1>1. PICK p \in Table(d, PartType), active \in BOOLEAN :
        Write(d, <<Put(p, Patched(RowsOf(d)[p], [active |-> active]))>>)
  BY DEF setPartTypeActive
<1>2. p \in DOMAIN RowsOf(d) /\ p \in PartType /\ p \in Id /\ p \notin Odometer
  BY FieldsOfId DEF Table, Id
<1>3. PICK x : x = [active |-> active]
  OBVIOUS
<1>4. DOMAIN x = {"active"}
  BY <1>3
<1>5. DOMAIN RowsOf(d)[p].is = {"active"} /\ Amounts(p, x)
  BY <1>2, RowsOfDevice, FieldsOfId DEF About, Amounts
<1>6. {"vehicle", "partType", "odometerLog"} \intersect DOMAIN x = {} /\ "at" \notin DOMAIN x
  BY <1>4
<1> QED BY <1>1, <1>2, <1>3, <1>4, <1>5, <1>6, PatchKeeps

-----------------------------------------------------------------------------

\* The fields of a reminder, and what they say
LEMMA ReminderFits ==
  ASSUME NEW v \in Vehicle, NEW p \in PartType, NEW r, r \in generateDeterministicId(v, p), NEW x,
         DOMAIN x = {"vehicle", "partType", "everyKm", "everyDays", "baselineKm", "baselineDate",
                     "enabled", "deleted"},
         x.vehicle = v, x.partType = p, x.everyKm \in Counted, x.everyDays \in Counted,
         x.everyKm # None \/ x.everyDays # None
  PROVE  /\ r \in Reminder /\ r \in Id /\ About(r, x) /\ Amounts(r, x)
         /\ Refs(x) \subseteq {v, p} /\ r \notin Odometer \union Fuel
<1>1. r = [vehicle |-> v, partType |-> p, twin |-> FALSE]
  BY DEF generateDeterministicId
<1>2. r \in Reminder /\ r.vehicle = v /\ r.partType = p /\ ~r.twin
  BY <1>1 DEF Reminder
<1>3. r \in Id
  BY <1>2 DEF Id
<1>4. Refs(x) \subseteq {v, p}
  BY DEF Refs
<1>5. About(r, x) /\ Amounts(r, x)
  BY <1>2, <1>3, FieldsOfId DEF About, Amounts
<1> QED BY <1>2, <1>3, <1>4, <1>5, FieldsOfId

\* What the rule of intervals lets through
LEMMA IntervalsFit ==
  ASSUME NEW everyKm, NEW everyDays, validateReminderInterval(everyKm, everyDays)
  PROVE  everyKm \in Counted /\ everyDays \in Counted /\ (everyKm # None \/ everyDays # None)
BY AmountAssumption DEF validateReminderInterval, Optional, isValidOdometerKm, Counted

LEMMA CreateReminderConfigKeeps ==
  ASSUME IInv, NEW d \in Device, createReminderConfig(d)
  PROVE  IInv'
<1>1. PICK v \in Vehicle, p \in PartType, everyKm \in EveryKmInput, everyDays \in EveryDaysInput,
           km \in KmInput :
        \E r \in generateDeterministicId(v, p) :
          LET rows == RowsOf(d)
              row  == New(ReminderFields(v, p, everyKm, everyDays, km))
          IN /\ Optional(isValidOdometerKm, km)
             /\ validateReminderInterval(everyKm, everyDays)
             /\ assertVehicleOwned(rows, v)
             /\ ActivePartType(rows, p)
             /\ assertNoActiveDuplicate(rows, v, p)
             /\ r \in DOMAIN rows => rows[r].is.deleted
             /\ Write(d, <<Put(r, IF r \in DOMAIN rows THEN [row EXCEPT !.created = rows[r].created]
                                  ELSE row)>>)
  BY Zenon DEF createReminderConfig
<1>2. PICK x : x = ReminderFields(v, p, everyKm, everyDays, km)
  OBVIOUS
<1>11. PICK r \in generateDeterministicId(v, p) :
         /\ validateReminderInterval(everyKm, everyDays)
         /\ assertVehicleOwned(RowsOf(d), v)
         /\ ActivePartType(RowsOf(d), p)
         /\ Write(d, <<Put(r, IF r \in DOMAIN RowsOf(d)
                                THEN [New(x) EXCEPT !.created = RowsOf(d)[r].created]
                                ELSE New(x))>>)
  BY <1>1, <1>2
<1>3. /\ DOMAIN x = {"vehicle", "partType", "everyKm", "everyDays", "baselineKm", "baselineDate",
                     "enabled", "deleted"}
      /\ x.vehicle = v /\ x.partType = p /\ x.everyKm = everyKm /\ x.everyDays = everyDays
  BY <1>2 DEF ReminderFields
<1>4. everyKm \in Counted /\ everyDays \in Counted /\ (everyKm # None \/ everyDays # None)
  BY <1>11, IntervalsFit
<1>5. /\ r \in Id /\ About(r, x) /\ Amounts(r, x)
      /\ Refs(x) \subseteq {v, p} /\ r \notin Odometer \union Fuel
  BY <1>3, <1>4, ReminderFits
<1>6. v \in DOMAIN RowsOf(d) /\ p \in DOMAIN RowsOf(d)
  BY <1>11 DEF assertVehicleOwned, ActivePartType
<1>7. PICK row, created :
        /\ row = [is |-> x, created |-> created, synced |-> None]
        /\ Write(d, <<Put(r, row)>>)
  <2>1. PICK new : new = New(x)
    OBVIOUS
  <2>2. new = [is |-> x, created |-> clock, synced |-> None]
    BY <2>1 DEF New
  <2>3. Write(d, <<Put(r, IF r \in DOMAIN RowsOf(d) THEN [new EXCEPT !.created = RowsOf(d)[r].created]
                          ELSE new)>>)
    BY <1>11, <2>1
  <2>4. [new EXCEPT !.created = RowsOf(d)[r].created]
          = [is |-> x, created |-> RowsOf(d)[r].created, synced |-> None]
    BY <2>2
  <2> QED BY <2>2, <2>3, <2>4
<1>8. IsRow(row) /\ row.is = x /\ row.synced = None
  BY <1>7 DEF IsRow
<1> QED BY <1>5, <1>6, <1>7, <1>8, OneWrite

LEMMA ReminderFieldsOf ==
  ASSUME IInv, NEW d \in Device, NEW r \in Table(d, Reminder), NEW x, x = RowsOf(d)[r].is
  PROVE  /\ r \in Reminder /\ r \in Id /\ r \in DOMAIN RowsOf(d) /\ r \notin Odometer
         /\ DOMAIN x = {"vehicle", "partType", "everyKm", "everyDays", "baselineKm", "baselineDate",
                        "enabled", "deleted"}
         /\ x.everyKm \in Counted /\ x.everyDays \in Counted /\ (x.everyKm # None \/ x.everyDays # None)
<1>1. r \in DOMAIN RowsOf(d) /\ r \in Reminder /\ r \in Id
  BY DEF Table, Id
<1>2. About(r, x) /\ Amounts(r, x)
  BY <1>1, RowsOfDevice
<1> QED BY <1>1, <1>2, FieldsOfId DEF About, Amounts

LEMMA ReminderPatchKeeps ==
  ASSUME IInv, NEW d \in Device, NEW r \in Table(d, Reminder), NEW old, old = RowsOf(d)[r].is, NEW x,
         DOMAIN x = DOMAIN old, x.vehicle = old.vehicle, x.partType = old.partType,
         x.everyKm \in Counted, x.everyDays \in Counted, x.everyKm # None \/ x.everyDays # None,
         Write(d, <<Put(r, Patched(RowsOf(d)[r], x))>>)
  PROVE  IInv'
<1>1. /\ r \in Reminder /\ r \in Id /\ r \in DOMAIN RowsOf(d) /\ r \notin Odometer
      /\ DOMAIN x = {"vehicle", "partType", "everyKm", "everyDays", "baselineKm", "baselineDate",
                     "enabled", "deleted"}
  BY ReminderFieldsOf
<1>2. Amounts(r, x)
  BY <1>1, FieldsOfId DEF Amounts
<1>3. /\ DOMAIN x = DOMAIN RowsOf(d)[r].is
      /\ \A k \in {"vehicle", "partType", "odometerLog"} \intersect DOMAIN x : x[k] = RowsOf(d)[r].is[k]
      /\ "at" \notin DOMAIN x
  BY <1>1
<1> QED BY <1>1, <1>2, <1>3, PatchKeeps

LEMMA IntervalPatchKeeps ==
  ASSUME IInv, NEW d \in Device, NEW r \in Table(d, Reminder), NEW everyKm, NEW everyDays,
         validateReminderInterval(everyKm, everyDays),
         Write(d, <<Put(r, Patched(RowsOf(d)[r], [RowsOf(d)[r].is EXCEPT !.everyKm = everyKm,
                                                                       !.everyDays = everyDays]))>>)
  PROVE  IInv'
<1>1. PICK old, x : old = RowsOf(d)[r].is /\ x = [old EXCEPT !.everyKm = everyKm, !.everyDays = everyDays]
  OBVIOUS
<1>2. DOMAIN old = {"vehicle", "partType", "everyKm", "everyDays", "baselineKm", "baselineDate",
                    "enabled", "deleted"}
  BY <1>1, ReminderFieldsOf
<1>3. everyKm \in Counted /\ everyDays \in Counted /\ (everyKm # None \/ everyDays # None)
  BY IntervalsFit
<1>4. /\ DOMAIN x = DOMAIN old /\ x.vehicle = old.vehicle /\ x.partType = old.partType
      /\ x.everyKm = everyKm /\ x.everyDays = everyDays
  BY <1>1, <1>2
<1>5. Write(d, <<Put(r, Patched(RowsOf(d)[r], x))>>)
  BY <1>1
<1> QED BY <1>1, <1>3, <1>4, <1>5, ReminderPatchKeeps

LEMMA SwitchPatchKeeps ==
  ASSUME IInv, NEW d \in Device, NEW r \in Table(d, Reminder), NEW on,
         \/ Write(d, <<Put(r, Patched(RowsOf(d)[r], [RowsOf(d)[r].is EXCEPT !.enabled = on]))>>)
         \/ Write(d, <<Put(r, Patched(RowsOf(d)[r], [RowsOf(d)[r].is EXCEPT !.deleted = on]))>>)
  PROVE  IInv'
<1>1. PICK old, x : /\ old = RowsOf(d)[r].is
                    /\ x = [old EXCEPT !.enabled = on] \/ x = [old EXCEPT !.deleted = on]
                    /\ Write(d, <<Put(r, Patched(RowsOf(d)[r], x))>>)
  OBVIOUS
<1>2. /\ DOMAIN old = {"vehicle", "partType", "everyKm", "everyDays", "baselineKm", "baselineDate",
                       "enabled", "deleted"}
      /\ old.everyKm \in Counted /\ old.everyDays \in Counted
      /\ old.everyKm # None \/ old.everyDays # None
  BY <1>1, ReminderFieldsOf
<1>3. /\ DOMAIN x = DOMAIN old /\ x.vehicle = old.vehicle /\ x.partType = old.partType
      /\ x.everyKm = old.everyKm /\ x.everyDays = old.everyDays
  BY <1>1, <1>2
<1> QED BY <1>1, <1>2, <1>3, ReminderPatchKeeps

LEMMA UpdateReminderConfigKeeps ==
  ASSUME IInv, NEW d \in Device, updateReminderConfig(d) \/ deleteReminderConfig(d)
  PROVE  IInv'
<1>1. CASE updateReminderConfig(d)
  <2>1. PICK r \in Table(d, Reminder) :
          \/ \E everyKm \in EveryKmInput, everyDays \in EveryDaysInput :
               /\ validateReminderInterval(everyKm, everyDays)
               /\ Write(d, <<Put(r, Patched(RowsOf(d)[r], [RowsOf(d)[r].is EXCEPT !.everyKm = everyKm,
                                                                         !.everyDays = everyDays]))>>)
          \/ \E enabled \in BOOLEAN :
               Write(d, <<Put(r, Patched(RowsOf(d)[r], [RowsOf(d)[r].is EXCEPT !.enabled = enabled]))>>)
    BY <1>1, Zenon DEF updateReminderConfig
  <2> QED BY <2>1, IntervalPatchKeeps, SwitchPatchKeeps, Zenon
<1>2. CASE deleteReminderConfig(d)
  <2>1. PICK r \in Table(d, Reminder) :
          Write(d, <<Put(r, Patched(RowsOf(d)[r], [RowsOf(d)[r].is EXCEPT !.deleted = TRUE]))>>)
    BY <1>2, Zenon DEF deleteReminderConfig
  <2> QED BY <2>1, SwitchPatchKeeps, Zenon
<1> QED BY <1>1, <1>2

-----------------------------------------------------------------------------

\* A reading that is noted
LEMMA ReadingFits ==
  ASSUME NEW o \in Odometer, NEW v \in Vehicle, NEW x, NEW at \in 1 .. clock,
         DOMAIN x = {"vehicle", "km", "at"}, x.vehicle = v, x.at = at
  PROVE  /\ o \in Id /\ About(o, x) /\ Amounts(o, x)
         /\ Refs(x) \subseteq {v} /\ o \notin Fuel
<1>1. o \in Id
  BY DEF Id
<1>2. Refs(x) \subseteq {v}
  BY DEF Refs
<1> QED BY <1>1, <1>2, FieldsOfId DEF About, Amounts

LEMMA AddOdometerLogKeeps ==
  ASSUME IInv, NEW d \in Device, addOdometerLog(d)
  PROVE  IInv'
<1>1. PICK v \in Vehicle, o \in Fresh(Odometer), km \in KmInput \ {None}, at \in When :
        /\ assertVehicleOwned(RowsOf(d), v)
        /\ Write(d, <<Put(o, New([vehicle |-> v, km |-> km, at |-> at]))>>)
  BY DEF addOdometerLog
<1>2. PICK x : x = [vehicle |-> v, km |-> km, at |-> at]
  OBVIOUS
<1>3. DOMAIN x = {"vehicle", "km", "at"} /\ x.vehicle = v /\ x.at = at
  BY <1>2
<1>4. o \in Odometer /\ o \notin DOMAIN local \union DOMAIN server /\ at \in 1 .. clock
  BY FreshId DEF When
<1>5. /\ o \in Id /\ About(o, x) /\ Amounts(o, x)
      /\ Refs(x) \subseteq {v} /\ o \notin Fuel
  BY <1>3, <1>4, ReadingFits
<1>6. v \in DOMAIN RowsOf(d)
  BY <1>1 DEF assertVehicleOwned
<1>7. PICK row : row = New(x) /\ IsRow(row) /\ row.is = x /\ row.synced = None
  BY NewRow
<1>8. Write(d, <<Put(o, row)>>)
  BY <1>1, <1>2, <1>7
<1> QED BY <1>4, <1>5, <1>6, <1>7, <1>8, OneWrite
-----------------------------------------------------------------------------

\* A call of two rows: a reading, and the fuel log of it
LEMMA TwoWrites ==
  ASSUME IInv, NEW d \in Device, NEW o \in Odometer, NEW f \in Fuel, NEW a, NEW b,
         o \notin DOMAIN local \union DOMAIN server,
         IsRow(a), About(o, a.is), Amounts(o, a.is), a.synced = None,
         IsRow(b), About(f, b.is), Amounts(f, b.is), b.synced = None,
         Refs(a.is) \subseteq DOMAIN RowsOf(d), Refs(b.is) \subseteq DOMAIN RowsOf(d) \union {o},
         b.is.odometerLog = o, b.is.vehicle = a.is.vehicle,
         Write(d, <<Put(o, a), Put(f, b)>>)
  PROVE  IInv'
<1>1. PICK w1, w2 : w1 = Put(o, a) /\ w2 = Put(f, b)
  OBVIOUS
<1>2. w1.id = o /\ w1.row = a /\ w2.id = f /\ w2.row = b
  BY <1>1 DEF Put
<1>3. PICK ws : ws = <<w1, w2>>
  OBVIOUS
<1>4. Len(ws) = 2 /\ DOMAIN ws = {1, 2} /\ 1 .. Len(ws) = {1, 2} /\ ws[1] = w1 /\ ws[2] = w2
  BY <1>3
<1>5. PICK m1, m2 : m1 = Mutation(w1) /\ m2 = Mutation(w2)
  OBVIOUS
<1>6. m1.id = o /\ m1.payload = a.is /\ m2.id = f /\ m2.payload = b.is
  BY <1>2, <1>5 DEF Mutation
<1>7. Mutations(ws) = {m1, m2}
  BY <1>4, <1>5 DEF Mutations
<1>8. o \in Id /\ f \in Id /\ o # f /\ o \notin Fuel /\ f \notin Odometer
  BY FieldsOfId DEF Id
<1>9. \A q, v : /\ Says(m1, q, v) => q = o /\ v = a.is.vehicle
                /\ Says(m2, q, v) => q = o /\ v = a.is.vehicle
  BY <1>6, <1>8 DEF Says
<1>10. \A h \in Held : \A v : ~Says(h, o, v)
  BY Unsaid
<1>11. WriteFits(d, Ids(ws, 0), w1)
  BY <1>2, <1>8 DEF WriteFits
<1>12. WriteFits(d, Ids(ws, 1), w2)
  <2>1. Ids(ws, 1) = {o}
    BY <1>2, <1>4 DEF Ids
  <2> QED BY <1>2, <1>8, <2>1 DEF WriteFits
<1>13. WritesFit(d, ws)
  <2>1. Len(ws) \in {1, 2} /\ DOMAIN ws = 1 .. Len(ws)
    BY <1>4
  <2>2. \A n \in DOMAIN ws : WriteFits(d, Ids(ws, n - 1), ws[n])
    BY <1>4, <1>11, <1>12
  <2>3. \A n, k \in DOMAIN ws : ws[n].id = ws[k].id => n = k
    BY <1>2, <1>4, <1>8
  <2>4. \A g \in Mutations(ws), h \in Held \union Mutations(ws), q \in Odometer, v, u \in Vehicle :
          Says(g, q, v) /\ Says(h, q, u) => v = u
    BY <1>7, <1>9, <1>10
  <2> QED BY <2>1, <2>2, <2>3, <2>4 DEF WritesFit
<1>14. Write(d, ws)
  BY <1>1, <1>3
<1> QED BY <1>13, <1>14, WriteKeeps

\* A fuel log, with its reading or without
LEMMA FuelFits ==
  ASSUME NEW f \in Fuel, NEW v \in Vehicle, NEW x, NEW at \in 1 .. clock,
         NEW o \in Odometer \union {None},
         DOMAIN x = {"vehicle", "at", "liters", "cost", "odometerLog", "deleted"},
         x.vehicle = v, x.at = at, x.odometerLog = o, x.liters \in Counted, x.cost \in Cost
  PROVE  /\ f \in Id /\ About(f, x) /\ Amounts(f, x)
         /\ Refs(x) \subseteq {v, o} \ {None} /\ f \notin Odometer
<1>1. f \in Id
  BY DEF Id
<1>2. Refs(x) \subseteq {v, o} \ {None}
  BY DEF Refs
<1> QED BY <1>1, <1>2, FieldsOfId DEF About, Amounts

LEMMA CostFits ==
  ASSUME NEW cost \in CostInput
  PROVE  cost \in Cost
BY AmountAssumption DEF Cost

LEMMA LitersFit ==
  ASSUME NEW liters, Optional(isValidLiters, liters)
  PROVE  liters \in Counted
BY AmountAssumption DEF Optional, isValidLiters, Counted

LEMMA AddFuelLogKeeps ==
  ASSUME IInv, NEW d \in Device, addFuelLog(d)
  PROVE  IInv'
<1>1. PICK v \in Vehicle, f \in Fresh(Fuel), liters \in LitersInput, cost \in CostInput, at \in When,
           o \in {None} \union [id : Fresh(Odometer), km : KmInput \ {None}] :
        /\ Optional(isValidLiters, liters)
        /\ Optional(isValidCost, cost)
        /\ o # None => isValidOdometerKm(o.km)
        /\ assertVehicleOwned(RowsOf(d), v)
        /\ Write(d, FuelWrites(f, [vehicle |-> v, at |-> at, liters |-> liters, cost |-> cost,
                                   odometerLog |-> IF o = None THEN None ELSE o.id,
                                   deleted |-> FALSE], o))
  BY DEF addFuelLog
<1>2. PICK x : x = [vehicle |-> v, at |-> at, liters |-> liters, cost |-> cost,
                    odometerLog |-> IF o = None THEN None ELSE o.id, deleted |-> FALSE]
  OBVIOUS
<1>3. /\ DOMAIN x = {"vehicle", "at", "liters", "cost", "odometerLog", "deleted"}
      /\ x.vehicle = v /\ x.at = at /\ x.liters = liters /\ x.cost = cost
      /\ x.odometerLog = IF o = None THEN None ELSE o.id
  BY <1>2
<1>4. f \in Fuel /\ liters \in Counted /\ cost \in Cost /\ at \in 1 .. clock /\ v \in DOMAIN RowsOf(d)
  BY <1>1, FreshId, LitersFit, CostFits DEF When, assertVehicleOwned
<1>5. PICK row : row = New(x) /\ IsRow(row) /\ row.is = x /\ row.synced = None
  BY NewRow
<1>6. Write(d, FuelWrites(f, x, o))
  BY <1>1, <1>2
<1>7. CASE o = None
  <2>1. x.odometerLog = None
    BY <1>3, <1>7
  <2>2. /\ f \in Id /\ About(f, x) /\ Amounts(f, x)
        /\ Refs(x) \subseteq {v} /\ f \notin Odometer
    BY <1>3, <1>4, <2>1, FuelFits
  <2>3. Write(d, <<Put(f, row)>>)
    BY <1>5, <1>6, <1>7 DEF FuelWrites
  <2> QED BY <1>4, <1>5, <2>1, <2>2, <2>3, OneWrite
<1>8. CASE o # None
  <2>1. o \in [id : Fresh(Odometer), km : KmInput \ {None}]
    BY <1>8
  <2>2. PICK i \in Fresh(Odometer) : i = o.id
    BY <2>1
  <2>3. i \in Odometer /\ i \notin DOMAIN local \union DOMAIN server
    BY FreshId
  <2>4. x.odometerLog = i
    BY <1>3, <1>8, <2>2
  <2>5. /\ About(f, x) /\ Amounts(f, x) /\ Refs(x) \subseteq {v, i}
    BY <1>3, <1>4, <2>3, <2>4, FuelFits
  <2>6. PICK y : y = [vehicle |-> x.vehicle, km |-> o.km, at |-> x.at]
    OBVIOUS
  <2>7. DOMAIN y = {"vehicle", "km", "at"} /\ y.vehicle = v /\ y.at = at
    BY <1>3, <2>6
  <2>8. About(i, y) /\ Amounts(i, y) /\ Refs(y) \subseteq {v}
    BY <1>4, <2>3, <2>7, ReadingFits
  <2>9. PICK reading : reading = New(y) /\ IsRow(reading) /\ reading.is = y /\ reading.synced = None
    BY NewRow
  <2>10. Write(d, <<Put(i, reading), Put(f, row)>>)
    BY <1>5, <1>6, <1>8, <2>2, <2>6, <2>9 DEF FuelWrites
  <2>11. /\ Refs(reading.is) \subseteq DOMAIN RowsOf(d)
         /\ Refs(row.is) \subseteq DOMAIN RowsOf(d) \union {i}
         /\ row.is.odometerLog = i /\ row.is.vehicle = reading.is.vehicle
    BY <1>3, <1>4, <1>5, <2>4, <2>5, <2>7, <2>8, <2>9
  <2>12. f \in Fuel /\ About(f, row.is) /\ Amounts(f, row.is) /\ About(i, reading.is) /\ Amounts(i, reading.is)
    BY <1>4, <1>5, <2>5, <2>8, <2>9
  <2> QED BY <1>5, <2>3, <2>9, <2>10, <2>11, <2>12, TwoWrites
<1> QED BY <1>7, <1>8

LEMMA FuelFieldsOf ==
  ASSUME IInv, NEW d \in Device, NEW f \in Table(d, Fuel), NEW x, x = RowsOf(d)[f].is
  PROVE  /\ f \in Fuel /\ f \in Id /\ f \in DOMAIN RowsOf(d) /\ f \notin Odometer
         /\ DOMAIN x = {"vehicle", "at", "liters", "cost", "odometerLog", "deleted"}
         /\ x.liters \in Counted /\ x.cost \in Cost /\ x.at \in 1 .. clock
<1>1. f \in DOMAIN RowsOf(d) /\ f \in Fuel /\ f \in Id
  BY DEF Table, Id
<1>2. About(f, x) /\ Amounts(f, x)
  BY <1>1, RowsOfDevice
<1> QED BY <1>1, <1>2, FieldsOfId DEF About, Amounts

LEMMA FuelPatchKeeps ==
  ASSUME IInv, NEW d \in Device, NEW f \in Table(d, Fuel), NEW old, old = RowsOf(d)[f].is, NEW x,
         DOMAIN x = DOMAIN old, x.vehicle = old.vehicle, x.odometerLog = old.odometerLog,
         x.liters \in Counted, x.cost \in Cost, x.at \in 1 .. clock,
         Write(d, <<Put(f, Patched(RowsOf(d)[f], x))>>)
  PROVE  IInv'
<1>1. /\ f \in Fuel /\ f \in Id /\ f \in DOMAIN RowsOf(d) /\ f \notin Odometer
      /\ DOMAIN x = {"vehicle", "at", "liters", "cost", "odometerLog", "deleted"}
  BY FuelFieldsOf
<1>2. Amounts(f, x)
  BY <1>1, FieldsOfId DEF Amounts
<1>3. /\ DOMAIN x = DOMAIN RowsOf(d)[f].is
      /\ \A k \in {"vehicle", "partType", "odometerLog"} \intersect DOMAIN x : x[k] = RowsOf(d)[f].is[k]
      /\ "at" \in DOMAIN x => x["at"] \in 1 .. clock
  BY <1>1
<1> QED BY <1>1, <1>2, <1>3, PatchKeeps

LEMMA UpdateFuelLogKeeps ==
  ASSUME IInv, NEW d \in Device, updateFuelLog(d)
  PROVE  IInv'
<1>1. PICK f \in Table(d, Fuel), liters \in LitersInput, cost \in CostInput, at \in When :
        /\ Optional(isValidLiters, liters)
        /\ Optional(isValidCost, cost)
        /\ Write(d, <<Put(f, Patched(RowsOf(d)[f], [RowsOf(d)[f].is EXCEPT !.liters = liters,
                                                                        !.cost = cost, !.at = at]))>>)
  BY DEF updateFuelLog
<1>2. PICK old, x : old = RowsOf(d)[f].is /\ x = [old EXCEPT !.liters = liters, !.cost = cost, !.at = at]
  OBVIOUS
<1>3. DOMAIN old = {"vehicle", "at", "liters", "cost", "odometerLog", "deleted"}
  BY <1>2, FuelFieldsOf
<1>4. liters \in Counted /\ cost \in Cost /\ at \in 1 .. clock
  BY <1>1, LitersFit, CostFits DEF When
<1>5. /\ DOMAIN x = DOMAIN old /\ x.vehicle = old.vehicle /\ x.odometerLog = old.odometerLog
      /\ x.liters = liters /\ x.cost = cost /\ x.at = at
  BY <1>2, <1>3
<1>6. Write(d, <<Put(f, Patched(RowsOf(d)[f], x))>>)
  BY <1>1, <1>2
<1> QED BY <1>2, <1>4, <1>5, <1>6, FuelPatchKeeps

LEMMA DeleteFuelLogKeeps ==
  ASSUME IInv, NEW d \in Device, deleteFuelLog(d)
  PROVE  IInv'
<1>1. PICK f \in Table(d, Fuel) :
        Write(d, <<Put(f, Patched(RowsOf(d)[f], [RowsOf(d)[f].is EXCEPT !.deleted = TRUE]))>>)
  BY DEF deleteFuelLog
<1>2. PICK old, x : old = RowsOf(d)[f].is /\ x = [old EXCEPT !.deleted = TRUE]
  OBVIOUS
<1>3. /\ DOMAIN old = {"vehicle", "at", "liters", "cost", "odometerLog", "deleted"}
      /\ old.liters \in Counted /\ old.cost \in Cost /\ old.at \in 1 .. clock
  BY <1>2, FuelFieldsOf
<1>4. /\ DOMAIN x = DOMAIN old /\ x.vehicle = old.vehicle /\ x.odometerLog = old.odometerLog
      /\ x.liters = old.liters /\ x.cost = old.cost /\ x.at = old.at
  BY <1>2, <1>3
<1>5. Write(d, <<Put(f, Patched(RowsOf(d)[f], x))>>)
  BY <1>1, <1>2
<1> QED BY <1>2, <1>3, <1>4, <1>5, FuelPatchKeeps

-----------------------------------------------------------------------------

\* A service
LEMMA ServiceFits ==
  ASSUME NEW s \in Service, NEW v \in Vehicle, NEW p \in PartType, NEW x, NEW at \in 1 .. clock,
         DOMAIN x = {"vehicle", "partType", "at", "km", "cost", "deleted"},
         x.vehicle = v, x.partType = p, x.at = at, x.km \in Nat \union {None}, x.cost \in Cost
  PROVE  /\ s \in Id /\ About(s, x) /\ Amounts(s, x)
         /\ Refs(x) \subseteq {v, p} /\ s \notin Odometer \union Fuel
<1>1. s \in Id
  BY DEF Id
<1>2. Refs(x) \subseteq {v, p}
  BY DEF Refs
<1> QED BY <1>1, <1>2, FieldsOfId DEF About, Amounts

LEMMA AddServiceLogKeeps ==
  ASSUME IInv, NEW d \in Device, addServiceLog(d)
  PROVE  IInv'
<1>1. PICK v \in Vehicle, p \in PartType, s \in Fresh(Service), km \in KmInput, cost \in CostInput,
           at \in When :
        /\ Optional(isValidOdometerKm, km)
        /\ Optional(isValidCost, cost)
        /\ assertVehicleOwned(RowsOf(d), v)
        /\ ActivePartType(RowsOf(d), p)
        /\ Write(d, <<Put(s, New([vehicle |-> v, partType |-> p, at |-> at, km |-> km, cost |-> cost,
                                  deleted |-> FALSE]))>>)
  BY DEF addServiceLog
<1>2. PICK x : x = [vehicle |-> v, partType |-> p, at |-> at, km |-> km, cost |-> cost, deleted |-> FALSE]
  OBVIOUS
<1>3. /\ DOMAIN x = {"vehicle", "partType", "at", "km", "cost", "deleted"}
      /\ x.vehicle = v /\ x.partType = p /\ x.at = at /\ x.km = km /\ x.cost = cost
  BY <1>2
<1>4. km \in Nat \union {None} /\ cost \in Cost
  BY <1>1, CostFits, AmountAssumption DEF Optional, isValidOdometerKm
<1>5. s \in Service /\ at \in 1 .. clock /\ v \in DOMAIN RowsOf(d) /\ p \in DOMAIN RowsOf(d)
  BY <1>1, FreshId DEF When, assertVehicleOwned, ActivePartType
<1>6. /\ s \in Id /\ About(s, x) /\ Amounts(s, x)
      /\ Refs(x) \subseteq {v, p} /\ s \notin Odometer \union Fuel
  BY <1>3, <1>4, <1>5, ServiceFits
<1>7. PICK row : row = New(x) /\ IsRow(row) /\ row.is = x /\ row.synced = None
  BY NewRow
<1>8. Write(d, <<Put(s, row)>>)
  BY <1>1, <1>2, <1>7
<1> QED BY <1>5, <1>6, <1>7, <1>8, OneWrite

LEMMA ServiceFieldsOf ==
  ASSUME IInv, NEW d \in Device, NEW s \in Table(d, Service), NEW x, x = RowsOf(d)[s].is
  PROVE  /\ s \in Service /\ s \in Id /\ s \in DOMAIN RowsOf(d) /\ s \notin Odometer
         /\ DOMAIN x = {"vehicle", "partType", "at", "km", "cost", "deleted"}
         /\ x.vehicle \in Vehicle /\ x.partType \in PartType /\ x.km \in Nat \union {None} /\ x.cost \in Cost
         /\ x.at \in 1 .. clock
         /\ x.vehicle \in DOMAIN RowsOf(d) /\ x.partType \in DOMAIN RowsOf(d)
<1>1. s \in DOMAIN RowsOf(d) /\ s \in Service /\ s \in Id
  BY DEF Table, Id
<1>2. About(s, x) /\ Amounts(s, x) /\ Refs(x) \subseteq DOMAIN RowsOf(d)
  BY <1>1, RowsOfDevice
<1>3. /\ DOMAIN x = {"vehicle", "partType", "at", "km", "cost", "deleted"}
      /\ x.vehicle \in Vehicle /\ x.partType \in PartType /\ x.km \in Nat \union {None} /\ x.cost \in Cost
      /\ x.at \in 1 .. clock
  BY <1>1, <1>2, FieldsOfId DEF About, Amounts
<1>4. x.vehicle \in Refs(x) /\ x.partType \in Refs(x)
  BY <1>3, NoneIsNoId DEF Refs, Id
<1> QED BY <1>1, <1>2, <1>3, <1>4, FieldsOfId

LEMMA UpdateServiceLogKeeps ==
  ASSUME IInv, NEW d \in Device, updateServiceLog(d)
  PROVE  IInv'
<1>1. PICK s \in Table(d, Service), p \in PartType, cost \in CostInput, at \in When :
        /\ Optional(isValidCost, cost)
        /\ p # RowsOf(d)[s].is.partType => ActivePartType(RowsOf(d), p)
        /\ Write(d, <<Put(s, Patched(RowsOf(d)[s], [RowsOf(d)[s].is EXCEPT !.partType = p, !.cost = cost,
                                                                        !.at = at]))>>)
  BY DEF updateServiceLog
<1>2. PICK old, x : old = RowsOf(d)[s].is /\ x = [old EXCEPT !.partType = p, !.cost = cost, !.at = at]
  OBVIOUS
<1>3. /\ s \in Service /\ s \in Id /\ s \in DOMAIN RowsOf(d)
      /\ DOMAIN old = {"vehicle", "partType", "at", "km", "cost", "deleted"}
      /\ old.vehicle \in Vehicle /\ old.km \in Nat \union {None}
      /\ old.vehicle \in DOMAIN RowsOf(d) /\ old.partType \in DOMAIN RowsOf(d)
  BY <1>2, ServiceFieldsOf
<1>4. /\ DOMAIN x = {"vehicle", "partType", "at", "km", "cost", "deleted"}
      /\ x.vehicle = old.vehicle /\ x.partType = p /\ x.at = at /\ x.km = old.km /\ x.cost = cost
  BY <1>2, <1>3
<1>5. p \in DOMAIN RowsOf(d)
  BY <1>1, <1>2, <1>3 DEF ActivePartType
<1>6. at \in 1 .. clock /\ cost \in Cost
  BY CostFits DEF When
<1>7. /\ About(s, x) /\ Amounts(s, x)
      /\ Refs(x) \subseteq DOMAIN RowsOf(d) /\ s \notin Odometer \union Fuel
  BY <1>3, <1>4, <1>5, <1>6, ServiceFits
<1>8. PICK row : row = Patched(RowsOf(d)[s], x)
  OBVIOUS
<1>9. IsRow(row) /\ row.is = x /\ row.synced = RowsOf(d)[s].synced
  BY <1>3, <1>8, RowsOfDevice, PatchedRow
<1>10. Write(d, <<Put(s, row)>>)
  BY <1>1, <1>2, <1>8
<1> QED BY <1>3, <1>7, <1>9, <1>10, OneWrite

LEMMA DeleteServiceLogKeeps ==
  ASSUME IInv, NEW d \in Device, deleteServiceLog(d)
  PROVE  IInv'
<1>1. PICK s \in Table(d, Service) :
        Write(d, <<Put(s, Patched(RowsOf(d)[s], [RowsOf(d)[s].is EXCEPT !.deleted = TRUE]))>>)
  BY DEF deleteServiceLog
<1>2. PICK old, x : old = RowsOf(d)[s].is /\ x = [old EXCEPT !.deleted = TRUE]
  OBVIOUS
<1>3. /\ s \in Service /\ s \in Id /\ s \in DOMAIN RowsOf(d) /\ s \notin Odometer
      /\ DOMAIN old = {"vehicle", "partType", "at", "km", "cost", "deleted"}
      /\ old.km \in Nat \union {None} /\ old.cost \in Cost /\ old.at \in 1 .. clock
  BY <1>2, ServiceFieldsOf
<1>4. /\ DOMAIN x = DOMAIN old
      /\ \A k \in {"vehicle", "partType", "odometerLog"} \intersect DOMAIN x : x[k] = old[k]
      /\ x.at = old.at /\ x.km = old.km /\ x.cost = old.cost
  BY <1>2, <1>3
<1>5. Amounts(s, x)
  BY <1>3, <1>4, FieldsOfId DEF Amounts
<1>6. Write(d, <<Put(s, Patched(RowsOf(d)[s], x))>>)
  BY <1>1, <1>2
<1> QED BY <1>2, <1>3, <1>4, <1>5, <1>6, PatchKeeps

-----------------------------------------------------------------------------
(* The invariant *)

LEMMA RepositoryKeeps ==
  ASSUME IInv, NEW d \in Device, Repository(d)
  PROVE  IInv'
<1>1. CASE createVehicle(d)
  BY <1>1, CreateVehicleKeeps
<1>2. CASE updateVehicle(d) \/ archiveVehicle(d) \/ restoreVehicle(d) \/ deleteVehicle(d)
  BY <1>2, UpdateVehicleKeeps
<1>3. CASE updateVehicleDetails(d)
  BY <1>3, UpdateVehicleDetailsKeeps
<1>4. CASE createPartType(d)
  BY <1>4, CreatePartTypeKeeps
<1>5. CASE updatePartTypeName(d)
  BY <1>5, UpdatePartTypeNameKeeps
<1>6. CASE setPartTypeActive(d)
  BY <1>6, SetPartTypeActiveKeeps
<1>7. CASE createReminderConfig(d)
  BY <1>7, CreateReminderConfigKeeps
<1>8. CASE updateReminderConfig(d) \/ deleteReminderConfig(d)
  BY <1>8, UpdateReminderConfigKeeps
<1>9. CASE addOdometerLog(d)
  BY <1>9, AddOdometerLogKeeps
<1>10. CASE addFuelLog(d)
  BY <1>10, AddFuelLogKeeps
<1>11. CASE updateFuelLog(d)
  BY <1>11, UpdateFuelLogKeeps
<1>12. CASE deleteFuelLog(d)
  BY <1>12, DeleteFuelLogKeeps
<1>13. CASE addServiceLog(d)
  BY <1>13, AddServiceLogKeeps
<1>14. CASE updateServiceLog(d)
  BY <1>14, UpdateServiceLogKeeps
<1>15. CASE deleteServiceLog(d)
  BY <1>15, DeleteServiceLogKeeps
<1> QED BY <1>1, <1>2, <1>3, <1>4, <1>5, <1>6, <1>7, <1>8, <1>9, <1>10, <1>11, <1>12, <1>13,
           <1>14, <1>15, Zenon DEF Repository

LEMMA SeedFits ==
  ASSUME NEW i \in Seeded
  PROVE  i \in Id /\ About(i, Seed(i)) /\ Amounts(i, Seed(i)) /\ Refs(Seed(i)) = {} /\ i \notin Odometer \union Fuel
<1>1. i \in Vehicle \union PartType /\ i \in Id
  BY SeededAssumption DEF Id
<1>2. CASE i \in Vehicle
  <2>1. PICK x : x = Seed(i) /\ x = [archived |-> FALSE, deleted |-> FALSE, dueSoonRatio |-> None]
    BY <1>2 DEF Seed, VehicleFields
  <2>2. DOMAIN x = {"archived", "deleted", "dueSoonRatio"} /\ x.dueSoonRatio = None
    BY <2>1
  <2>3. Refs(x) = {}
    BY <2>2 DEF Refs
  <2>4. About(i, x) /\ Amounts(i, x)
    BY <1>1, <1>2, <2>2, FieldsOfId DEF About, Amounts
  <2> QED BY <1>1, <1>2, <2>1, <2>3, <2>4, FieldsOfId
<1>3. CASE i \in PartType
  <2>1. PICK x : x = Seed(i) /\ x = [active |-> TRUE]
    BY <1>1, <1>3, FieldsOfId DEF Seed
  <2>2. DOMAIN x = {"active"}
    BY <2>1
  <2>3. Refs(x) = {}
    BY <2>2 DEF Refs
  <2>4. About(i, x) /\ Amounts(i, x)
    BY <1>1, <1>3, <2>2, FieldsOfId DEF About, Amounts
  <2> QED BY <1>1, <1>3, <2>1, <2>3, <2>4, FieldsOfId
<1> QED BY <1>1, <1>2, <1>3

LEMMA InitHolds == Init => IInv
<1> SUFFICES ASSUME Init PROVE IInv
  OBVIOUS
<1>1. /\ clock = 1 /\ outbox = <<>> /\ seen = 1 /\ seq = 1
      /\ edits = [d \in Device |-> 0]
      /\ DOMAIN local = Seeded /\ DOMAIN server = Seeded
      /\ \A i \in Seeded : /\ local[i] = [is |-> Seed(i), created |-> 1, synced |-> 1]
                           /\ server[i] = [is |-> Seed(i), synced |-> 1]
  BY DEF Init
<1>2. \A i \in Seeded : /\ local[i].is = Seed(i) /\ local[i].synced = 1
                        /\ server[i].is = Seed(i) /\ server[i].synced = 1
  BY <1>1
<1>3. DOMAIN outbox = {} /\ Queued = {}
  BY <1>1 DEF Queued
<1>4. \A m \in Held : m.id \in Seeded /\ m.payload = Seed(m.id)
  BY <1>1, <1>2, <1>3 DEF Held
<1>5. HeldFits
  BY <1>4, SeedFits DEF HeldFits
<1>6. OneVehicle
  <2>1. \A m \in Held : \A o, v : ~Says(m, o, v)
    BY <1>4, SeedFits DEF Says
  <2> QED BY <2>1 DEF OneVehicle
<1>7. TypeOK
  <2>1. outbox \in Seq([id : DOMAIN local, payload : {outbox[n].payload : n \in DOMAIN outbox}])
    BY <1>1
  <2>2. clock \in 1 .. MaxClock /\ seq \in Nat /\ seen \in 1 .. seq /\ edits \in [Device -> Nat]
    BY <1>1, BoundAssumption
  <2>3. \A i \in Seeded : i \in Id /\ DOMAIN Seed(i) = Fields(i)
    BY SeedFits DEF About
  <2>4. 1 \in 1 .. seq
    BY <1>1
  <2>5. DOMAIN local \subseteq Id /\ DOMAIN server \subseteq Id
    BY <1>1, <2>3
  <2>6. \A i \in DOMAIN local : DOMAIN local[i].is = Fields(i) /\ local[i].synced \in 1 .. seq \union {None}
    BY <1>1, <1>2, <2>3, <2>4
  <2>7. \A i \in DOMAIN server : DOMAIN server[i].is = Fields(i) /\ server[i].synced \in 1 .. seq
    BY <1>1, <1>2, <2>3, <2>4
  <2> QED BY <2>1, <2>2, <2>5, <2>6, <2>7 DEF TypeOK
<1>8. RowsAreRows
  BY <1>1 DEF RowsAreRows
<1>9. Closed
  BY <1>1, <1>2, <1>3, SeedFits DEF Closed
<1>10. Known /\ ReadOnce /\ Pulling /\ Stamped /\ UpToDate /\ Numbered
  BY <1>1, <1>2, <1>3 DEF Known, ReadOnce, Pulling, Stamped, UpToDate, Numbered
<1> QED BY <1>5, <1>6, <1>7, <1>8, <1>9, <1>10 DEF IInv

LEMMA NextKeeps == IInv /\ [Next]_vars => IInv'
<1> SUFFICES ASSUME IInv, [Next]_vars PROVE IInv'
  OBVIOUS
<1>1. CASE \E d \in Device : Repository(d)
  BY <1>1, RepositoryKeeps
<1>2. CASE push
  BY <1>2, PushKeeps
<1>3. CASE pull
  BY <1>3, PullKeeps
<1>4. CASE TimePasses
  BY <1>4, TimeKeeps
<1>5. CASE UNCHANGED vars
  <2>1. /\ clock' = clock /\ local' = local /\ outbox' = outbox /\ seen' = seen
        /\ server' = server /\ seq' = seq /\ edits' = edits
    BY <1>5 DEF vars
  <2>2. TypeOK'
    BY <2>1 DEF IInv, TypeOK, Fields
  <2>3. HeldFits' /\ OneVehicle'
    <3>1. Held' = Held
      BY <2>1 DEF Held
    <3> QED BY <2>1, <3>1 DEF IInv, HeldFits, OneVehicle, About, Amounts, Says, Fields
  <2>4. Queued' = Queued /\ \A n : Before(n)' = Before(n)
    BY <2>1 DEF Queued, Before
  <2>5. Closed'
    BY <2>1, <2>4 DEF IInv, Closed, Refs
  <2>6. RowsAreRows' /\ Known' /\ ReadOnce' /\ Pulling' /\ Stamped' /\ UpToDate' /\ Numbered'
    BY <2>1, <2>4 DEF IInv, RowsAreRows, Known, ReadOnce, Pulling, Stamped, UpToDate, Numbered
  <2> QED BY <2>2, <2>3, <2>5, <2>6 DEF IInv
<1> QED BY <1>1, <1>2, <1>3, <1>4, <1>5 DEF Next

LEMMA InvariantHolds == Spec => []IInv
BY InitHolds, NextKeeps, PTL DEF Spec

-----------------------------------------------------------------------------
(* The queue *)

\* Rows and outbox have the fields of their tables, and stamps are numbers the account
\* has given out.
THEOREM TypeCorrect == Spec => []TypeOK
<1>1. IInv => TypeOK
  BY DEF IInv
<1> QED BY <1>1, InvariantHolds, PTL

\* The least element of a set of numbers
Smaller == {p \in Nat \X Nat : p[1] < p[2]}

LEMMA SmallerIsLess == \A x, y \in Nat : <<x, y>> \in Smaller <=> x < y
BY DEF Smaller

LEMMA Least ==
  ASSUME NEW T \in SUBSET Nat, T # {}
  PROVE  \E m \in T : \A k \in T : m <= k
<1>1. Smaller = OpToRel(<, Nat)
  BY DEF Smaller, OpToRel
<1>2. IsWellFoundedOn(Smaller, Nat)
  BY <1>1, NatLessThanWellFounded, Zenon
<1>3. PICK m \in T : \A k \in T : <<k, m>> \notin Smaller
  BY <1>2, WFMin
<1>4. \A k \in T : ~(k < m)
  BY <1>3, SmallerIsLess
<1> QED BY <1>4

\* Ahead is the function its definition describes: there is one as far as any n.
LEMMA AheadIs ==
  ASSUME TypeOK
  PROVE  /\ Ahead[0] = [rows |-> server, seq |-> seq]
         /\ \A n \in DOMAIN outbox : Ahead[n] = ApplyMutation(Ahead[n - 1], outbox[n])
<1> DEFINE base == [rows |-> server, seq |-> seq]
           Rule(f, n) == IF n = 0 THEN base ELSE ApplyMutation(f[n - 1], outbox[n])
           Upto(k) == \E f : f = [n \in 0 .. k |-> Rule(f, n)]
           Missing == {k \in Nat : ~Upto(k)}
<1>1. Upto(0)
  <2>1. PICK f : f = [n \in 0 .. 0 |-> base]
    OBVIOUS
  <2>2. f = [n \in 0 .. 0 |-> Rule(f, n)]
    BY <2>1
  <2> QED BY <2>2
<1>2. ASSUME NEW k \in Nat, Upto(k) PROVE Upto(k + 1)
  <2>1. PICK f : f = [n \in 0 .. k |-> Rule(f, n)]
    BY <1>2
  <2>2. PICK g : g = [n \in 0 .. k + 1 |-> Rule(f, n)]
    OBVIOUS
  <2>3. \A n \in 0 .. k : g[n] = f[n]
    <3> HIDE DEF Rule
    <3> QED BY <2>1, <2>2
  <2>4. \A n \in 0 .. k + 1 : Rule(g, n) = Rule(f, n)
    <3>1. \A n \in 0 .. k + 1 : n # 0 => n - 1 \in 0 .. k
      OBVIOUS
    <3> QED BY <2>3, <3>1
  <2>5. g = [n \in 0 .. k + 1 |-> Rule(g, n)]
    <3> HIDE DEF Rule
    <3> QED BY <2>2, <2>4
  <2> HIDE DEF Rule
  <2> QED BY <2>5
<1>3. Missing = {}
  <2> HIDE DEF Upto
  <2> SUFFICES ASSUME Missing # {} PROVE FALSE
    OBVIOUS
  <2>1. PICK k \in Missing : \A j \in Missing : k <= j
    BY Least
  <2>2. k # 0 /\ k \in Nat
    BY <1>1, <2>1
  <2>3. k - 1 \in Nat /\ k - 1 \notin Missing
    BY <2>1, <2>2
  <2>4. Upto(k - 1) /\ (k - 1) + 1 = k
    BY <2>2, <2>3
  <2>5. Upto(k)
    BY <1>2, <2>3, <2>4
  <2> QED BY <2>1, <2>5
<1>4. Len(outbox) \in Nat /\ DOMAIN outbox = 1 .. Len(outbox)
  BY QueueType
<1>5. Upto(Len(outbox))
  <2> HIDE DEF Upto
  <2> QED BY <1>3, <1>4
<1>6. Ahead = [n \in 0 .. Len(outbox) |-> Rule(Ahead, n)]
  BY <1>5 DEF Ahead
<1>7. \A n \in 0 .. Len(outbox) : Ahead[n] = Rule(Ahead, n)
  <2> HIDE DEF Rule
  <2> QED BY <1>6
<1>8. /\ 0 \in 0 .. Len(outbox) /\ DOMAIN outbox \subseteq 0 .. Len(outbox)
      /\ \A n \in DOMAIN outbox : n # 0
  BY <1>4
<1> QED BY <1>7, <1>8

\* A row says what some mutation said, as it was or as the columns round it.
IsSaid(i, x) == \E h \in Held : h.id = i /\ (x = h.payload \/ x = Canonical(h.payload))

LEMMA AheadFits ==
  ASSUME IInv
  PROVE  \A n \in 0 .. Len(outbox) :
           /\ DOMAIN Ahead[n].rows = Before(n + 1)
           /\ \A i \in Before(n + 1) : IsSaid(i, Ahead[n].rows[i].is)
<1> DEFINE L == Len(outbox)
           Fits(n) == /\ DOMAIN Ahead[n].rows = Before(n + 1)
                      /\ \A i \in Before(n + 1) : IsSaid(i, Ahead[n].rows[i].is)
           Bad == {n \in 0 .. L : ~Fits(n)}
<1>1. TypeOK /\ L \in Nat /\ DOMAIN outbox = 1 .. L
  BY QueueType DEF IInv
<1>2. /\ Ahead[0] = [rows |-> server, seq |-> seq]
      /\ \A n \in DOMAIN outbox : Ahead[n] = ApplyMutation(Ahead[n - 1], outbox[n])
  BY <1>1, AheadIs
<1>3. Fits(0)
  <2>1. Before(0 + 1) = DOMAIN server /\ Ahead[0].rows = server
    BY <1>2 DEF Before
  <2>2. \A i \in DOMAIN server : IsSaid(i, server[i].is)
    <3> SUFFICES ASSUME NEW i \in DOMAIN server PROVE IsSaid(i, server[i].is)
      OBVIOUS
    <3>1. PICK h : h = [id |-> i, payload |-> server[i].is]
      OBVIOUS
    <3>2. h \in Held
      BY <3>1 DEF Held
    <3>3. h.id = i /\ h.payload = server[i].is
      BY <3>1
    <3> QED BY <3>2, <3>3 DEF IsSaid
  <2> QED BY <2>1, <2>2
<1>4. ASSUME NEW n \in 1 .. L, Fits(n - 1) PROVE Fits(n)
  <2>1. PICK m : m = outbox[n] /\ m \in Held
    BY <1>1 DEF Held
  <2>2. PICK at : at = Ahead[n - 1]
    OBVIOUS
  <2>3. (n - 1) + 1 = n /\ DOMAIN at.rows = Before(n) /\ \A i \in Before(n) : IsSaid(i, at.rows[i].is)
    BY <1>4, <2>2
  <2>4. m.id \in Odometer => m.id \notin DOMAIN at.rows
    <3> SUFFICES ASSUME m.id \in Odometer PROVE m.id \notin Before(n)
      BY <2>3
    <3>1. m.id \notin DOMAIN server /\ \A k \in DOMAIN outbox \ {n} : outbox[k].id # m.id
      BY <1>1, <2>1 DEF IInv, ReadOnce
    <3>2. \A k \in 1 .. n - 1 : k \in DOMAIN outbox \ {n}
      BY <1>1
    <3> QED BY <3>1, <3>2 DEF Before
  <2>5. PICK after : after = ApplyMutation(at, m)
    OBVIOUS
  <2>6. /\ DOMAIN after.rows = DOMAIN at.rows \union {m.id}
        /\ after.rows[m.id] = [is |-> Canonical(m.payload), synced |-> at.seq + 1]
        /\ \A i \in DOMAIN at.rows \ {m.id} : after.rows[i] = at.rows[i]
    BY <2>4, <2>5, ApplyEffect
  <2>7. Ahead[n] = after
    BY <1>1, <1>2, <2>1, <2>2, <2>5
  <2>8. Before(n + 1) = Before(n) \union {m.id}
    <3>1. \A k \in 1 .. (n + 1) - 1 : k \in 1 .. n - 1 \/ k = n
      OBVIOUS
    <3>2. n \in 1 .. (n + 1) - 1 /\ \A k \in 1 .. n - 1 : k \in 1 .. (n + 1) - 1
      OBVIOUS
    <3> QED BY <2>1, <3>1, <3>2 DEF Before
  <2>9. after.rows[m.id].is = Canonical(m.payload)
    BY <2>6
  <2>10. IsSaid(m.id, after.rows[m.id].is)
    BY <2>1, <2>9 DEF IsSaid
  <2>11. \A i \in Before(n + 1) : IsSaid(i, after.rows[i].is)
    BY <2>3, <2>6, <2>8, <2>10
  <2> QED BY <2>3, <2>6, <2>7, <2>8, <2>11
<1>5. Bad = {}
  <2> HIDE DEF Fits
  <2> SUFFICES ASSUME Bad # {} PROVE FALSE
    OBVIOUS
  <2>1. Bad \in SUBSET Nat
    BY <1>1
  <2>2. PICK k \in Bad : \A j \in Bad : k <= j
    BY <2>1, Least
  <2>3. k \in 1 .. L
    BY <1>1, <1>3, <2>2
  <2>4. k - 1 \in 0 .. L /\ k - 1 \notin Bad
    BY <1>1, <2>2, <2>3
  <2>5. Fits(k)
    BY <1>4, <2>3, <2>4
  <2> QED BY <2>2, <2>5
<1> QED BY <1>5

LEMMA SameReminder ==
  ASSUME NEW r \in Reminder, NEW i \in Reminder,
         r.vehicle = i.vehicle, r.partType = i.partType, ~r.twin, ~i.twin
  PROVE  r = i
BY DEF Reminder

\* What is said of an id fits it, and tells the vehicle the mutation told.
LEMMA SaidFits ==
  ASSUME IInv, NEW i, NEW x, IsSaid(i, x)
  PROVE  /\ i \in Id /\ About(i, x)
         /\ \A v \in Vehicle, a \in Held : i \in Odometer /\ Says(a, i, v) => x.vehicle = v
<1>1. PICK h \in Held : h.id = i /\ (x = h.payload \/ x = Canonical(h.payload))
  BY DEF IsSaid
<1>2. i \in Id /\ About(i, h.payload)
  BY <1>1 DEF IInv, HeldFits
<1>3. About(i, x)
  BY <1>1, <1>2, CanonicalAbout
<1>4. ASSUME NEW v \in Vehicle, NEW a \in Held, i \in Odometer, Says(a, i, v) PROVE x.vehicle = v
  <2>1. x.vehicle = h.payload.vehicle /\ h.payload.vehicle \in Vehicle
    BY <1>1, <1>2, <1>4, CanonicalKeeps, FieldsOfId DEF About
  <2>2. Says(h, i, h.payload.vehicle)
    BY <1>1, <1>4 DEF Says
  <2> QED BY <1>4, <2>1, <2>2 DEF IInv, OneVehicle
<1> QED BY <1>2, <1>3, <1>4

\* Reference by reference: what a mutation refers to is in the rows before it, about
\* the same vehicle, and no second reminder of its vehicle and part type is.
LEMMA ReferencesHold ==
  ASSUME IInv, NEW n \in DOMAIN outbox
  PROVE  References(Ahead[n - 1].rows, outbox[n].id, outbox[n].payload)
<1>1. /\ Len(outbox) \in Nat /\ DOMAIN outbox = 1 .. Len(outbox)
      /\ n \in Nat /\ n - 1 \in 0 .. Len(outbox) /\ (n - 1) + 1 = n
  BY QueueType DEF IInv
<1>2. PICK m : m = outbox[n]
  OBVIOUS
<1>3. PICK i : i = m.id
  OBVIOUS
<1>4. PICK x : x = m.payload
  OBVIOUS
<1>5. PICK rows : rows = Ahead[n - 1].rows
  OBVIOUS
<1>6. DOMAIN rows = Before(n) /\ \A j \in Before(n) : IsSaid(j, rows[j].is)
  BY <1>1, <1>5, AheadFits
<1>7. m \in Held /\ i \in Id /\ About(i, x)
  BY <1>2, <1>3, <1>4 DEF Held, IInv, HeldFits
<1>8. Refs(x) \subseteq DOMAIN rows
  BY <1>2, <1>4, <1>6 DEF IInv, Closed
<1>9. \A k \in {"vehicle", "partType", "odometerLog"} : Has(x, k) => x[k] \in DOMAIN rows
  BY <1>8 DEF Refs, Has
<1>10. /\ Has(x, "vehicle") => x.vehicle \in DOMAIN rows
       /\ Has(x, "partType") => x.partType \in DOMAIN rows
       /\ Has(x, "odometerLog") => x.odometerLog \in DOMAIN rows
  BY <1>9
<1>11. ASSUME Has(x, "odometerLog") PROVE rows[x.odometerLog].is.vehicle = x.vehicle
  <2>1. i \in Fuel
    BY <1>7, <1>11, FieldsOfId DEF Has, About, Id
  <2>2. x.odometerLog \in Odometer /\ x.vehicle \in Vehicle
    BY <1>7, <1>11, <2>1 DEF Has, About
  <2>3. PICK o \in Odometer : o = x.odometerLog
    BY <2>2
  <2>4. Says(m, o, x.vehicle)
    BY <1>3, <1>4, <2>1, <2>3 DEF Says
  <2>5. o \in DOMAIN rows
    BY <1>10, <1>11, <2>3
  <2>6. IsSaid(o, rows[o].is)
    BY <1>6, <2>5
  <2>7. rows[o].is.vehicle = x.vehicle
    BY <1>7, <2>2, <2>4, <2>6, SaidFits
  <2> QED BY <2>3, <2>7
<1>12. ASSUME i \in Reminder, NEW r \in (Reminder \intersect DOMAIN rows) \ {i}
       PROVE  <<rows[r].is.vehicle, rows[r].is.partType>> # <<x.vehicle, x.partType>>
  <2>1. About(r, rows[r].is)
    BY <1>6, <1>12, SaidFits
  <2>2. /\ rows[r].is.vehicle = r.vehicle /\ rows[r].is.partType = r.partType /\ ~r.twin
        /\ x.vehicle = i.vehicle /\ x.partType = i.partType /\ ~i.twin
    BY <1>7, <1>12, <2>1 DEF About
  <2>3. ~(r.vehicle = i.vehicle /\ r.partType = i.partType)
    BY <1>12, <2>2, SameReminder
  <2> QED BY <2>2, <2>3
<1>13. References(rows, i, x)
  BY <1>10, <1>11, <1>12 DEF References
<1> QED BY <1>2, <1>3, <1>4, <1>5, <1>13

\* Whatever either device did meanwhile, the server takes the whole outbox in its
\* order, up to an amount its columns round to nothing.
THEOREM QueueIsAccepted == Spec => []QueueIsAcceptable
<1>1. ASSUME IInv PROVE QueueIsAcceptable
  <2> SUFFICES ASSUME NEW n \in DOMAIN outbox
               PROVE  /\ References(Ahead[n - 1].rows, outbox[n].id, outbox[n].payload)
                      /\ Storable(outbox[n].payload) \/ Vanishes(outbox[n].payload)
    BY DEF QueueIsAcceptable
  <2>1. outbox[n] \in Held
    BY DEF Held
  <2>2. outbox[n].id \in Id /\ About(outbox[n].id, outbox[n].payload) /\ Amounts(outbox[n].id, outbox[n].payload)
    BY <1>1, <2>1 DEF IInv, HeldFits
  <2> QED BY <1>1, <2>2, ReferencesHold, StorableOrVanishes
<1>2. IInv => QueueIsAcceptable
  BY <1>1
<1> QED BY <1>2, InvariantHolds, PTL

-----------------------------------------------------------------------------
(* What two devices show *)

LEMMA SetToSeqIs ==
  ASSUME NEW S, IsFiniteSet(S)
  PROVE  LET s == SetToSeq(S) IN
         /\ s \in Seq(S)
         /\ \A n, k \in DOMAIN s : s[n] = s[k] => n = k
         /\ \A x \in S : \E n \in DOMAIN s : s[n] = x
<1>1. PICK c \in Nat : c = Cardinality(S) /\ ExistsBijection(1 .. c, S)
  BY FS_CardinalityType
<1>2. \E f \in [1 .. c -> S] : IsInjective(f)
  BY <1>1 DEF ExistsBijection, Bijection, Injection
<1>3. PICK s : s = SetToSeq(S)
  OBVIOUS
<1>4. s \in [1 .. c -> S] /\ IsInjective(s)
  BY <1>1, <1>2, <1>3 DEF SetToSeq
<1>5. s \in Injection(1 .. c, S)
  BY <1>4 DEF Injection
<1>6. IsFiniteSet(1 .. c) /\ Cardinality(1 .. c) = c
  BY <1>1, FS_Interval
<1>7. s \in Surjection(1 .. c, S)
  BY <1>1, <1>5, <1>6, FS_Injection
<1>8. \A x \in S : \E n \in 1 .. c : s[n] = x
  BY <1>7 DEF Surjection
<1> QED BY <1>3, <1>4, <1>8 DEF IsInjective

LEMMA Greatest ==
  ASSUME NEW b \in Nat, NEW T \in SUBSET (0 .. b), T # {}
  PROVE  \E m \in T : \A k \in T : k <= m
<1>1. PICK U : U = {b - k : k \in T}
  OBVIOUS
<1>2. U \in SUBSET Nat /\ U # {}
  <2>1. \A k \in T : b - k \in Nat
    OBVIOUS
  <2>2. \A u \in U : \E k \in T : u = b - k
    BY <1>1
  <2>3. PICK k \in T : TRUE
    OBVIOUS
  <2>4. b - k \in U
    BY <1>1, <2>3
  <2> QED BY <2>1, <2>2, <2>4
<1>3. PICK u \in U : \A x \in U : u <= x
  BY <1>2, Least
<1>4. PICK m \in T : u = b - m
  BY <1>1, <1>3
<1>5. \A k \in T : b - m <= b - k
  BY <1>1, <1>3, <1>4
<1>6. \A k \in T : k <= m
  BY <1>5
<1> QED BY <1>6

\* Two sets of rows that differ in createdAtClient at most, with every row stamped and
\* the stamps of what is not seeded distinct
Alike(A, B) ==
  /\ DOMAIN A = DOMAIN B
  /\ \A i \in DOMAIN A : A[i].is = B[i].is /\ A[i].synced = B[i].synced /\ A[i].synced \in 1 .. seq
  /\ \A i, j \in DOMAIN A \ Seeded : A[i].synced = A[j].synced => i = j

LEMMA SyncedIsAlike ==
  ASSUME IInv, outbox = <<>>, seen = seq
  PROVE  Alike(local, Pulled)
<1>1. PICK B : B = Pulled
  OBVIOUS
<1>2. /\ TypeOK /\ Queued = {}
  BY DEF IInv, Queued
<1>3. /\ seq \in Nat /\ \A i \in DOMAIN server : server[i].synced \in 1 .. seq
  BY <1>2 DEF TypeOK
<1>4. DOMAIN local = DOMAIN server
  <2>1. DOMAIN local \subseteq DOMAIN server
    BY <1>2 DEF IInv, Known
  <2>2. \A i \in DOMAIN server : server[i].synced <= seen
    BY <1>3
  <2> QED BY <2>1, <2>2 DEF IInv, Pulling
<1>5. \A i \in DOMAIN local : local[i].is = server[i].is /\ local[i].synced = server[i].synced
  <2>1. \A i \in DOMAIN server : ~(server[i].synced > seen)
    BY <1>3
  <2> QED BY <1>2, <1>4, <2>1 DEF IInv, UpToDate
<1>6. /\ DOMAIN B = DOMAIN server
      /\ \A i \in DOMAIN server : B[i].is = server[i].is /\ B[i].synced = server[i].synced
  BY <1>1 DEF Pulled, applyEntityChange
<1>7. \A i, j \in DOMAIN server \ Seeded : server[i].synced = server[j].synced => i = j
  BY <1>2 DEF IInv, Numbered
<1>8. Alike(local, B)
  BY <1>3, <1>4, <1>5, <1>6, <1>7 DEF Alike
<1> QED BY <1>1, <1>8

LEMMA AlikeOfVehicle ==
  ASSUME NEW A, NEW B, Alike(A, B), NEW S, NEW v
  PROVE  OfVehicle(A, S, v) = OfVehicle(B, S, v) /\ OfVehicle(A, S, v) \subseteq S \intersect DOMAIN A
BY DEF Alike, OfVehicle

LEMMA AlikeLogs ==
  ASSUME NEW A, NEW B, Alike(A, B), NEW ids \in SUBSET DOMAIN A, IsFiniteSet(ids)
  PROVE  Logs(A, ids) = Logs(B, ids)
<1>1. PICK s : s = SetToSeq(ids)
  OBVIOUS
<1>2. s \in Seq(ids)
  BY <1>1, SetToSeqIs
<1>3. \A n \in DOMAIN s : s[n] \in DOMAIN A
  BY <1>2
<1>4. \A n \in DOMAIN s : A[s[n]].is = B[s[n]].is
  BY <1>3 DEF Alike
<1>5. [n \in DOMAIN s |-> A[s[n]].is] = [n \in DOMAIN s |-> B[s[n]].is]
  BY <1>4
<1> QED BY <1>1, <1>5 DEF Logs

LEMMA TablesAreFinite ==
  ASSUME NEW S \in {Odometer, Fuel, Service}, NEW T \in SUBSET S
  PROVE  IsFiniteSet(T)
BY IdAssumption, FS_Subset

\* The ids of the readings of a vehicle, in the order of the logs
ReadingIds(rows, v) ==
  SetToSeq(OfVehicle(rows, Odometer, v))
    \o SetToSeq({s \in OfVehicle(rows, Service, v) : rows[s].is.km # None})

\* Each reading is of a row of its own.
LEMMA ReadingsAreOfRows ==
  ASSUME NEW A, NEW v
  PROVE  LET ids == ReadingIds(A, v)
             logs == ReadingsOf(A, v)
         IN /\ Len(ids) \in Nat /\ DOMAIN ids = 1 .. Len(ids) /\ DOMAIN logs = DOMAIN ids
            /\ logs = <<>> <=> DOMAIN ids = {}
            /\ \A n \in DOMAIN ids :
                 /\ ids[n] \in OfVehicle(A, Odometer, v) \union OfVehicle(A, Service, v)
                 /\ ids[n] \in OfVehicle(A, Service, v) => A[ids[n]].is.km # None
                 /\ logs[n] = Reading(A[ids[n]])
            /\ \A n, k \in DOMAIN ids : ids[n] = ids[k] => n = k
            /\ \A i \in OfVehicle(A, Odometer, v) : \E n \in DOMAIN ids : ids[n] = i
            /\ \A i \in OfVehicle(A, Service, v) : A[i].is.km # None => \E n \in DOMAIN ids : ids[n] = i
<1>1. PICK O : O = OfVehicle(A, Odometer, v)
  OBVIOUS
<1>2. PICK S : S = {s \in OfVehicle(A, Service, v) : A[s].is.km # None}
  OBVIOUS
<1>3. O \subseteq Odometer /\ S \subseteq Service /\ S \subseteq OfVehicle(A, Service, v)
  BY <1>1, <1>2 DEF OfVehicle
<1>4. IsFiniteSet(O) /\ IsFiniteSet(S)
  BY <1>3, TablesAreFinite
<1>5. PICK p : p = SetToSeq(O)
  OBVIOUS
<1>6. PICK q : q = SetToSeq(S)
  OBVIOUS
<1>7. /\ p \in Seq(O) /\ \A n, k \in DOMAIN p : p[n] = p[k] => n = k
      /\ \A x \in O : \E n \in DOMAIN p : p[n] = x
  BY <1>4, <1>5, SetToSeqIs
<1>8. /\ q \in Seq(S) /\ \A n, k \in DOMAIN q : q[n] = q[k] => n = k
      /\ \A x \in S : \E n \in DOMAIN q : q[n] = x
  BY <1>4, <1>6, SetToSeqIs
<1>9. PICK ids : ids = p \o q
  OBVIOUS
<1>10. ids = ReadingIds(A, v)
  BY <1>1, <1>2, <1>5, <1>6, <1>9 DEF ReadingIds
<1>11. PICK logs : logs = ReadingsOf(A, v)
  OBVIOUS
<1>12. logs = [n \in DOMAIN ids |-> Reading(A[ids[n]])]
  BY <1>1, <1>2, <1>5, <1>6, <1>9, <1>11 DEF ReadingsOf
<1>13. /\ Len(p) \in Nat /\ Len(q) \in Nat /\ DOMAIN p = 1 .. Len(p) /\ DOMAIN q = 1 .. Len(q)
       /\ \A n \in DOMAIN p : p[n] \in O
       /\ \A n \in DOMAIN q : q[n] \in S
  BY <1>7, <1>8
<1>14. /\ Len(ids) = Len(p) + Len(q) /\ DOMAIN ids = 1 .. Len(ids)
       /\ \A n \in 1 .. Len(p) : ids[n] = p[n]
       /\ \A n \in 1 .. Len(q) : ids[Len(p) + n] = q[n]
  BY <1>7, <1>8, <1>9, Concatenated
<1>15. PICK a \in Nat : a = Len(p)
  BY <1>13
<1>16. PICK b \in Nat : b = Len(q)
  BY <1>13
<1>17. /\ Len(ids) = a + b /\ DOMAIN ids = 1 .. a + b
       /\ \A n \in 1 .. a : ids[n] = p[n] /\ p[n] \in O
       /\ \A n \in 1 .. b : ids[a + n] = q[n] /\ q[n] \in S
  BY <1>13, <1>14, <1>15, <1>16
<1>18. \A n \in DOMAIN ids : \/ n \in 1 .. a
                             \/ n - a \in 1 .. b /\ a + (n - a) = n
  BY <1>17
<1>19. \A n \in DOMAIN ids : \/ n \in 1 .. a /\ ids[n] = p[n] /\ ids[n] \in O
                             \/ n - a \in 1 .. b /\ ids[n] = q[n - a] /\ ids[n] \in S
  BY <1>17, <1>18
<1>20. O \intersect S = {}
  BY <1>3, IdAssumption
<1>21. ASSUME NEW n \in DOMAIN ids, NEW k \in DOMAIN ids, ids[n] = ids[k] PROVE n = k
  <2>1. CASE ids[n] \in O
    <3>1. n \in 1 .. a /\ k \in 1 .. a /\ p[n] = p[k]
      BY <1>19, <1>20, <1>21, <2>1
    <3> QED BY <1>7, <1>13, <1>15, <3>1
  <2>2. CASE ids[n] \notin O
    <3>1. n - a \in 1 .. b /\ k - a \in 1 .. b /\ q[n - a] = q[k - a]
      BY <1>19, <1>21, <2>2
    <3>2. n - a = k - a
      BY <1>8, <1>13, <1>16, <3>1
    <3>3. n \in Int /\ k \in Int
      BY <1>17
    <3> QED BY <3>2, <3>3
  <2> QED BY <2>1, <2>2
<1>22. \A x \in O : \E n \in DOMAIN ids : ids[n] = x
  <2> SUFFICES ASSUME NEW x \in O PROVE \E n \in DOMAIN ids : ids[n] = x
    OBVIOUS
  <2>1. PICK n \in 1 .. a : p[n] = x
    BY <1>7, <1>13, <1>15
  <2> QED BY <1>17, <2>1
<1>23. \A x \in S : \E n \in DOMAIN ids : ids[n] = x
  <2> SUFFICES ASSUME NEW x \in S PROVE \E n \in DOMAIN ids : ids[n] = x
    OBVIOUS
  <2>1. PICK n \in 1 .. b : q[n] = x
    BY <1>8, <1>13, <1>16
  <2>2. a + n \in DOMAIN ids
    BY <1>17
  <2> QED BY <1>17, <2>1, <2>2
<1>24. \A n \in DOMAIN ids : ids[n] \in S => A[ids[n]].is.km # None
  BY <1>2
<1>25. logs = <<>> <=> DOMAIN ids = {}
  <2>1. PICK N \in Nat : N = a + b
    OBVIOUS
  <2>2. PICK R : R = {logs[n] : n \in DOMAIN ids}
    OBVIOUS
  <2>3. DOMAIN logs = 1 .. N /\ DOMAIN ids = 1 .. N /\ logs = [n \in 1 .. N |-> logs[n]]
    BY <1>12, <1>17, <2>1
  <2>4. logs \in Seq(R) /\ Len(logs) = N
    BY <2>1, <2>2, <2>3
  <2>5. logs = <<>> <=> N = 0
    BY <2>4
  <2> QED BY <2>3, <2>5
<1>26. \A n \in DOMAIN ids :
         /\ ids[n] \in O \union OfVehicle(A, Service, v)
         /\ ids[n] \in OfVehicle(A, Service, v) => A[ids[n]].is.km # None
  <2>1. OfVehicle(A, Service, v) \intersect O = {}
    BY <1>1, IdAssumption DEF OfVehicle
  <2> QED BY <1>3, <1>19, <1>24, <2>1
<1>27. \A i \in OfVehicle(A, Service, v) : A[i].is.km # None => i \in S
  BY <1>2
<1>28. Len(ids) \in Nat /\ DOMAIN ids = 1 .. Len(ids) /\ DOMAIN logs = DOMAIN ids
  BY <1>12, <1>14, <1>17
<1>29. \A n \in DOMAIN ids : logs[n] = Reading(A[ids[n]])
  BY <1>12
<1>30. \A n, k \in DOMAIN ids : ids[n] = ids[k] => n = k
  BY <1>21
<1> QED BY ONLY <1>1, <1>10, <1>11, <1>22, <1>23, <1>25, <1>26, <1>27, <1>28, <1>29, <1>30

Later(a, b) == a.at > b.at \/ (a.at = b.at /\ a.synced > b.synced)

\* Among stamped readings no two of which are of one time and one stamp, the newest is
\* the last by time, then by stamp; and there is one.
LEMMA NewestIsLast ==
  ASSUME NEW b \in Nat, NEW c \in Nat, NEW logs, DOMAIN logs # {},
         \A n \in DOMAIN logs : logs[n].at \in 0 .. b /\ logs[n].synced \in 0 .. c,
         \A n, k \in DOMAIN logs : logs[n].at = logs[k].at /\ logs[n].synced = logs[k].synced => n = k
  PROVE  /\ Newest(logs) = {n \in DOMAIN logs : \A k \in DOMAIN logs \ {n} : Later(logs[n], logs[k])}
         /\ Newest(logs) # {}
<1>1. ASSUME NEW n \in DOMAIN logs, NEW k \in DOMAIN logs \ {n}
      PROVE  isNewer(logs[n], logs[k], n, k) <=> Later(logs[n], logs[k])
  <2>1. logs[n].synced # None /\ logs[k].synced # None
    BY NoneIsNoId
  <2>2. logs[n].at # logs[k].at \/ logs[n].synced # logs[k].synced
    OBVIOUS
  <2>3. logs[n].at \in Int /\ logs[k].at \in Int
    OBVIOUS
  <2> QED BY <2>1, <2>2, <2>3 DEF isNewer, Later
<1>2. Newest(logs) = {n \in DOMAIN logs : \A k \in DOMAIN logs \ {n} : Later(logs[n], logs[k])}
  BY <1>1 DEF Newest
<1>3. PICK T : T = {logs[n].at : n \in DOMAIN logs}
  OBVIOUS
<1>4. T \in SUBSET (0 .. b) /\ T # {}
  <2>1. \A t \in T : \E n \in DOMAIN logs : t = logs[n].at
    BY <1>3
  <2>2. PICK n \in DOMAIN logs : TRUE
    OBVIOUS
  <2>3. logs[n].at \in T
    BY <1>3, <2>2
  <2> QED BY <2>1, <2>3
<1>5. PICK t \in T : \A x \in T : x <= t
  BY <1>4, Greatest
<1>6. PICK M : M = {n \in DOMAIN logs : logs[n].at = t}
  OBVIOUS
<1>7. PICK U : U = {logs[n].synced : n \in M}
  OBVIOUS
<1>8. U \in SUBSET (0 .. c) /\ U # {}
  <2>1. \A u \in U : \E n \in DOMAIN logs : u = logs[n].synced
    BY <1>6, <1>7
  <2>2. PICK n \in DOMAIN logs : logs[n].at = t
    BY <1>3, <1>5
  <2>3. logs[n].synced \in U
    BY <1>6, <1>7, <2>2
  <2> QED BY <2>1, <2>3
<1>9. PICK u \in U : \A x \in U : x <= u
  BY <1>8, Greatest
<1>10. PICK n \in M : logs[n].synced = u
  BY <1>7, <1>9
<1>11. n \in DOMAIN logs /\ logs[n].at = t
  BY <1>6, <1>10
<1>12. \A k \in DOMAIN logs \ {n} : Later(logs[n], logs[k])
  <2> SUFFICES ASSUME NEW k \in DOMAIN logs \ {n} PROVE Later(logs[n], logs[k])
    OBVIOUS
  <2>1. logs[k].at <= t /\ t \in Int /\ u \in Int
    BY <1>3, <1>4, <1>5, <1>8
  <2>2. CASE logs[k].at = t
    <3>1. logs[k].synced <= u
      BY <1>6, <1>7, <1>9, <2>2
    <3>2. logs[k].synced # u
      BY <1>10, <1>11, <2>2
    <3> QED BY <1>10, <1>11, <2>1, <2>2, <3>1, <3>2 DEF Later
  <2>3. CASE logs[k].at # t
    <3>1. logs[n].at > logs[k].at
      BY <1>11, <2>1, <2>3
    <3> QED BY <3>1 DEF Later
  <2> QED BY <2>2, <2>3
<1> QED BY <1>2, <1>11, <1>12

LEMMA ReadingFields ==
  ASSUME NEW row
  PROVE  /\ Reading(row).km = row.is.km /\ Reading(row).at = row.is.at
         /\ Reading(row).synced = row.synced
BY DEF Reading

LEMMA AlikeOdometer ==
  ASSUME NEW A, NEW B, Alike(A, B), IInv,
         \A i \in DOMAIN A : i \in Id /\ About(i, A[i].is), NEW v \in Vehicle
  PROVE  getCurrentOdometer(A, v) = getCurrentOdometer(B, v)
<1>1. assertVehicleOwned(A, v) <=> assertVehicleOwned(B, v)
  BY DEF Alike, assertVehicleOwned
<1>2. PICK ids : ids = ReadingIds(A, v)
  OBVIOUS
<1>3. PICK s : s = ReadingsOf(A, v)
  OBVIOUS
<1>4. PICK t : t = ReadingsOf(B, v)
  OBVIOUS
<1>5. ids = ReadingIds(B, v)
  <2>1. \A i \in OfVehicle(A, Service, v) : A[i].is.km # None <=> B[i].is.km # None
    BY AlikeOfVehicle DEF Alike
  <2>2. {i \in OfVehicle(A, Service, v) : A[i].is.km # None} = {i \in OfVehicle(B, Service, v) : B[i].is.km # None}
    BY <2>1, AlikeOfVehicle
  <2>3. OfVehicle(A, Odometer, v) = OfVehicle(B, Odometer, v)
    BY AlikeOfVehicle
  <2> QED BY <1>2, <2>2, <2>3 DEF ReadingIds
<1>6. /\ DOMAIN s = DOMAIN ids /\ (s = <<>> <=> DOMAIN ids = {})
      /\ \A n \in DOMAIN ids : s[n] = Reading(A[ids[n]])
      /\ \A n \in DOMAIN ids : ids[n] \in OfVehicle(A, Odometer, v) \union OfVehicle(A, Service, v)
      /\ \A n, k \in DOMAIN ids : ids[n] = ids[k] => n = k
  BY <1>2, <1>3, ReadingsAreOfRows
<1>7. /\ DOMAIN t = DOMAIN ids /\ (t = <<>> <=> DOMAIN ids = {})
      /\ \A n \in DOMAIN ids : t[n] = Reading(B[ids[n]])
  BY <1>4, <1>5, ReadingsAreOfRows
<1>8. \A n \in DOMAIN ids : ids[n] \in DOMAIN A /\ ids[n] \in Odometer \union Service
  BY <1>6 DEF OfVehicle
<1>9. \A n \in DOMAIN ids : ids[n] \notin Seeded
  BY <1>8, SeededAssumption, IdAssumption
<1>10. /\ clock \in Nat /\ seq \in Nat
       /\ \A n \in DOMAIN ids : /\ s[n].at \in 0 .. clock /\ s[n].synced \in 0 .. seq
                                /\ s[n].at = t[n].at /\ s[n].synced = t[n].synced /\ s[n].km = t[n].km
  <2>1. clock \in Nat /\ seq \in Nat
    BY DEF IInv, TypeOK
  <2>2. SUFFICES ASSUME NEW n \in DOMAIN ids
               PROVE  /\ s[n].at \in 0 .. clock /\ s[n].synced \in 0 .. seq
                      /\ s[n].at = t[n].at /\ s[n].synced = t[n].synced /\ s[n].km = t[n].km
    BY <2>1
  <2>3. PICK i \in DOMAIN A : i = ids[n] /\ i \in Odometer \union Service
    BY <1>8
  <2>4. A[i].is = B[i].is /\ A[i].synced = B[i].synced /\ A[i].synced \in 1 .. seq
    BY <2>3 DEF Alike
  <2>5. A[i].is.at \in 1 .. clock
    BY <2>3 DEF About
  <2>6. /\ s[n].km = A[i].is.km /\ s[n].at = A[i].is.at /\ s[n].synced = A[i].synced
        /\ t[n].km = B[i].is.km /\ t[n].at = B[i].is.at /\ t[n].synced = B[i].synced
    BY <1>6, <1>7, <2>3, ReadingFields
  <2> QED BY <2>1, <2>4, <2>5, <2>6
<1>11. \A n, k \in DOMAIN ids : s[n].synced = s[k].synced => n = k
  <2> SUFFICES ASSUME NEW n \in DOMAIN ids, NEW k \in DOMAIN ids, s[n].synced = s[k].synced PROVE n = k
    OBVIOUS
  <2>1. A[ids[n]].synced = A[ids[k]].synced
    BY <1>6, ReadingFields
  <2>2. ids[n] = ids[k]
    BY <1>8, <1>9, <2>1 DEF Alike
  <2> QED BY <1>6, <2>2
<1>12. CASE DOMAIN ids = {}
  <2>1. s = <<>> /\ t = <<>>
    BY <1>6, <1>7, <1>12
  <2> QED BY <1>1, <1>3, <1>4, <2>1 DEF getCurrentOdometer
<1>13. CASE DOMAIN ids # {}
  <2>1. /\ Newest(s) = {n \in DOMAIN s : \A k \in DOMAIN s \ {n} : Later(s[n], s[k])}
        /\ Newest(s) # {}
    <3>1. \A n \in DOMAIN s : s[n].at \in 0 .. clock /\ s[n].synced \in 0 .. seq
      BY <1>6, <1>10
    <3>2. \A n, k \in DOMAIN s : s[n].at = s[k].at /\ s[n].synced = s[k].synced => n = k
      BY <1>6, <1>11
    <3>3. DOMAIN s # {} /\ clock \in Nat /\ seq \in Nat
      BY <1>6, <1>10, <1>13
    <3> QED BY ONLY <3>1, <3>2, <3>3, NewestIsLast
  <2>2. /\ Newest(t) = {n \in DOMAIN t : \A k \in DOMAIN t \ {n} : Later(t[n], t[k])}
        /\ Newest(t) # {}
    <3>1. \A n \in DOMAIN t : t[n].at \in 0 .. clock /\ t[n].synced \in 0 .. seq
      BY <1>7, <1>10
    <3>2. \A n, k \in DOMAIN t : t[n].at = t[k].at /\ t[n].synced = t[k].synced => n = k
      BY <1>7, <1>10, <1>11
    <3>3. DOMAIN t # {} /\ clock \in Nat /\ seq \in Nat
      BY <1>7, <1>10, <1>13
    <3> QED BY ONLY <3>1, <3>2, <3>3, NewestIsLast
  <2>3. ASSUME NEW n \in DOMAIN ids, NEW k \in DOMAIN ids
        PROVE  Later(s[n], s[k]) <=> Later(t[n], t[k])
    <3>1. /\ s[n].at = t[n].at /\ s[n].synced = t[n].synced
          /\ s[k].at = t[k].at /\ s[k].synced = t[k].synced
      BY <1>10
    <3> QED BY <3>1 DEF Later
  <2>4. Newest(s) = Newest(t)
    BY <1>6, <1>7, <2>1, <2>2, <2>3
  <2>5. PICK n : n = CHOOSE k \in Newest(s) : TRUE
    OBVIOUS
  <2>6. n \in Newest(s)
    BY <2>1, <2>5
  <2>7. n \in DOMAIN ids
    BY <1>6, <2>6 DEF Newest
  <2>8. deriveLatestOdometerLog(s) = s[n] /\ deriveLatestOdometerLog(t) = t[n]
    BY <2>4, <2>5 DEF deriveLatestOdometerLog
  <2>9. s # <<>> /\ t # <<>>
    BY <1>6, <1>7, <1>13
  <2>10. deriveCurrentOdometer(s) = deriveCurrentOdometer(t)
    BY <1>10, <2>7, <2>8, <2>9 DEF deriveCurrentOdometer
  <2> QED BY <1>1, <1>3, <1>4, <2>10 DEF getCurrentOdometer
<1> QED BY <1>12, <1>13

LEMMA AlikeReminders ==
  ASSUME NEW A, NEW B, Alike(A, B), NEW v, NEW zone, NEW now,
         getCurrentOdometer(A, v) = getCurrentOdometer(B, v)
  PROVE  listReminderStatusesForVehicle(A, v, zone, now) = listReminderStatusesForVehicle(B, v, zone, now)
<1> DEFINE Ratio(R) == IF v \notin DOMAIN R \/ R[v].is.dueSoonRatio = None
                         THEN DUE_SOON_REMAINING_RATIO ELSE R[v].is.dueSoonRatio
           On(R) == {r \in OfVehicle(R, Reminder, v) :
                       R[r].is.enabled /\ R[r].is.partType \in DOMAIN R}
           Status(R, r) == calculateReminderStatus(R[r].is, getCurrentOdometer(R, v),
                             lastServiceLog(R, v, R[r].is.partType), now, zone, Ratio(R))
<1>1. Ratio(A) = Ratio(B)
  BY DEF Alike
<1>2. On(A) = On(B) /\ On(A) \subseteq DOMAIN A
  <2>1. OfVehicle(A, Reminder, v) = OfVehicle(B, Reminder, v) /\ OfVehicle(A, Reminder, v) \subseteq DOMAIN A
    BY AlikeOfVehicle
  <2>2. \A r \in OfVehicle(A, Reminder, v) : A[r].is = B[r].is
    BY <2>1 DEF Alike
  <2> QED BY <2>1, <2>2 DEF Alike
<1>3. ASSUME NEW p PROVE lastServiceLog(A, v, p) = lastServiceLog(B, v, p)
  <2>1. PICK S : S = {s \in OfVehicle(A, Service, v) : A[s].is.partType = p}
    OBVIOUS
  <2>2. /\ OfVehicle(A, Service, v) = OfVehicle(B, Service, v)
        /\ OfVehicle(A, Service, v) \subseteq Service \intersect DOMAIN A
    BY AlikeOfVehicle
  <2>3. \A s \in OfVehicle(A, Service, v) : A[s].is = B[s].is
    BY <2>2 DEF Alike
  <2>4. S = {s \in OfVehicle(B, Service, v) : B[s].is.partType = p}
    BY <2>1, <2>2, <2>3
  <2>5. IsFiniteSet(S) /\ S \subseteq DOMAIN A
    BY <2>1, <2>2, TablesAreFinite
  <2>6. Logs(A, S) = Logs(B, S)
    BY <2>5, AlikeLogs
  <2> QED BY <2>1, <2>4, <2>6 DEF lastServiceLog
<1>4. \A r \in On(A) : Status(A, r) = Status(B, r)
  <2> SUFFICES ASSUME NEW r \in On(A) PROVE Status(A, r) = Status(B, r)
    OBVIOUS
  <2>1. A[r].is = B[r].is
    <3> HIDE DEF On
    <3> QED BY <1>2 DEF Alike
  <2>2. lastServiceLog(A, v, A[r].is.partType) = lastServiceLog(B, v, B[r].is.partType)
    BY <1>3, <2>1
  <2> HIDE DEF Ratio
  <2> QED BY <1>1, <2>1, <2>2
<1>5. /\ listReminderStatusesForVehicle(A, v, zone, now) = [r \in On(A) |-> Status(A, r)]
      /\ listReminderStatusesForVehicle(B, v, zone, now) = [r \in On(B) |-> Status(B, r)]
  BY DEF listReminderStatusesForVehicle
<1> HIDE DEF On, Status
<1>6. [r \in On(A) |-> Status(A, r)] = [r \in On(B) |-> Status(B, r)]
  BY <1>2, <1>4
<1> QED BY <1>5, <1>6

LEMMA AlikeShown ==
  ASSUME NEW A, NEW B, Alike(A, B), IInv,
         \A i \in DOMAIN A : i \in Id /\ About(i, A[i].is), NEW v \in Vehicle, NEW zone
  PROVE  Shown(A, v, zone) = Shown(B, v, zone)
<1>1. assertVehicleOwned(A, v) <=> assertVehicleOwned(B, v)
  BY DEF Alike, assertVehicleOwned
<1>2. \A S \in {Odometer, Fuel, Service} :
        Logs(A, OfVehicle(A, S, v)) = Logs(B, OfVehicle(B, S, v))
  <2> SUFFICES ASSUME NEW S \in {Odometer, Fuel, Service}
               PROVE  Logs(A, OfVehicle(A, S, v)) = Logs(B, OfVehicle(B, S, v))
    OBVIOUS
  <2>1. /\ OfVehicle(A, S, v) = OfVehicle(B, S, v)
        /\ OfVehicle(A, S, v) \subseteq S \intersect DOMAIN A
    BY AlikeOfVehicle
  <2>2. IsFiniteSet(OfVehicle(A, S, v))
    BY <2>1, TablesAreFinite
  <2> QED BY <2>1, <2>2, AlikeLogs
<1>3. getCurrentOdometer(A, v) = getCurrentOdometer(B, v)
  BY AlikeOdometer
<1>4. listReminderStatusesForVehicle(A, v, zone, clock) = listReminderStatusesForVehicle(B, v, zone, clock)
  BY <1>3, AlikeReminders
<1>5. /\ Logs(A, OfVehicle(A, Odometer, v)) = Logs(B, OfVehicle(B, Odometer, v))
      /\ Logs(A, OfVehicle(A, Fuel, v)) = Logs(B, OfVehicle(B, Fuel, v))
      /\ Logs(A, OfVehicle(A, Service, v)) = Logs(B, OfVehicle(B, Service, v))
  BY <1>2
<1>6. getMonthlyCosts(A, v, zone) = getMonthlyCosts(B, v, zone)
  BY <1>1, <1>5 DEF getMonthlyCosts
<1>7. getCostPerKm(A, v, clock) = getCostPerKm(B, v, clock)
  BY <1>1, <1>5 DEF getCostPerKm
<1>8. listVehicles(A, FALSE) = listVehicles(B, FALSE)
  BY DEF listVehicles, assertVehicleOwned, Alike
<1> QED BY <1>3, <1>4, <1>6, <1>7, <1>8 DEF Shown

\* A device that has pushed and pulled everything shows what every other device does.
THEOREM DevicesAgree == Spec => []SyncedDevicesAgree
<1>1. ASSUME IInv PROVE SyncedDevicesAgree
  <2> SUFFICES ASSUME outbox = <<>>, seen = seq, NEW v \in Vehicle, NEW zone \in Offset
               PROVE  Shown(local, v, zone) = Shown(Pulled, v, zone)
    BY DEF SyncedDevicesAgree
  <2>1. Alike(local, Pulled)
    BY <1>1, SyncedIsAlike
  <2>2. \A i \in DOMAIN local : i \in Id /\ About(i, local[i].is)
    <3> SUFFICES ASSUME NEW i \in DOMAIN local PROVE i \in Id /\ About(i, local[i].is)
      OBVIOUS
    <3>1. PICK m : m = [id |-> i, payload |-> local[i].is]
      OBVIOUS
    <3>2. m \in Held
      BY <3>1 DEF Held
    <3>3. m.id = i /\ m.payload = local[i].is
      BY <3>1
    <3> QED BY <1>1, <3>2, <3>3 DEF IInv, HeldFits
  <2> QED BY <1>1, <2>1, <2>2, AlikeShown
<1>2. IInv => SyncedDevicesAgree
  BY <1>1
<1> QED BY <1>2, InvariantHolds, PTL

-----------------------------------------------------------------------------
(* A service resets its reminder *)

\* A service of a vehicle there is, noted now with the odometer and later than every other
\* event, leaves no reminder of its vehicle and part type due.
ServiceCounts ==
  \A s \in Service \intersect DOMAIN local, zone \in Offset :
    LET log    == local[s].is
        others == ((Odometer \union Service) \intersect DOMAIN local) \ {s}
    IN /\ ~log.deleted /\ log.km # None /\ log.at = clock
       /\ assertVehicleOwned(local, log.vehicle)
       /\ \A i \in others : local[i].is.at < log.at
       => \A r \in Reminder :
            r \in DOMAIN listReminderStatusesForVehicle(local, log.vehicle, zone, clock)
              /\ local[r].is.partType = log.partType =>
              listReminderStatusesForVehicle(local, log.vehicle, zone, clock)[r] = "not_due"

LEMMA LocalIsHeld ==
  ASSUME IInv, NEW i \in DOMAIN local
  PROVE  i \in Id /\ About(i, local[i].is) /\ Amounts(i, local[i].is)
<1>1. PICK m : m = [id |-> i, payload |-> local[i].is]
  OBVIOUS
<1>2. m \in Held
  BY <1>1 DEF Held
<1>3. m.id = i /\ m.payload = local[i].is
  BY <1>1
<1> QED BY <1>2, <1>3 DEF IInv, HeldFits

\* The last service of its part is the latest one.
LEMMA LastIsLatest ==
  ASSUME IInv, NEW s \in Service \intersect DOMAIN local, NEW log, log = local[s].is, ~log.deleted,
         \A i \in (Service \intersect DOMAIN local) \ {s} : local[i].is.at < log.at
  PROVE  lastServiceLog(local, log.vehicle, log.partType) = log
<1>1. PICK v : v = log.vehicle
  OBVIOUS
<1>2. PICK p : p = log.partType
  OBVIOUS
<1>3. PICK S : S = {x \in OfVehicle(local, Service, v) : local[x].is.partType = p}
  OBVIOUS
<1>4. s \in S /\ S \subseteq Service \intersect DOMAIN local
  BY <1>1, <1>2, <1>3 DEF OfVehicle
<1>5. IsFiniteSet(S)
  BY <1>4, TablesAreFinite
<1>6. PICK ids : ids = SetToSeq(S)
  OBVIOUS
<1>7. /\ ids \in Seq(S) /\ \A n, k \in DOMAIN ids : ids[n] = ids[k] => n = k
      /\ \A x \in S : \E n \in DOMAIN ids : ids[n] = x
  BY <1>5, <1>6, SetToSeqIs
<1>8. \A n \in DOMAIN ids : ids[n] \in S
  BY <1>7
<1>9. PICK logs : logs = Logs(local, S)
  OBVIOUS
<1>10. logs = [n \in DOMAIN ids |-> local[ids[n]].is]
  BY <1>6, <1>9 DEF Logs
<1>11. DOMAIN logs = DOMAIN ids /\ \A n \in DOMAIN ids : logs[n] = local[ids[n]].is
  BY <1>10
<1>12. PICK n \in DOMAIN ids : ids[n] = s
  BY <1>4, <1>7
<1>13. logs[n] = log /\ logs # <<>>
  BY <1>11, <1>12
<1>14. \A i \in Service \intersect DOMAIN local : local[i].is.at \in Int
  BY LocalIsHeld DEF About, IInv, TypeOK
<1>15. log.at \in Int
  BY <1>14
<1>16. \A k \in DOMAIN logs \ {n} : logs[k].at < logs[n].at /\ logs[k].at \in Int
  <2> SUFFICES ASSUME NEW k \in DOMAIN ids \ {n} PROVE logs[k].at < log.at /\ logs[k].at \in Int
    BY <1>11, <1>13
  <2>1. ids[k] \in (Service \intersect DOMAIN local) \ {s}
    BY <1>4, <1>7, <1>8, <1>12
  <2>2. logs[k].at = local[ids[k]].is.at
    BY <1>11
  <2> QED BY <1>14, <2>1, <2>2
<1> DEFINE IsLatest(m) == \A k \in DOMAIN logs \ {m} :
                            logs[k].at < logs[m].at \/ (logs[k].at = logs[m].at /\ m < k)
<1>17. n \in DOMAIN logs /\ IsLatest(n)
  BY <1>11, <1>16
<1>18. ASSUME NEW m \in DOMAIN logs, IsLatest(m) PROVE m = n
  <2> SUFFICES ASSUME m # n PROVE FALSE
    OBVIOUS
  <2>1. logs[n].at < logs[m].at \/ logs[n].at = logs[m].at
    BY <1>11, <1>18
  <2>2. logs[m].at < logs[n].at /\ logs[m].at \in Int /\ logs[n].at \in Int
    BY <1>13, <1>15, <1>16
  <2> QED BY <2>1, <2>2
<1>19. Latest(logs) = logs[CHOOSE m \in DOMAIN logs : IsLatest(m)]
  BY DEF Latest
<1>20. n = CHOOSE m \in DOMAIN logs : IsLatest(m)
  <2> HIDE DEF IsLatest
  <2> QED BY <1>17, <1>18
<1>21. Latest(logs) = log
  BY <1>13, <1>19, <1>20
<1>22. lastServiceLog(local, v, p) = Latest(logs)
  BY <1>3, <1>9, <1>13 DEF lastServiceLog
<1> QED BY <1>1, <1>2, <1>21, <1>22

\* What it read is the odometer of the vehicle.
LEMMA LatestIsCurrent ==
  ASSUME IInv, NEW s \in Service \intersect DOMAIN local, NEW log, log = local[s].is,
         ~log.deleted, log.km # None, assertVehicleOwned(local, log.vehicle),
         \A i \in ((Odometer \union Service) \intersect DOMAIN local) \ {s} : local[i].is.at < log.at
  PROVE  getCurrentOdometer(local, log.vehicle) = log.km
<1>1. PICK v : v = log.vehicle
  OBVIOUS
<1>2. PICK ids : ids = ReadingIds(local, v)
  OBVIOUS
<1>3. PICK logs : logs = ReadingsOf(local, v)
  OBVIOUS
<1>4. /\ DOMAIN logs = DOMAIN ids /\ (logs = <<>> <=> DOMAIN ids = {})
      /\ \A n \in DOMAIN ids : ids[n] \in OfVehicle(local, Odometer, v) \union OfVehicle(local, Service, v)
      /\ \A n \in DOMAIN ids : logs[n] = Reading(local[ids[n]])
      /\ \A n, k \in DOMAIN ids : ids[n] = ids[k] => n = k
      /\ \A i \in OfVehicle(local, Service, v) : local[i].is.km # None => \E n \in DOMAIN ids : ids[n] = i
  BY <1>2, <1>3, ReadingsAreOfRows
<1>5. s \in OfVehicle(local, Service, v)
  BY <1>1 DEF OfVehicle
<1>6. PICK n \in DOMAIN ids : ids[n] = s
  BY <1>4, <1>5
<1>7. logs[n].km = log.km /\ logs[n].at = log.at /\ logs # <<>>
  BY <1>4, <1>6, ReadingFields
<1>8. \A i \in (Odometer \union Service) \intersect DOMAIN local : local[i].is.at \in Int
  BY LocalIsHeld DEF About, IInv, TypeOK
<1>9. \A k \in DOMAIN logs \ {n} : logs[k].at < logs[n].at /\ logs[k].at \in Int /\ logs[n].at \in Int
  <2> SUFFICES ASSUME NEW k \in DOMAIN ids \ {n}
               PROVE  logs[k].at < log.at /\ logs[k].at \in Int /\ log.at \in Int
    BY <1>4, <1>7
  <2>1. ids[k] \in ((Odometer \union Service) \intersect DOMAIN local) \ {s}
    BY <1>4, <1>6 DEF OfVehicle
  <2>2. logs[k].at = local[ids[k]].is.at
    BY <1>4, ReadingFields
  <2> QED BY <1>8, <2>1, <2>2
<1>10. n \in Newest(logs)
  <2>1. \A k \in DOMAIN logs \ {n} : isNewer(logs[n], logs[k], n, k)
    BY <1>9 DEF isNewer
  <2> QED BY <1>4, <2>1 DEF Newest
<1>11. ASSUME NEW m \in Newest(logs) PROVE m = n
  <2> SUFFICES ASSUME m # n PROVE FALSE
    OBVIOUS
  <2>1. m \in DOMAIN logs \ {n} /\ n \in DOMAIN logs \ {m} /\ isNewer(logs[m], logs[n], m, n)
    BY <1>4, <1>11 DEF Newest
  <2>2. logs[m].at < logs[n].at /\ logs[m].at \in Int /\ logs[n].at \in Int
    BY <1>9, <2>1
  <2> QED BY <2>1, <2>2 DEF isNewer
<1>12. n = CHOOSE m \in Newest(logs) : TRUE
  BY <1>10, <1>11
<1>13. deriveCurrentOdometer(logs) = log.km
  BY <1>7, <1>12 DEF deriveCurrentOdometer, deriveLatestOdometerLog
<1> QED BY <1>1, <1>3, <1>13 DEF getCurrentOdometer

LEMMA Calendar ==
  ASSUME NEW t \in Nat, NEW zone \in Nat
  PROVE  toCalendarDateInTimezone(t, zone) \in Int
BY TimeAssumption DEF toCalendarDateInTimezone

LEMMA Product ==
  ASSUME NEW a \in Nat \ {0}, NEW b \in Nat \ {0}
  PROVE  ~(0 >= a * b)
OBVIOUS

\* No kilometre and no day after the last service, no cycle has gone anywhere.
LEMMA NothingUsed ==
  ASSUME NEW config, NEW last, NEW zone \in Nat, NEW now \in Nat, NEW ratio \in Nat \ {0},
         config.everyKm \in Counted, config.everyDays \in Counted,
         config.everyKm # None \/ config.everyDays # None, last.km \in Nat, last.at = now
  PROVE  calculateReminderStatus(config, last.km, last, now, zone, ratio) = "not_due"
<1>1. PICK today : today = toCalendarDateInTimezone(now, zone)
  OBVIOUS
<1>2. today \in Int
  BY <1>1, Calendar
<1>3. last.km # None /\ last.at # None /\ today # None
  BY <1>2, NoneIsNoId
<1>4. last.km - last.km = 0 /\ daysBetweenCalendarDates(today, today) = 0 /\ ~(0 < 0)
  BY <1>2 DEF daysBetweenCalendarDates
<1>5. PICK P : P = Progress(config, last.km, last, now, zone)
  OBVIOUS
<1>6. P = (IF config.everyKm = None THEN {} ELSE {[used |-> 0, of |-> config.everyKm]})
            \union (IF config.everyDays = None THEN {} ELSE {[used |-> 0, of |-> config.everyDays]})
  BY <1>1, <1>3, <1>4, <1>5 DEF Progress
<1>7. P # {}
  BY <1>6
<1>8. \A c \in P : c.used = 0 /\ c.of \in Nat \ {0}
  BY <1>6 DEF Counted
<1>9. \A c \in P : ~(c.used >= c.of) /\ ~(c.used * 100 >= ratio * c.of)
  <2> SUFFICES ASSUME NEW c \in P PROVE ~(c.used >= c.of) /\ ~(c.used * 100 >= ratio * c.of)
    OBVIOUS
  <2>1. PICK of \in Nat \ {0} : of = c.of
    BY <1>8
  <2>2. c.used = 0 /\ 0 * 100 = 0 /\ ~(0 >= of)
    BY <1>8
  <2>3. ~(0 >= ratio * of)
    BY Product
  <2> QED BY <2>1, <2>2, <2>3
<1> QED BY <1>5, <1>7, <1>9 DEF calculateReminderStatus

LEMMA Counts == ASSUME IInv PROVE ServiceCounts
<1> SUFFICES ASSUME NEW s \in Service \intersect DOMAIN local, NEW zone \in Offset,
                    NEW log, log = local[s].is,
                    ~log.deleted, log.km # None, log.at = clock, assertVehicleOwned(local, log.vehicle),
                    \A i \in ((Odometer \union Service) \intersect DOMAIN local) \ {s} :
                      local[i].is.at < log.at,
                    NEW r \in Reminder,
                    r \in DOMAIN listReminderStatusesForVehicle(local, log.vehicle, zone, clock),
                    local[r].is.partType = log.partType
             PROVE  listReminderStatusesForVehicle(local, log.vehicle, zone, clock)[r] = "not_due"
  BY DEF ServiceCounts
<1>1. PICK v : v = log.vehicle
  OBVIOUS
<1>2. lastServiceLog(local, v, log.partType) = log
  BY <1>1, LastIsLatest
<1>3. getCurrentOdometer(local, v) = log.km
  BY <1>1, LatestIsCurrent
<1>4. PICK ratio : ratio = IF v \notin DOMAIN local \/ local[v].is.dueSoonRatio = None
                             THEN DUE_SOON_REMAINING_RATIO ELSE local[v].is.dueSoonRatio
  OBVIOUS
<1>5. PICK on : on = {x \in OfVehicle(local, Reminder, v) :
                        local[x].is.enabled /\ local[x].is.partType \in DOMAIN local}
  OBVIOUS
<1>6. listReminderStatusesForVehicle(local, v, zone, clock) =
        [x \in on |-> calculateReminderStatus(local[x].is, getCurrentOdometer(local, v),
                        lastServiceLog(local, v, local[x].is.partType), clock, zone, ratio)]
  BY <1>4, <1>5 DEF listReminderStatusesForVehicle
<1>7. r \in on /\ r \in DOMAIN local
  <2>1. r \in on
    BY <1>1, <1>6
  <2> QED BY <1>5, <2>1 DEF OfVehicle
<1>8. listReminderStatusesForVehicle(local, v, zone, clock)[r] =
        calculateReminderStatus(local[r].is, log.km, log, clock, zone, ratio)
  BY <1>2, <1>3, <1>6, <1>7
<1>9. /\ local[r].is.everyKm \in Counted /\ local[r].is.everyDays \in Counted
      /\ local[r].is.everyKm # None \/ local[r].is.everyDays # None
  BY <1>7, LocalIsHeld DEF Amounts
<1>10. log.km \in Nat /\ log.vehicle \in Vehicle
  BY LocalIsHeld DEF Amounts, About
<1>11. ratio \in Nat \ {0}
  <2>1. v \in DOMAIN local => local[v].is.dueSoonRatio \in (1 .. 100) \union {None}
    BY <1>1, <1>10, LocalIsHeld DEF Amounts
  <2> QED BY <1>4, <2>1 DEF DUE_SOON_REMAINING_RATIO
<1>12. clock \in Nat /\ zone \in Nat
  BY TimeAssumption DEF IInv, TypeOK
<1>13. calculateReminderStatus(local[r].is, log.km, log, clock, zone, ratio) = "not_due"
  BY <1>9, <1>10, <1>11, <1>12, NothingUsed
<1> QED BY <1>1, <1>8, <1>13

\* A service the device notes is of a vehicle there is, and is not deleted.
NewService ==
  \A s \in Service \intersect (DOMAIN local' \ DOMAIN local) :
    local'[s].synced = None =>
      ~local'[s].is.deleted /\ assertVehicleOwned(local', local'[s].is.vehicle)

LEMMA PutAdds ==
  ASSUME NEW i, NEW row, Write(Here, <<Put(i, row)>>)
  PROVE  /\ DOMAIN local' = DOMAIN local \union {i} /\ local'[i] = row
         /\ \A j \in DOMAIN local \ {i} : local'[j] = local[j]
<1>1. PICK ws : ws = <<Put(i, row)>>
  OBVIOUS
<1>2. DOMAIN ws = {1} /\ ws[1].id = i /\ ws[1].row = row
  BY <1>1 DEF Put
<1>3. Enqueue(ws)
  BY <1>1 DEF Write
<1>4. {ws[n].id : n \in DOMAIN ws} = {i}
  BY <1>2
<1>5. \A j : \A n \in DOMAIN ws : ws[n].id = j <=> j = i
  BY <1>2
<1>6. ws[CHOOSE n \in DOMAIN ws : ws[n].id = i].row = row
  BY <1>2
<1>7. local' = [j \in DOMAIN local \union {i} |->
                  IF \E n \in DOMAIN ws : ws[n].id = j
                    THEN ws[CHOOSE n \in DOMAIN ws : ws[n].id = j].row ELSE local[j]]
  BY <1>3, <1>4 DEF Enqueue
<1> QED BY <1>2, <1>5, <1>6, <1>7

\* A write of another table, or of a row there is, adds no service.
LEMMA OtherPut ==
  ASSUME NEW i, NEW row, Write(Here, <<Put(i, row)>>), i \in DOMAIN local \/ i \notin Service
  PROVE  NewService
<1>1. DOMAIN local' = DOMAIN local \union {i}
  BY PutAdds
<1> QED BY <1>1 DEF NewService

LEMMA TableHere ==
  ASSUME NEW S, NEW i \in Table(Here, S)
  PROVE  i \in DOMAIN local
BY DEF Table, RowsOf

LEMMA VehiclesAddNone ==
  ASSUME \/ createVehicle(Here) \/ updateVehicle(Here) \/ updateVehicleDetails(Here)
         \/ archiveVehicle(Here) \/ restoreVehicle(Here) \/ deleteVehicle(Here)
         \/ createPartType(Here) \/ updatePartTypeName(Here) \/ setPartTypeActive(Here)
  PROVE  NewService
<1>1. ASSUME createVehicle(Here) \/ createPartType(Here) PROVE NewService
  <2>1. PICK i, row : i \in Fresh(Vehicle) \union Fresh(PartType) /\ Write(Here, <<Put(i, row)>>)
    BY <1>1 DEF createVehicle, createPartType
  <2>2. i \notin Service
    BY <2>1, FreshId, IdAssumption
  <2> QED BY <2>1, <2>2, OtherPut
<1>2. ASSUME \/ updateVehicle(Here) \/ updateVehicleDetails(Here)
             \/ archiveVehicle(Here) \/ restoreVehicle(Here) \/ deleteVehicle(Here)
             \/ updatePartTypeName(Here) \/ setPartTypeActive(Here)
      PROVE  NewService
  <2>1. PICK i, row : i \in Table(Here, Vehicle) \union Table(Here, PartType) /\ Write(Here, <<Put(i, row)>>)
    BY <1>2 DEF updateVehicle, updateVehicleDetails, archiveVehicle, restoreVehicle, deleteVehicle,
                updatePartTypeName, setPartTypeActive, PatchVehicle
  <2>2. i \in DOMAIN local
    BY <2>1, TableHere
  <2> QED BY <2>1, <2>2, OtherPut
<1> QED BY <1>1, <1>2

LEMMA ReminderWrite ==
  ASSUME NEW d, createReminderConfig(d)
  PROVE  \E r, row : r \in Reminder /\ Write(d, <<Put(r, row)>>)
<1>1. PICK v \in Vehicle, p \in PartType, everyKm \in EveryKmInput, everyDays \in EveryDaysInput,
           km \in KmInput :
        \E r \in generateDeterministicId(v, p) :
          LET rows == RowsOf(d)
              row  == New(ReminderFields(v, p, everyKm, everyDays, km))
          IN /\ Optional(isValidOdometerKm, km)
             /\ validateReminderInterval(everyKm, everyDays)
             /\ assertVehicleOwned(rows, v)
             /\ ActivePartType(rows, p)
             /\ assertNoActiveDuplicate(rows, v, p)
             /\ r \in DOMAIN rows => rows[r].is.deleted
             /\ Write(d, <<Put(r, IF r \in DOMAIN rows THEN [row EXCEPT !.created = rows[r].created]
                                  ELSE row)>>)
  BY Zenon DEF createReminderConfig
<1>2. PICK r \in generateDeterministicId(v, p) : \E row : Write(d, <<Put(r, row)>>)
  BY <1>1, Zenon
<1>3. v \in Vehicle /\ p \in PartType
  BY <1>1, Zenon
<1>4. r = [vehicle |-> v, partType |-> p, twin |-> FALSE]
  BY <1>2 DEF generateDeterministicId
<1>5. r \in Reminder
  BY <1>3, <1>4 DEF Reminder
<1> QED BY <1>2, <1>5

LEMMA RemindersAddNone ==
  ASSUME createReminderConfig(Here) \/ updateReminderConfig(Here) \/ deleteReminderConfig(Here)
  PROVE  NewService
<1>1. ASSUME createReminderConfig(Here) PROVE NewService
  <2>1. PICK r, row : r \in Reminder /\ Write(Here, <<Put(r, row)>>)
    BY <1>1, ReminderWrite
  <2>2. r \notin Service
    BY <2>1, IdAssumption
  <2> QED BY <2>1, <2>2, OtherPut
<1>2. ASSUME updateReminderConfig(Here) \/ deleteReminderConfig(Here) PROVE NewService
  <2>1. PICK r, row : r \in Table(Here, Reminder) /\ Write(Here, <<Put(r, row)>>)
    BY <1>2 DEF updateReminderConfig, deleteReminderConfig
  <2>2. r \in DOMAIN local
    BY <2>1, TableHere
  <2> QED BY <2>1, <2>2, OtherPut
<1> QED BY <1>1, <1>2

LEMMA LogsAddNone ==
  ASSUME \/ addOdometerLog(Here) \/ addFuelLog(Here) \/ updateFuelLog(Here) \/ deleteFuelLog(Here)
         \/ updateServiceLog(Here) \/ deleteServiceLog(Here)
  PROVE  NewService
<1>1. ASSUME addOdometerLog(Here) PROVE NewService
  <2>1. PICK o, row : o \in Fresh(Odometer) /\ Write(Here, <<Put(o, row)>>)
    BY <1>1 DEF addOdometerLog
  <2>2. o \notin Service
    BY <2>1, FreshId, IdAssumption
  <2> QED BY <2>1, <2>2, OtherPut
<1>2. ASSUME addFuelLog(Here) PROVE NewService
  <2>1. PICK f, x, o : /\ f \in Fresh(Fuel) /\ o \in {None} \union [id : Fresh(Odometer), km : KmInput \ {None}]
                       /\ Write(Here, FuelWrites(f, x, o))
    BY <1>2 DEF addFuelLog
  <2>2. PICK ws : ws = FuelWrites(f, x, o)
    OBVIOUS
  <2>3. \A n \in DOMAIN ws : ws[n].id \in Fuel \union Odometer
    <3>1. f \in Fuel /\ (o # None => o.id \in Odometer)
      BY <2>1, FreshId
    <3> QED BY <2>2, <3>1 DEF FuelWrites, Put
  <2>4. \A n \in DOMAIN ws : ws[n].id \notin Service
    BY <2>3, IdAssumption
  <2>5. Enqueue(ws)
    BY <2>1, <2>2 DEF Write
  <2>6. DOMAIN local' = DOMAIN local \union {ws[n].id : n \in DOMAIN ws}
    BY <2>5 DEF Enqueue
  <2> QED BY <2>4, <2>6 DEF NewService
<1>3. ASSUME \/ updateFuelLog(Here) \/ deleteFuelLog(Here)
             \/ updateServiceLog(Here) \/ deleteServiceLog(Here)
      PROVE  NewService
  <2>1. PICK i, row : i \in Table(Here, Fuel) \union Table(Here, Service) /\ Write(Here, <<Put(i, row)>>)
    BY <1>3 DEF updateFuelLog, deleteFuelLog, updateServiceLog, deleteServiceLog
  <2>2. i \in DOMAIN local
    BY <2>1, TableHere
  <2> QED BY <2>1, <2>2, OtherPut
<1> QED BY <1>1, <1>2, <1>3

LEMMA ServiceIsAdded ==
  ASSUME addServiceLog(Here)
  PROVE  NewService
<1>1. PICK v, x, s : /\ s \in Fresh(Service) /\ v \in Vehicle /\ assertVehicleOwned(local, v)
                     /\ x.vehicle = v /\ x.deleted = FALSE
                     /\ Write(Here, <<Put(s, New(x))>>)
  <2>1. PICK v \in Vehicle, p \in PartType, s \in Fresh(Service), km \in KmInput, cost \in CostInput,
             at \in When :
          /\ assertVehicleOwned(RowsOf(Here), v)
          /\ Write(Here, <<Put(s, New([vehicle |-> v, partType |-> p, at |-> at, km |-> km, cost |-> cost,
                                       deleted |-> FALSE]))>>)
    BY DEF addServiceLog
  <2>2. PICK x : x = [vehicle |-> v, partType |-> p, at |-> at, km |-> km, cost |-> cost, deleted |-> FALSE]
    OBVIOUS
  <2>3. x.vehicle = v /\ x.deleted = FALSE
    BY <2>2
  <2>4. assertVehicleOwned(local, v)
    BY <2>1 DEF RowsOf
  <2> QED BY <2>1, <2>2, <2>3, <2>4
<1>2. PICK row : row = New(x) /\ row.is = x
  BY NewRow
<1>3. /\ DOMAIN local' = DOMAIN local \union {s} /\ local'[s] = row
      /\ \A j \in DOMAIN local \ {s} : local'[j] = local[j]
  BY <1>1, <1>2, PutAdds
<1>4. s \in Service /\ v # s
  BY <1>1, FreshId, IdAssumption
<1>5. v \in DOMAIN local /\ local'[v] = local[v]
  BY <1>1, <1>3, <1>4 DEF assertVehicleOwned
<1>6. assertVehicleOwned(local', v)
  BY <1>1, <1>3, <1>5 DEF assertVehicleOwned
<1> QED BY <1>1, <1>2, <1>3, <1>6 DEF NewService

\* Every call of a repository is one write.
LEMMA CallWrites ==
  ASSUME NEW d \in Device, Repository(d)
  PROVE  \E ws : Write(d, ws)
<1>1. CASE createVehicle(d) \/ createPartType(d)
  BY <1>1 DEF createVehicle, createPartType
<1>2. CASE \/ updateVehicle(d) \/ updateVehicleDetails(d)
           \/ archiveVehicle(d) \/ restoreVehicle(d) \/ deleteVehicle(d)
  BY <1>2 DEF updateVehicle, updateVehicleDetails, archiveVehicle, restoreVehicle, deleteVehicle, PatchVehicle
<1>3. CASE updatePartTypeName(d) \/ setPartTypeActive(d)
  BY <1>3 DEF updatePartTypeName, setPartTypeActive
<1>4. CASE createReminderConfig(d)
  BY <1>4, ReminderWrite
<1>5. CASE updateReminderConfig(d) \/ deleteReminderConfig(d)
  BY <1>5 DEF updateReminderConfig, deleteReminderConfig
<1>6. CASE addOdometerLog(d) \/ addFuelLog(d)
  BY <1>6 DEF addOdometerLog, addFuelLog
<1>7. CASE updateFuelLog(d) \/ deleteFuelLog(d)
  BY <1>7 DEF updateFuelLog, deleteFuelLog
<1>8. CASE addServiceLog(d)
  BY <1>8 DEF addServiceLog
<1>9. CASE updateServiceLog(d) \/ deleteServiceLog(d)
  BY <1>9 DEF updateServiceLog, deleteServiceLog
<1> QED BY <1>1, <1>2, <1>3, <1>4, <1>5, <1>6, <1>7, <1>8, <1>9 DEF Repository

LEMMA StepAdds == ASSUME IInv, [Next]_vars PROVE NewService
<1>1. ASSUME UNCHANGED local PROVE NewService
  BY <1>1 DEF NewService
<1>2. CASE Repository(Here)
  BY <1>2, VehiclesAddNone, RemindersAddNone, LogsAddNone, ServiceIsAdded DEF Repository
<1>3. CASE Repository(There)
  <2>1. PICK ws : Write(There, ws)
    BY <1>3, CallWrites DEF Device
  <2>2. UNCHANGED local
    BY <2>1, DeviceAssumption DEF Write, PushAtOnce
  <2> QED BY <1>1, <2>2
<1>4. CASE push
  <2>1. DOMAIN local' = DOMAIN local
    BY <1>4 DEF push
  <2> QED BY <2>1 DEF NewService
<1>5. CASE pull
  <2>1. PICK changed : /\ changed \subseteq DOMAIN server
                       /\ local' = [i \in DOMAIN local \union changed |->
                            IF i \in changed THEN applyEntityChange(local, i, server[i]) ELSE local[i]]
    BY <1>5 DEF pull
  <2>2. \A i \in DOMAIN local' \ DOMAIN local : local'[i].synced = server[i].synced /\ i \in DOMAIN server
    BY <2>1 DEF applyEntityChange
  <2>3. \A i \in DOMAIN server : server[i].synced # None
    BY NoneIsNoId DEF IInv, TypeOK
  <2> QED BY <2>2, <2>3 DEF NewService
<1>6. CASE TimePasses \/ UNCHANGED vars
  BY <1>1, <1>6 DEF TimePasses, vars
<1> QED BY <1>2, <1>3, <1>4, <1>5, <1>6 DEF Next, Device

\* A service noted now resets its reminder, at once and offline.
THEOREM ServiceClears == Spec => ServiceClearsReminder
<1> DEFINE Clears ==
      \A s \in Service, zone \in Offset :
        s \in DOMAIN local' \ DOMAIN local /\ local'[s].synced = None /\ local'[s].is.km # None =>
          LET log    == local'[s].is
              others == ((Odometer \union Service) \intersect DOMAIN local') \ {s}
          IN log.at = clock' /\ (\A i \in others : local'[i].is.at < log.at) =>
               \A r \in Reminder :
                 r \in DOMAIN listReminderStatusesForVehicle(local', log.vehicle, zone, clock')
                   /\ local'[r].is.partType = log.partType =>
                   listReminderStatusesForVehicle(local', log.vehicle, zone, clock')[r] = "not_due"
<1>1. IInv => ServiceCounts
  BY Counts
<1>2. ASSUME IInv, ServiceCounts', [Next]_vars PROVE Clears
  <2>1. NewService
    BY <1>2, StepAdds
  <2> SUFFICES ASSUME NEW s \in Service, NEW zone \in Offset,
                      s \in DOMAIN local' \ DOMAIN local, local'[s].synced = None, local'[s].is.km # None,
                      NEW log, log = local'[s].is, log.at = clock',
                      \A i \in ((Odometer \union Service) \intersect DOMAIN local') \ {s} :
                        local'[i].is.at < log.at,
                      NEW r \in Reminder,
                      r \in DOMAIN listReminderStatusesForVehicle(local', log.vehicle, zone, clock'),
                      local'[r].is.partType = log.partType
               PROVE  listReminderStatusesForVehicle(local', log.vehicle, zone, clock')[r] = "not_due"
    OBVIOUS
  <2>2. ~log.deleted /\ assertVehicleOwned(local', log.vehicle)
    BY <2>1 DEF NewService
  <2> QED BY <1>2, <2>2 DEF ServiceCounts
<1>3. IInv /\ ServiceCounts' /\ [Next]_vars => [Clears]_vars
  BY <1>2
<1>4. Spec => [][Clears]_vars
  <2> HIDE DEF Clears
  <2> QED BY <1>1, <1>3, InvariantHolds, PTL DEF Spec
<1> QED BY <1>4 DEF ServiceClearsReminder

-----------------------------------------------------------------------------
(* The history and the costs are sums over the same logs in two orders. *)

\* A set of numbers with 0 and with the next one of each is all of them.
LEMMA Everywhere ==
  ASSUME NEW T \in SUBSET Nat, 0 \in T, \A n \in T : n + 1 \in T
  PROVE  T = Nat
<1> SUFFICES ASSUME Nat \ T # {} PROVE FALSE
  OBVIOUS
<1>1. PICK m \in Nat \ T : \A k \in Nat \ T : m <= k
  BY Least
<1>2. m - 1 \in T
  BY <1>1
<1>3. (m - 1) + 1 = m
  BY <1>1
<1> QED BY <1>1, <1>2, <1>3

\* What w comes to, element after element
Sums(n, w, A) ==
  /\ A \in [0 .. n -> Int]
  /\ A[0] = 0
  /\ \A k \in 1 .. n : A[k] = A[k - 1] + w[k]

\* One element less
LEMMA SumsWithout ==
  ASSUME NEW n \in Nat, NEW u \in [1 .. n + 1 -> Int], NEW B, Sums(n + 1, u, B), NEW j \in 1 .. n + 1
  PROVE  \E C : /\ Sums(n, [k \in 1 .. n |-> IF k < j THEN u[k] ELSE u[k + 1]], C)
                /\ B[n + 1] = C[n] + u[j]
<1>1. PICK x : x = [k \in 1 .. n |-> IF k < j THEN u[k] ELSE u[k + 1]]
  OBVIOUS
<1>2. PICK C : C = [k \in 0 .. n |-> IF k < j THEN B[k] ELSE B[k + 1] - u[j]]
  OBVIOUS
<1>3. /\ B \in [0 .. n + 1 -> Int] /\ B[0] = 0
      /\ \A k \in 1 .. n + 1 : B[k] = B[k - 1] + u[k]
  BY DEF Sums
<1>4. C \in [0 .. n -> Int] /\ C[0] = 0
  <2>1. ASSUME NEW k \in 0 .. n PROVE (IF k < j THEN B[k] ELSE B[k + 1] - u[j]) \in Int
    <3>1. k \in 0 .. n + 1 /\ k + 1 \in 0 .. n + 1
      OBVIOUS
    <3>2. B[k] \in Int /\ B[k + 1] \in Int /\ u[j] \in Int
      BY <1>3, <3>1
    <3> QED BY <3>2
  <2>2. C[0] = B[0]
    BY <1>2
  <2> QED BY <1>2, <1>3, <2>1, <2>2
<1>5. ASSUME NEW k \in 1 .. n PROVE C[k] = C[k - 1] + x[k]
  <2>1. CASE k < j
    BY <1>1, <1>2, <1>3, <2>1
  <2>2. CASE k = j
    <3>1. C[k] = B[k + 1] - u[k] /\ C[k - 1] = B[k - 1] /\ x[k] = u[k + 1]
      BY <1>1, <1>2, <2>2
    <3>2. B[k + 1] = B[(k + 1) - 1] + u[k + 1] /\ B[k] = B[k - 1] + u[k]
      BY <1>3
    <3>3. B[k - 1] \in Int /\ u[k] \in Int /\ u[k + 1] \in Int /\ (k + 1) - 1 = k
      BY <1>3
    <3> QED BY <3>1, <3>2, <3>3
  <2>3. CASE k > j
    <3>1. C[k] = B[k + 1] - u[j] /\ C[k - 1] = B[k] - u[j] /\ x[k] = u[k + 1]
      BY <1>1, <1>2, <2>3
    <3>2. B[k + 1] = B[k] + u[k + 1]
      BY <1>3
    <3>3. B[k] \in Int /\ u[j] \in Int /\ u[k + 1] \in Int
      BY <1>3
    <3> QED BY <3>1, <3>2, <3>3
  <2> QED BY <2>1, <2>2, <2>3
<1>6. Sums(n, x, C)
  BY <1>4, <1>5 DEF Sums
<1>7. B[n + 1] = C[n] + u[j]
  <2>1. B[n + 1] = B[n] + u[n + 1] /\ B[n] \in Int /\ B[n + 1] \in Int /\ u[j] \in Int
    BY <1>3
  <2>2. CASE j = n + 1
    BY <1>2, <2>1, <2>2
  <2>3. CASE j <= n
    BY <1>2, <2>1, <2>3
  <2> QED BY <2>2, <2>3
<1> QED BY <1>1, <1>6, <1>7

Reorders(n, p) ==
  /\ p \in [1 .. n -> 1 .. n]
  /\ \A a, b \in 1 .. n : p[a] = p[b] => a = b
  /\ \A y \in 1 .. n : \E a \in 1 .. n : p[a] = y

LEMMA ReordersIs == \A n \in Nat : \A p : Reorders(n, p) <=> p \in Bijection(1 .. n, 1 .. n)
BY DEF Reorders, Bijection, Injection, Surjection, IsInjective

\* The order does not matter to the sum.
SumsAlike(n) ==
  \A w \in [1 .. n -> Int] : \A p, A, B :
    Reorders(n, p) /\ Sums(n, w, A) /\ Sums(n, [k \in 1 .. n |-> w[p[k]]], B) => A[n] = B[n]

LEMMA OneMore ==
  ASSUME NEW n \in Nat, SumsAlike(n)
  PROVE  SumsAlike(n + 1)
<1> SUFFICES ASSUME NEW w \in [1 .. n + 1 -> Int], NEW p, NEW A, NEW B, Reorders(n + 1, p),
                    Sums(n + 1, w, A), Sums(n + 1, [k \in 1 .. n + 1 |-> w[p[k]]], B)
             PROVE  A[n + 1] = B[n + 1]
  BY DEF SumsAlike
<1>1. PICK u : u = [k \in 1 .. n + 1 |-> w[p[k]]]
  OBVIOUS
<1>2. u \in [1 .. n + 1 -> Int]
  BY <1>1 DEF Reorders
<1>3. PICK j \in 1 .. n + 1 : p[j] = n + 1
  BY DEF Reorders
<1>4. PICK x : x = [k \in 1 .. n |-> IF k < j THEN u[k] ELSE u[k + 1]]
  OBVIOUS
<1>5. PICK C : Sums(n, x, C) /\ B[n + 1] = C[n] + u[j]
  <2>1. Sums(n + 1, u, B)
    BY <1>1
  <2>2. \E C : /\ Sums(n, [k \in 1 .. n |-> IF k < j THEN u[k] ELSE u[k + 1]], C)
               /\ B[n + 1] = C[n] + u[j]
    BY <1>2, <1>3, <2>1, SumsWithout
  <2> QED BY <1>4, <2>2
<1>6. PICK y : y = [k \in 1 .. n |-> w[k]]
  OBVIOUS
<1>7. PICK D : D = [k \in 0 .. n |-> A[k]]
  OBVIOUS
<1>8. y \in [1 .. n -> Int]
  BY <1>6
<1>9. Sums(n, y, D) /\ A[n + 1] = D[n] + w[n + 1]
  <2>1. /\ A \in [0 .. n + 1 -> Int] /\ A[0] = 0
        /\ \A k \in 1 .. n + 1 : A[k] = A[k - 1] + w[k]
    BY DEF Sums
  <2>2. D \in [0 .. n -> Int] /\ D[0] = 0
    BY <1>7, <2>1
  <2>3. \A k \in 1 .. n : D[k] = D[k - 1] + y[k]
    BY <1>6, <1>7, <2>1
  <2>4. A[n + 1] = A[n] + w[n + 1] /\ D[n] = A[n]
    BY <1>7, <2>1
  <2> QED BY <2>2, <2>3, <2>4 DEF Sums
<1>10. PICK q : q = [k \in 1 .. n |-> IF k < j THEN p[k] ELSE p[k + 1]]
  OBVIOUS
<1>11. \A k \in 1 .. n + 1 : k # j => p[k] \in 1 .. n
  <2> SUFFICES ASSUME NEW k \in 1 .. n + 1, k # j PROVE p[k] \in 1 .. n
    OBVIOUS
  <2>1. p[k] \in 1 .. n + 1 /\ p[k] # p[j]
    BY DEF Reorders
  <2> QED BY <1>3, <2>1
<1>12. Reorders(n, q)
  <2>1. q \in [1 .. n -> 1 .. n]
    BY <1>10, <1>11
  <2>2. \A a, b \in 1 .. n : q[a] = q[b] => a = b
    <3>1. ASSUME NEW a \in 1 .. n, NEW b \in 1 .. n, q[a] = q[b] PROVE a = b
      <4>1. PICK c : c = IF a < j THEN a ELSE a + 1
        OBVIOUS
      <4>2. PICK e : e = IF b < j THEN b ELSE b + 1
        OBVIOUS
      <4>3. c \in 1 .. n + 1 /\ e \in 1 .. n + 1 /\ (c = e => a = b)
        BY <4>1, <4>2
      <4>4. p[c] = p[e]
        BY <1>10, <3>1, <4>1, <4>2
      <4>5. c = e
        BY <4>3, <4>4 DEF Reorders
      <4> QED BY <4>3, <4>5
    <3> QED BY <3>1
  <2>3. ASSUME NEW z \in 1 .. n PROVE \E a \in 1 .. n : q[a] = z
    <3>1. PICK a \in 1 .. n + 1 : p[a] = z
      BY DEF Reorders
    <3>2. a # j
      BY <1>3, <3>1
    <3>3. CASE a < j
      <4>1. a \in 1 .. n /\ q[a] = z
        BY <1>10, <3>1, <3>3
      <4> QED BY <4>1
    <3>4. CASE a > j
      <4>1. a - 1 \in 1 .. n /\ ~(a - 1 < j) /\ (a - 1) + 1 = a
        BY <3>4
      <4>2. q[a - 1] = z
        BY <1>10, <3>1, <4>1
      <4> QED BY <4>1, <4>2
    <3> QED BY <3>2, <3>3, <3>4
  <2> QED BY <2>1, <2>2, <2>3 DEF Reorders
<1>13. x = [k \in 1 .. n |-> y[q[k]]]
  <2>1. ASSUME NEW k \in 1 .. n PROVE x[k] = y[q[k]]
    <3>1. q[k] \in 1 .. n
      BY <1>12 DEF Reorders
    <3>2. y[q[k]] = w[q[k]]
      BY <1>6, <3>1
    <3>3. CASE k < j
      BY <1>1, <1>4, <1>10, <3>2, <3>3
    <3>4. CASE ~(k < j)
      <4>1. k + 1 \in 1 .. n + 1
        OBVIOUS
      <4>2. x[k] = u[k + 1] /\ q[k] = p[k + 1]
        BY <1>4, <1>10, <3>4
      <4> QED BY <1>1, <3>2, <4>1, <4>2
    <3> QED BY <3>3, <3>4
  <2> QED BY <1>4, <2>1
<1>14. D[n] = C[n]
  BY <1>5, <1>8, <1>9, <1>12, <1>13 DEF SumsAlike
<1>15. u[j] = w[n + 1]
  BY <1>1, <1>3
<1> QED BY <1>5, <1>9, <1>14, <1>15

LEMMA OrderIsFree == \A n \in Nat : SumsAlike(n)
<1> DEFINE T == {n \in Nat : SumsAlike(n)}
<1>1. SumsAlike(0)
  BY DEF SumsAlike, Sums
<1>2. 0 \in T
  BY <1>1
<1>3. \A n \in T : n + 1 \in T
  BY OneMore
<1>4. T = Nat
  <2> HIDE DEF T
  <2>1. T \in SUBSET Nat
    BY DEF T
  <2> QED BY <1>2, <1>3, <2>1, Everywhere
<1> QED BY <1>4

\* Any numbers can be put in descending order.
Descends(n, at, p) == \A i, k \in 1 .. n : i < k => at[p[i]] >= at[p[k]]
Sortable(n) == \A at \in [1 .. n -> Int] : \E p : Reorders(n, p) /\ Descends(n, at, p)

LEMMA SortOneMore ==
  ASSUME NEW n \in Nat, Sortable(n)
  PROVE  Sortable(n + 1)
<1> SUFFICES ASSUME NEW at \in [1 .. n + 1 -> Int]
             PROVE  \E p : Reorders(n + 1, p) /\ Descends(n + 1, at, p)
  BY DEF Sortable
<1>1. PICK a : a = [k \in 1 .. n |-> at[k]]
  OBVIOUS
<1>2. a \in [1 .. n -> Int]
  BY <1>1
<1>3. PICK p : Reorders(n, p) /\ Descends(n, a, p)
  BY <1>2 DEF Sortable
<1>4. PICK T : T = {k \in 1 .. n : at[p[k]] < at[n + 1]} \union {n + 1}
  OBVIOUS
<1>5. PICK c \in T : \A k \in T : c <= k
  <2>1. T \in SUBSET Nat /\ T # {}
    BY <1>4
  <2> QED BY <2>1, Least
<1>6. /\ c \in 1 .. n + 1
      /\ \A k \in 1 .. n : k < c => at[p[k]] >= at[n + 1]
      /\ c # n + 1 => at[p[c]] < at[n + 1]
  <2>1. c \in 1 .. n + 1 /\ (c # n + 1 => at[p[c]] < at[n + 1])
    BY <1>4, <1>5
  <2>2. ASSUME NEW k \in 1 .. n, k < c PROVE at[p[k]] >= at[n + 1]
    <3>1. k \notin T
      BY <1>5, <2>1, <2>2
    <3>2. p[k] \in 1 .. n
      BY <1>3 DEF Reorders
    <3>3. at[p[k]] \in Int /\ at[n + 1] \in Int
      BY <3>2
    <3> QED BY <1>4, <3>1, <3>3
  <2> QED BY <2>1, <2>2
<1>7. PICK q : q = [k \in 1 .. n + 1 |-> IF k < c THEN p[k] ELSE IF k = c THEN n + 1 ELSE p[k - 1]]
  OBVIOUS
<1>8. /\ \A k \in 1 .. n + 1 : k < c => k \in 1 .. n /\ q[k] = p[k]
      /\ q[c] = n + 1
      /\ \A k \in 1 .. n + 1 : k > c => k - 1 \in 1 .. n /\ q[k] = p[k - 1]
  BY <1>6, <1>7
<1>9. /\ p \in [1 .. n -> 1 .. n] /\ \A i, k \in 1 .. n : p[i] = p[k] => i = k
      /\ \A y \in 1 .. n : \E i \in 1 .. n : p[i] = y
      /\ \A i, k \in 1 .. n : i < k => at[p[i]] >= at[p[k]]
  BY <1>1, <1>3 DEF Reorders, Descends
<1>10. Reorders(n + 1, q)
  <2>1. \A k \in 1 .. n + 1 : q[k] \in 1 .. n + 1 /\ (k # c => q[k] \in 1 .. n)
    <3> SUFFICES ASSUME NEW k \in 1 .. n + 1 PROVE q[k] \in 1 .. n + 1 /\ (k # c => q[k] \in 1 .. n)
      OBVIOUS
    <3>1. CASE k < c
      <4>1. k \in 1 .. n /\ q[k] = p[k]
        BY <1>8, <3>1
      <4>2. p[k] \in 1 .. n
        BY <1>9, <4>1
      <4> QED BY <4>1, <4>2
    <3>2. CASE k = c
      BY <1>8, <3>2
    <3>3. CASE k > c
      <4>1. k - 1 \in 1 .. n /\ q[k] = p[k - 1]
        BY <1>8, <3>3
      <4>2. p[k - 1] \in 1 .. n
        BY <1>9, <4>1
      <4> QED BY <4>1, <4>2
    <3> QED BY <1>6, <3>1, <3>2, <3>3
  <2>2. q \in [1 .. n + 1 -> 1 .. n + 1]
    BY <1>7, <2>1
  <2>3. ASSUME NEW i \in 1 .. n + 1, NEW k \in 1 .. n + 1, q[i] = q[k] PROVE i = k
    <3>1. CASE i = c \/ k = c
      BY <1>8, <2>1, <2>3, <3>1
    <3>2. CASE i # c /\ k # c
      <4>1. PICK x : x = IF i < c THEN i ELSE i - 1
        OBVIOUS
      <4>2. PICK y : y = IF k < c THEN k ELSE k - 1
        OBVIOUS
      <4>3. x \in 1 .. n /\ q[i] = p[x]
        BY <1>6, <1>8, <3>2, <4>1
      <4>4. y \in 1 .. n /\ q[k] = p[y]
        BY <1>6, <1>8, <3>2, <4>2
      <4>5. x = y
        BY <1>9, <2>3, <4>3, <4>4
      <4> QED BY <1>6, <3>2, <4>1, <4>2, <4>5
    <3> QED BY <3>1, <3>2
  <2>4. ASSUME NEW y \in 1 .. n + 1 PROVE \E i \in 1 .. n + 1 : q[i] = y
    <3>1. CASE y = n + 1
      BY <1>6, <1>8, <3>1
    <3>2. CASE y # n + 1
      <4>1. PICK i \in 1 .. n : p[i] = y
        BY <1>9, <3>2
      <4>2. CASE i < c
        <5>1. i \in 1 .. n + 1 /\ q[i] = y
          BY <1>8, <4>1, <4>2
        <5> QED BY <5>1
      <4>3. CASE i >= c
        <5>1. i + 1 \in 1 .. n + 1 /\ i + 1 > c /\ (i + 1) - 1 = i
          BY <1>6, <4>3
        <5>2. q[i + 1] = y
          BY <1>8, <4>1, <5>1
        <5> QED BY <5>1, <5>2
      <4> QED BY <1>6, <4>2, <4>3
    <3> QED BY <3>1, <3>2
  <2> QED BY <2>2, <2>3, <2>4 DEF Reorders
<1>11. ASSUME NEW i \in 1 .. n + 1, NEW k \in 1 .. n + 1, i < k PROVE at[q[i]] >= at[q[k]]
  <2>1. \A b \in 1 .. n : at[p[b]] \in Int
    BY <1>9
  <2>2. at[n + 1] \in Int
    OBVIOUS
  <2>3. CASE k < c
    <3>1. i \in 1 .. n /\ k \in 1 .. n /\ q[i] = p[i] /\ q[k] = p[k]
      BY <1>6, <1>8, <1>11, <2>3
    <3> QED BY <1>9, <1>11, <3>1
  <2>4. CASE k = c
    <3>1. i \in 1 .. n /\ q[i] = p[i] /\ q[k] = n + 1
      BY <1>6, <1>8, <1>11, <2>4
    <3> QED BY <1>6, <1>11, <2>4, <3>1
  <2>5. CASE k > c
    <3>1. k - 1 \in 1 .. n /\ q[k] = p[k - 1]
      BY <1>8, <2>5
    <3>2. CASE i < c
      <4>1. i \in 1 .. n /\ q[i] = p[i] /\ i < k - 1
        BY <1>6, <1>8, <2>5, <3>2
      <4> QED BY <1>9, <3>1, <4>1
    <3>3. CASE i = c
      <4>1. c \in 1 .. n /\ c <= k - 1 /\ q[i] = n + 1 /\ at[p[c]] < at[n + 1]
        BY <1>6, <1>8, <2>5, <3>3
      <4>2. at[p[c]] >= at[p[k - 1]]
        <5>1. CASE c = k - 1
          BY <2>1, <4>1, <5>1
        <5>2. CASE c < k - 1
          BY <1>9, <3>1, <4>1, <5>2
        <5> QED BY <4>1, <5>1, <5>2
      <4>3. at[p[c]] \in Int /\ at[p[k - 1]] \in Int
        BY <2>1, <3>1, <4>1
      <4> QED BY <2>2, <3>1, <4>1, <4>2, <4>3
    <3>4. CASE i > c
      <4>1. i - 1 \in 1 .. n /\ q[i] = p[i - 1] /\ i - 1 < k - 1
        BY <1>8, <1>11, <3>4
      <4> QED BY <1>9, <3>1, <4>1
    <3> QED BY <1>6, <3>2, <3>3, <3>4
  <2> QED BY <1>6, <2>3, <2>4, <2>5
<1>12. Descends(n + 1, at, q)
  BY <1>11 DEF Descends
<1> QED BY <1>10, <1>12

LEMMA AllSortable == \A n \in Nat : Sortable(n)
<1> DEFINE T == {n \in Nat : Sortable(n)}
<1>1. Sortable(0)
  <2>1. ASSUME NEW at \in [1 .. 0 -> Int] PROVE Reorders(0, at) /\ Descends(0, at, at)
    BY DEF Reorders, Descends
  <2> QED BY <2>1 DEF Sortable
<1>2. 0 \in T
  BY <1>1
<1>3. \A n \in T : n + 1 \in T
  BY SortOneMore
<1>4. T = Nat
  <2> HIDE DEF T
  <2>1. T \in SUBSET Nat
    BY DEF T
  <2> QED BY <1>2, <1>3, <2>1, Everywhere
<1> QED BY <1>4

AreLogs(n, logs) ==
  /\ logs = [k \in 1 .. n |-> logs[k]]
  /\ \A k \in 1 .. n : logs[k].at \in Int /\ logs[k].cost \in Cost

\* The history is the logs in some order.
LEMMA HistoryReorders ==
  ASSUME NEW n \in Nat, NEW logs, AreLogs(n, logs)
  PROVE  \E p : Reorders(n, p) /\ NewestFirst(logs) = [k \in 1 .. n |-> logs[p[k]]]
<1>1. DOMAIN logs = 1 .. n
  BY DEF AreLogs
<1>2. PICK at : at = [k \in 1 .. n |-> logs[k].at]
  OBVIOUS
<1>3. at \in [1 .. n -> Int]
  BY <1>2 DEF AreLogs
<1>4. PICK p : Reorders(n, p) /\ Descends(n, at, p)
  BY <1>3, AllSortable DEF Sortable
<1>5. p \in Bijection(1 .. n, 1 .. n)
  BY <1>4, ReordersIs
<1>6. \A i, k \in 1 .. n : i < k => logs[p[i]].at >= logs[p[k]].at
  <2>1. p \in [1 .. n -> 1 .. n]
    BY <1>4 DEF Reorders
  <2>2. \A k \in 1 .. n : at[p[k]] = logs[p[k]].at
    BY <1>2, <2>1
  <2> QED BY <1>4, <2>2 DEF Descends
<1> DEFINE Good(q) == \A i, k \in 1 .. n : i < k => logs[q[i]].at >= logs[q[k]].at
<1>7. PICK q : q = CHOOSE r \in Bijection(1 .. n, 1 .. n) : Good(r)
  OBVIOUS
<1>8. q \in Bijection(1 .. n, 1 .. n)
  <2>1. Good(p)
    BY <1>6
  <2> HIDE DEF Good
  <2> QED BY <1>5, <1>7, <2>1
<1>9. NewestFirst(logs) = [k \in 1 .. n |-> logs[q[k]]]
  BY <1>1, <1>7 DEF NewestFirst
<1>10. Reorders(n, q)
  BY <1>8, ReordersIs
<1> QED BY <1>9, <1>10

LEMMA MaxIs ==
  ASSUME NEW s \in SUBSET Int, NEW e \in s, \A y \in s : y <= e
  PROVE  Max(s) = e
<1>1. PICK x : x = Max(s)
  OBVIOUS
<1>2. \A y \in s : e >= y
  OBVIOUS
<1>3. x \in s /\ \A y \in s : x >= y
  BY <1>1, <1>2 DEF Max
<1>4. x >= e /\ e >= x
  BY <1>2, <1>3
<1> QED BY <1>1, <1>3, <1>4

\* What each of the logs adds to what a month costs
Shares(n, logs, m, zone) ==
  [k \in 1 .. n |-> IF logs[k].cost = None \/ monthKey(logs[k].at, zone) # m THEN 0
                    ELSE logs[k].cost]

\* What the logs of a month cost is the sum of it: a fold adds from the first to the last.
LEMMA SpentSums ==
  ASSUME NEW N \in Nat, NEW logs, AreLogs(N, logs), NEW m, NEW zone
  PROVE  /\ Shares(N, logs, m, zone) \in [1 .. N -> Int]
         /\ \E A : Sums(N, Shares(N, logs, m, zone), A) /\ Spent(logs, m, zone) = A[N]
<1> DEFINE Plus(sum, log) == IF log.cost = None \/ monthKey(log.at, zone) # m THEN sum
                             ELSE sum + log.cost
           Rule(f, s) == IF s = {} THEN 0 ELSE Plus(f[s \ {Max(s)}], logs[Max(s)])
           Upto(k) == \E f : f = [s \in SUBSET (1 .. k) |-> Rule(f, s)]
           Done == {k \in Nat : Upto(k)}
<1>1. PICK w : w = Shares(N, logs, m, zone)
  OBVIOUS
<1>2. /\ w \in [1 .. N -> Int]
      /\ \A n \in 1 .. N :
           w[n] = IF logs[n].cost = None \/ monthKey(logs[n].at, zone) # m THEN 0 ELSE logs[n].cost
  BY <1>1 DEF Shares, AreLogs, Cost
<1>3. Upto(0)
  <2>1. SUBSET (1 .. 0) = {{}}
    OBVIOUS
  <2>2. PICK f : f = [s \in SUBSET (1 .. 0) |-> 0]
    OBVIOUS
  <2>3. f = [s \in SUBSET (1 .. 0) |-> Rule(f, s)]
    <3>1. \A s \in SUBSET (1 .. 0) : s = {}
      BY <2>1
    <3>2. \A s \in SUBSET (1 .. 0) : Rule(f, s) = 0
      BY <3>1
    <3> HIDE DEF Rule
    <3> QED BY <2>2, <3>2
  <2> QED BY <2>3
<1>4. ASSUME NEW k \in Nat, Upto(k) PROVE Upto(k + 1)
  <2>1. PICK f : f = [s \in SUBSET (1 .. k) |-> Rule(f, s)]
    BY <1>4
  <2>2. PICK g : g = [s \in SUBSET (1 .. k + 1) |->
                        IF k + 1 \in s THEN Plus(f[s \ {k + 1}], logs[k + 1]) ELSE f[s]]
    OBVIOUS
  <2>3. \A s \in SUBSET (1 .. k) : s \in SUBSET (1 .. k + 1) /\ k + 1 \notin s
    OBVIOUS
  <2>4. \A s \in SUBSET (1 .. k) : g[s] = f[s]
    <3> HIDE DEF Plus
    <3> QED BY <2>2, <2>3
  <2>5. ASSUME NEW s \in SUBSET (1 .. k + 1) PROVE g[s] = Rule(g, s)
    <3>1. CASE k + 1 \in s
      <4>1. s \in SUBSET Int /\ \A y \in s : y <= k + 1
        OBVIOUS
      <4>2. Max(s) = k + 1
        BY <3>1, <4>1, MaxIs
      <4>3. s \ {k + 1} \in SUBSET (1 .. k)
        OBVIOUS
      <4>4. g[s \ {k + 1}] = f[s \ {k + 1}]
        BY <2>4, <4>3
      <4>5. g[s] = Plus(f[s \ {k + 1}], logs[k + 1])
        <5> HIDE DEF Plus
        <5> QED BY <2>2, <3>1
      <4>6. Rule(g, s) = Plus(g[s \ {k + 1}], logs[k + 1])
        <5> HIDE DEF Plus
        <5> QED BY <3>1, <4>2
      <4> HIDE DEF Rule, Plus
      <4> QED BY <4>4, <4>5, <4>6
    <3>2. CASE k + 1 \notin s
      <4>1. s \in SUBSET (1 .. k)
        BY <3>2
      <4>2. g[s] = f[s] /\ f[s] = Rule(f, s)
        <5> HIDE DEF Rule
        <5> QED BY <2>1, <2>4, <4>1
      <4>3. s # {} => g[s \ {Max(s)}] = f[s \ {Max(s)}]
        <5>1. s \ {Max(s)} \in SUBSET (1 .. k)
          BY <4>1
        <5> QED BY <2>4, <5>1
      <4>4. Rule(g, s) = Rule(f, s)
        <5> HIDE DEF Plus
        <5> QED BY <4>3
      <4> HIDE DEF Rule
      <4> QED BY <4>2, <4>4
    <3> QED BY <3>1, <3>2
  <2>6. g = [s \in SUBSET (1 .. k + 1) |-> Rule(g, s)]
    <3>1. g = [s \in SUBSET (1 .. k + 1) |-> g[s]]
      <4> HIDE DEF Plus
      <4> QED BY <2>2
    <3> HIDE DEF Rule
    <3> QED BY <2>5, <3>1
  <2> HIDE DEF Rule
  <2> QED BY <2>6
<1>5. Upto(N)
  <2> HIDE DEF Upto
  <2>1. Done \in SUBSET Nat /\ 0 \in Done /\ \A k \in Done : k + 1 \in Done
    BY <1>3, <1>4
  <2>2. Done = Nat
    <3> HIDE DEF Done
    <3> QED BY <2>1, Everywhere
  <2> QED BY <2>2
<1>6. DOMAIN logs = 1 .. N
  BY DEF AreLogs
<1>7. PICK f : f = (CHOOSE g : g = [s \in SUBSET (1 .. N) |-> Rule(g, s)])
  OBVIOUS
<1>8. f = [s \in SUBSET (1 .. N) |-> Rule(f, s)]
  <2> HIDE DEF Rule
  <2> QED BY <1>5, <1>7 DEF Upto
<1>9. Spent(logs, m, zone) = f[1 .. N]
  BY <1>6, <1>7 DEF Spent, FoldLeft, MapThenFoldSet
<1>10. PICK A : A = [n \in 0 .. N |-> f[1 .. n]]
  OBVIOUS
<1>11. \A n \in 0 .. N : f[1 .. n] = Rule(f, 1 .. n)
  <2>1. \A n \in 0 .. N : 1 .. n \in SUBSET (1 .. N)
    OBVIOUS
  <2> HIDE DEF Rule
  <2> QED BY <1>8, <2>1
<1>12. A[0] = 0
  <2>1. 1 .. 0 = {}
    OBVIOUS
  <2>2. Rule(f, 1 .. 0) = 0
    BY <2>1
  <2>3. f[1 .. 0] = Rule(f, 1 .. 0)
    <3> HIDE DEF Rule
    <3> QED BY <1>11
  <2>4. A[0] = f[1 .. 0]
    BY <1>10
  <2> HIDE DEF Rule
  <2> QED BY <2>2, <2>3, <2>4
<1>13. ASSUME NEW n \in 1 .. N PROVE A[n] = Plus(A[n - 1], logs[n])
  <2>1. 1 .. n # {} /\ n \in 1 .. n /\ 1 .. n \in SUBSET (1 .. N)
    OBVIOUS
  <2>2. 1 .. n \in SUBSET Int /\ \A y \in 1 .. n : y <= n
    OBVIOUS
  <2>3. Max(1 .. n) = n
    BY <2>1, <2>2, MaxIs
  <2>4. (1 .. n) \ {n} = 1 .. n - 1
    OBVIOUS
  <2>5. A[n] = f[1 .. n] /\ A[n - 1] = f[1 .. n - 1]
    BY <1>10
  <2>6. Rule(f, 1 .. n) = Plus(f[1 .. n - 1], logs[n])
    <3> HIDE DEF Plus
    <3> QED BY <2>1, <2>3, <2>4
  <2>7. f[1 .. n] = Rule(f, 1 .. n)
    <3> HIDE DEF Rule
    <3> QED BY <1>11
  <2> HIDE DEF Plus, Rule
  <2> QED BY <2>5, <2>6, <2>7
<1>14. \A n \in 0 .. N : A[n] \in Int
  <2> DEFINE T == {n \in Nat : n <= N => A[n] \in Int}
  <2>1. 0 \in T
    BY <1>12
  <2>2. ASSUME NEW n \in T PROVE n + 1 \in T
    <3> SUFFICES ASSUME n + 1 <= N PROVE A[n + 1] \in Int
      OBVIOUS
    <3>1. n + 1 \in 1 .. N /\ A[(n + 1) - 1] \in Int
      OBVIOUS
    <3>2. logs[n + 1].cost # None /\ monthKey(logs[n + 1].at, zone) = m => logs[n + 1].cost \in Int
      BY <1>2, <3>1
    <3>3. A[n + 1] = Plus(A[(n + 1) - 1], logs[n + 1])
      BY <1>13, <3>1
    <3> QED BY <3>1, <3>2, <3>3
  <2>3. T = Nat
    <3>1. T \in SUBSET Nat
      OBVIOUS
    <3> HIDE DEF T
    <3> QED BY <2>1, <2>2, <3>1, Everywhere
  <2> QED BY <2>3
<1>15. \A n \in 1 .. N : A[n] = A[n - 1] + w[n]
  <2> SUFFICES ASSUME NEW n \in 1 .. N PROVE A[n] = A[n - 1] + w[n]
    OBVIOUS
  <2>1. A[n - 1] \in Int
    BY <1>14
  <2>2. A[n] = Plus(A[n - 1], logs[n])
    BY <1>13
  <2> QED BY <1>2, <2>1, <2>2
<1>16. A \in [0 .. N -> Int]
  BY <1>10, <1>14
<1>17. Sums(N, w, A)
  BY <1>12, <1>15, <1>16 DEF Sums
<1>18. Spent(logs, m, zone) = A[N]
  BY <1>9, <1>10
<1> QED BY <1>1, <1>2, <1>17, <1>18

\* So the history of a month costs what its logs cost.
LEMMA HistoryCosts ==
  ASSUME NEW N \in Nat, NEW logs, AreLogs(N, logs), NEW m, NEW zone
  PROVE  Spent(NewestFirst(logs), m, zone) = Spent(logs, m, zone)
<1>1. PICK p : Reorders(N, p) /\ NewestFirst(logs) = [k \in 1 .. N |-> logs[p[k]]]
  BY HistoryReorders
<1>2. PICK w : w = Shares(N, logs, m, zone)
  OBVIOUS
<1>3. w \in [1 .. N -> Int]
  BY <1>2, SpentSums
<1>4. PICK A : Sums(N, w, A) /\ Spent(logs, m, zone) = A[N]
  BY <1>2, SpentSums
<1>5. PICK history : history = NewestFirst(logs)
  OBVIOUS
<1>6. history = [k \in 1 .. N |-> history[k]] /\ \A k \in 1 .. N : history[k] = logs[p[k]]
  BY <1>1, <1>5
<1>7. \A k \in 1 .. N : p[k] \in 1 .. N
  BY <1>1 DEF Reorders
<1>8. AreLogs(N, history)
  BY <1>6, <1>7 DEF AreLogs
<1>9. PICK u : u = Shares(N, history, m, zone)
  OBVIOUS
<1>10. u = [k \in 1 .. N |-> w[p[k]]]
  BY <1>2, <1>6, <1>7, <1>9 DEF Shares
<1>11. PICK B : Sums(N, u, B) /\ Spent(history, m, zone) = B[N]
  BY <1>8, <1>9, SpentSums
<1>12. Sums(N, [k \in 1 .. N |-> w[p[k]]], B)
  BY <1>10, <1>11
<1>13. A[N] = B[N]
  <2>1. SumsAlike(N)
    BY OrderIsFree
  <2> QED BY <1>1, <1>3, <1>4, <1>12, <2>1 DEF SumsAlike
<1> QED BY <1>4, <1>5, <1>11, <1>13

\* The logs of a vehicle, as the tables have them
LEMMA LogsAre ==
  ASSUME IInv, NEW S \in {Fuel, Service}, NEW v
  PROVE  LET logs == Logs(local, OfVehicle(local, S, v))
         IN logs \in Seq({x \in {local[i].is : i \in DOMAIN local} : x.at \in Int /\ x.cost \in Cost})
<1> DEFINE ids  == OfVehicle(local, S, v)
           Good == {x \in {local[i].is : i \in DOMAIN local} : x.at \in Int /\ x.cost \in Cost}
<1>1. ids \in SUBSET S /\ ids \subseteq S \intersect DOMAIN local
  BY DEF OfVehicle
<1>2. IsFiniteSet(ids)
  BY <1>1, TablesAreFinite
<1>3. PICK s : s = SetToSeq(ids)
  OBVIOUS
<1>4. s \in Seq(ids)
  BY <1>2, <1>3, SetToSeqIs
<1>5. \A i \in ids : local[i].is \in Good
  <2> SUFFICES ASSUME NEW i \in ids PROVE local[i].is \in Good
    OBVIOUS
  <2>1. i \in DOMAIN local /\ i \in Fuel \union Service
    BY <1>1
  <2>2. About(i, local[i].is) /\ Amounts(i, local[i].is)
    BY <2>1, LocalIsHeld
  <2>3. local[i].is.at \in Int
    <3>1. clock \in Int
      BY DEF IInv, TypeOK
    <3>2. local[i].is.at \in 1 .. clock
      BY <2>1, <2>2 DEF About
    <3> QED BY <3>1, <3>2
  <2>4. local[i].is.cost \in Cost
    BY <2>1, <2>2 DEF Amounts
  <2> QED BY <2>1, <2>3, <2>4
<1>6. [n \in DOMAIN s |-> local[s[n]].is] \in Seq(Good)
  <2> HIDE DEF Good
  <2>1. Len(s) \in Nat /\ DOMAIN s = 1 .. Len(s) /\ \A n \in DOMAIN s : s[n] \in ids
    BY <1>4
  <2>2. \A n \in 1 .. Len(s) : local[s[n]].is \in Good
    BY <1>5, <2>1
  <2>3. [n \in 1 .. Len(s) |-> local[s[n]].is] \in [1 .. Len(s) -> Good]
    BY <2>2
  <2>4. \A c \in Nat : [1 .. c -> Good] \subseteq Seq(Good)
    OBVIOUS
  <2> QED BY <2>1, <2>3, <2>4
<1> QED BY <1>3, <1>6 DEF Logs

\* The history and the cost table of a vehicle add up to the same in every month and zone.
LEMMA HistoryFollows ==
  ASSUME IInv
  PROVE  HistoryAndCostsAgree
<1> SUFFICES ASSUME NEW v \in Vehicle, NEW zone \in Offset
             PROVE  LET costs   == getMonthlyCosts(local, v, zone)
                        history == listHistoryEntries(local, v)
                    IN /\ \A m \in DOMAIN costs : costs[m].total = Spent(history, m, zone)
                       /\ \A log \in ToSet(history) :
                            log.cost # None => monthKey(log.at, zone) \in DOMAIN costs
  BY DEF HistoryAndCostsAgree
<1>1. CASE ~assertVehicleOwned(local, v)
  <2>1. getMonthlyCosts(local, v, zone) = <<>> /\ listHistoryEntries(local, v) = <<>>
    BY <1>1 DEF getMonthlyCosts, listHistoryEntries
  <2>2. DOMAIN (<<>>) = {} /\ ToSet(<<>>) = {}
    BY DEF ToSet
  <2> QED BY <2>1, <2>2
<1>2. CASE assertVehicleOwned(local, v)
  <2>1. PICK fuel : fuel = Logs(local, OfVehicle(local, Fuel, v))
    OBVIOUS
  <2>2. PICK service : service = Logs(local, OfVehicle(local, Service, v))
    OBVIOUS
  <2>3. PICK Good : Good = {x \in {local[i].is : i \in DOMAIN local} : x.at \in Int /\ x.cost \in Cost}
    OBVIOUS
  <2>4. fuel \in Seq(Good) /\ service \in Seq(Good)
    BY <2>1, <2>2, <2>3, LogsAre
  <2>5. PICK logs : logs = fuel \o service
    OBVIOUS
  <2>6. logs \in Seq(Good)
    BY <2>4, <2>5
  <2>7. PICK N \in Nat : N = Len(logs)
    BY <2>6
  <2>8. DOMAIN logs = 1 .. N /\ logs = [n \in 1 .. N |-> logs[n]] /\ \A n \in 1 .. N : logs[n] \in Good
    BY <2>6, <2>7
  <2>9. AreLogs(N, logs)
    BY <2>3, <2>8 DEF AreLogs
  <2>10. PICK history : history = listHistoryEntries(local, v)
    OBVIOUS
  <2>11. history = NewestFirst(logs)
    BY <1>2, <2>1, <2>2, <2>5, <2>10 DEF listHistoryEntries
  <2>12. PICK months : months = {monthKey(log.at, zone) : log \in {log \in ToSet(logs) : log.cost # None}}
    OBVIOUS
  <2>13. PICK costs : costs = getMonthlyCosts(local, v, zone)
    OBVIOUS
  <2>14. costs = [m \in months |-> [fuel    |-> Spent(fuel, m, zone),
                                    service |-> Spent(service, m, zone),
                                    total   |-> Spent(logs, m, zone)]]
    BY <1>2, <2>1, <2>2, <2>5, <2>12, <2>13 DEF getMonthlyCosts, MonthlyCosts
  <2>15. DOMAIN costs = months
    BY <2>14
  <2>16. ASSUME NEW m \in DOMAIN costs PROVE costs[m].total = Spent(history, m, zone)
    <3>1. costs[m].total = Spent(logs, m, zone)
      BY <2>14, <2>15
    <3>2. Spent(history, m, zone) = Spent(logs, m, zone)
      BY <2>9, <2>11, HistoryCosts
    <3> QED BY <3>1, <3>2
  <2>17. ASSUME NEW log \in ToSet(history), log.cost # None
         PROVE  monthKey(log.at, zone) \in DOMAIN costs
    <3>1. PICK p : Reorders(N, p) /\ history = [k \in 1 .. N |-> logs[p[k]]]
      BY <2>9, <2>11, HistoryReorders
    <3>2. PICK k \in 1 .. N : log = logs[p[k]]
      BY <2>17, <3>1 DEF ToSet
    <3>3. p[k] \in DOMAIN logs
      BY <2>8, <3>1, <3>2 DEF Reorders
    <3>4. log \in ToSet(logs)
      BY <3>2, <3>3 DEF ToSet
    <3> QED BY <2>12, <2>15, <2>17, <3>4
  <2> QED BY <2>10, <2>13, <2>16, <2>17
<1> QED BY <1>1, <1>2

\* The history of a vehicle costs in each month, in any time zone, what the cost table
\* says of it: listHistoryEntries and getMonthlyCosts read the same logs.
THEOREM HistoryAddsUp == Spec => []HistoryAndCostsAgree
<1>1. IInv => HistoryAndCostsAgree
  BY HistoryFollows
<1> QED BY <1>1, InvariantHolds, PTL
=============================================================================
