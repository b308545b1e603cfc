------------------------------- MODULE Garage -------------------------------
(***************************************************************************)
(* What one account keeps about its vehicles: the repositories that write  *)
(* it, with the outbox, on one device; the rows the server makes of the    *)
(* outbox; and the queries and formulas that turn rows into what a page    *)
(* shows.  Every repository call is one IndexedDB transaction.             *)
(*                                                                         *)
(* The device here may be offline as long as it likes.  Another device of  *)
(* the account edits the rows it has pulled and pushes at once.  Delivery  *)
(* (loss, duplicates, pages, crashes) is Sync's: here one step pushes the  *)
(* head of the outbox and one step pulls all that is new.  Names, notes    *)
(* and plates are not kept; renaming writes the snapshot all the same.     *)
(***************************************************************************)
EXTENDS Integers, SequencesExt

CONSTANTS
  Here, There,      \* the device with the outbox, and another one
  Vehicle, PartType, Odometer, Fuel, Service,  \* the ids (UUIDs) there are to draw
  Seeded,           \* a vehicle and part types both devices start with
  KmInput, EveryKmInput, EveryDaysInput, LitersInput, CostInput, RatioInput,
                    \* what a user may type: thousandths, days, percents
  MAX_ODOMETER_KM, MAX_LITERS, MAX_INTERVAL_DAYS,
  Offset,           \* time zones of an account, as offsets from UTC
  DayLength, MonthLength,  \* instants in a day, days in a month
  CostWindow,       \* instants the cost per kilometre looks back (three months)
  MaxHere, MaxThere, MaxClock,  \* bounds: edits on either device, instants
  None              \* null

Device   == {Here, There}
Reminder == [vehicle : Vehicle, partType : PartType, twin : BOOLEAN]
Id       == Vehicle \union PartType \union Reminder \union Odometer \union Fuel \union Service

ASSUME DeviceAssumption == Here # There
\* UUIDs are of 128 bits: none is drawn twice, and none is generated twice.
ASSUME IdAssumption ==
  /\ IsFiniteSet(Vehicle \union PartType \union Odometer \union Fuel \union Service)
  /\ Vehicle \intersect (PartType \union Reminder \union Odometer \union Fuel \union Service) = {}
  /\ PartType \intersect (Reminder \union Odometer \union Fuel \union Service) = {}
  /\ Reminder \intersect (Odometer \union Fuel \union Service) = {}
  /\ Odometer \intersect (Fuel \union Service) = {} /\ Fuel \intersect Service = {}
ASSUME NoneAssumption == None \notin Id \union Int
ASSUME AmountAssumption ==
  /\ MAX_ODOMETER_KM \in Nat /\ MAX_LITERS \in Nat /\ MAX_INTERVAL_DAYS \in Nat
  /\ KmInput \union EveryKmInput \union LitersInput \union CostInput \subseteq Int \union {None}
  /\ EveryDaysInput \union RatioInput \subseteq Int \union {None}
ASSUME TimeAssumption ==
  /\ Offset \subseteq Nat
  /\ DayLength \in Nat \ {0} /\ MonthLength \in Nat \ {0} /\ CostWindow \in Nat
ASSUME BoundAssumption  == MaxHere \in Nat /\ MaxThere \in Nat /\ MaxClock \in Nat \ {0}
ASSUME SeededAssumption == Seeded \subseteq Vehicle \union PartType

VARIABLES
  clock,   \* the time, the same everywhere
  local,   \* the entity tables of Here: its rows by id
  outbox,  \* Here's mutations, oldest first: [id, payload]
  seen,    \* lastSeenSeq of Here
  server,  \* the server's rows by id: payload and server_seq
  seq,     \* the account's sequence
  edits    \* number of edits made on each device

vars == <<clock, local, outbox, seen, server, seq, edits>>

-----------------------------------------------------------------------------
(* Rows.  is: the business fields, the payload of a mutation; created:       *)
(* createdAtClient; synced: serverSeq, and serverSyncedAt with it.           *)

VehicleFields(archived, deleted, ratio) ==
  [archived |-> archived, deleted |-> deleted, dueSoonRatio |-> ratio]

New(fields)          == [is |-> fields, created |-> clock, synced |-> None]
Patched(row, fields) == [row EXCEPT !.is = fields]

Seed(i) == IF i \in Vehicle THEN VehicleFields(FALSE, FALSE, None) ELSE [active |-> TRUE]

Init ==
  /\ clock  = 1
  /\ local  = [i \in Seeded |-> [is |-> Seed(i), created |-> 1, synced |-> 1]]
  /\ server = [i \in Seeded |-> [is |-> Seed(i), synced |-> 1]]
  /\ outbox = <<>>
  /\ seen   = 1
  /\ seq    = 1
  /\ edits  = [d \in Device |-> 0]

Has(fields, k) == k \in DOMAIN fields /\ fields[k] # None

\* fieldsFromPayload refuses what no device could show.
Readable(fields) ==
  /\ "everyKm" \in DOMAIN fields => Has(fields, "everyKm") \/ Has(fields, "everyDays")
  /\ \A k \in {"everyKm", "everyDays", "liters"} : Has(fields, k) => fields[k] > 0

\* Fault: a version the acknowledgment has stamped counts as applied.
applyEntityChange_skips_equal(rows, i, change) ==
  IF i \notin DOMAIN rows THEN [is |-> change.is, created |-> change.synced, synced |-> change.synced]
  ELSE IF rows[i].synced # None /\ rows[i].synced >= change.synced THEN rows[i]
  ELSE [rows[i] EXCEPT !.is = change.is, !.synced = change.synced]
\* createdAtClient is not sent; a device that did not make the row takes the
\* server's time for it.
applyEntityChange(rows, i, change) ==
  IF i \notin DOMAIN rows THEN [is |-> change.is, created |-> change.synced, synced |-> change.synced]
  ELSE IF rows[i].synced # None /\ rows[i].synced > change.synced THEN rows[i]
  ELSE [rows[i] EXCEPT !.is = change.is, !.synced = change.synced]

\* What a device without a queue has
Pulled == [i \in DOMAIN server |-> applyEntityChange(<<>>, i, server[i])]

RowsOf(d) == IF d = Here THEN local ELSE Pulled

\* The ids of a table on a device
Table(d, S) == S \intersect DOMAIN RowsOf(d)

-----------------------------------------------------------------------------
(* The server: PostgreSQL's columns and constraints, /sync/push *)

Hundredths(x) == IF x = None THEN None ELSE ((x + 5) \div 10) * 10

\* numeric(10,2), numeric(6,2): half a hundredth rounds up.
Canonical(payload) ==
  [k \in DOMAIN payload |->
     IF k \in {"km", "everyKm", "baselineKm", "liters"} THEN Hundredths(payload[k])
     ELSE payload[k]]

\* The CHECKs see the rounded value.
Storable(payload) == Readable(Canonical(payload))

\* No rule reads archived, deleted or active: a record made offline stays valid.
References(rows, i, payload) ==
  /\ Has(payload, "vehicle") => payload.vehicle \in DOMAIN rows
  /\ Has(payload, "partType") => payload.partType \in DOMAIN rows
  /\ Has(payload, "odometerLog") =>
       /\ payload.odometerLog \in DOMAIN rows
       /\ rows[payload.odometerLog].is.vehicle = payload.vehicle
  /\ i \in Reminder /\ ~payload.deleted =>
       \A r \in (Reminder \intersect DOMAIN rows) \ {i} :
         ~rows[r].is.deleted =>
           <<rows[r].is.vehicle, rows[r].is.partType>> # <<payload.vehicle, payload.partType>>

Accepts(rows, m) == Storable(m.payload) /\ References(rows, m.id, m.payload)

\* An odometer log is append-only: a second one with its id is a duplicate.
ApplyMutation(at, m) ==
  IF m.id \in Odometer /\ m.id \in DOMAIN at.rows THEN at
  ELSE [rows |-> [i \in DOMAIN at.rows \union {m.id} |->
                    IF i = m.id THEN [is |-> Canonical(m.payload), synced |-> at.seq + 1]
                                ELSE at.rows[i]],
        seq  |-> at.seq + 1]

-----------------------------------------------------------------------------
(* The outbox *)

\* A call writes one row, or two of different tables, in the order of its mutations.
Mutation(w) == [id |-> w.id, payload |-> w.row.is]

\* The entity write and its mutation are one transaction.
Enqueue(writes) ==
  /\ local'  = [i \in DOMAIN local \union {writes[n].id : n \in DOMAIN writes} |->
                  IF \E n \in DOMAIN writes : writes[n].id = i
                    THEN writes[CHOOSE n \in DOMAIN writes : writes[n].id = i].row
                    ELSE local[i]]
  /\ outbox' = outbox \o [n \in DOMAIN writes |-> Mutation(writes[n])]
  /\ UNCHANGED <<server, seq>>

\* What the server refuses blocks the queue of that device, and nobody sees it.
PushAtOnce(writes) ==
  LET first == ApplyMutation([rows |-> server, seq |-> seq], Mutation(writes[1]))
      after == IF Len(writes) = 1 THEN first ELSE ApplyMutation(first, Mutation(writes[2]))
  IN /\ \A n \in DOMAIN writes : Storable(writes[n].row.is)
     /\ server' = after.rows
     /\ seq'    = after.seq
     /\ UNCHANGED <<local, outbox>>

Write(d, writes) ==
  /\ edits' = [edits EXCEPT ![d] = @ + 1]
  /\ IF d = Here THEN Enqueue(writes) ELSE PushAtOnce(writes)
  /\ UNCHANGED <<clock, seen>>

Put(i, row) == [id |-> i, row |-> row]

\* generateId: a UUID nobody has drawn yet; which one does not matter.
Fresh(S) ==
  LET free == S \ (DOMAIN local \union DOMAIN server)
  IN {i \in free : i = CHOOSE j \in free : TRUE}

\* generateDeterministicId of the account, the vehicle and the part type
generateDeterministicId(v, p) == {[vehicle |-> v, partType |-> p, twin |-> FALSE]}

-----------------------------------------------------------------------------
(* Domain rules *)

isValidOdometerKm(x) == x \in 0 .. MAX_ODOMETER_KM
isValidLiters(x)     == x \in 1 .. MAX_LITERS
isValidCost(x)       == x >= 0 /\ x % 10 = 0

Optional(Valid(_), x) == \A y \in {x} \ {None} : Valid(y)

validateReminderInterval(everyKm, everyDays) ==
  /\ Optional(LAMBDA x : isValidOdometerKm(x) /\ x > 0, everyKm)
  /\ Optional(LAMBDA x : x \in 1 .. MAX_INTERVAL_DAYS, everyDays)
  /\ everyKm # None \/ everyDays # None

assertVehicleOwned(rows, v) == v \in DOMAIN rows /\ ~rows[v].is.deleted
ActivePartType(rows, p)     == p \in DOMAIN rows /\ rows[p].is.active

toCalendarDateInTimezone(t, zone) == (t + zone) \div DayLength
daysBetweenCalendarDates(from, to) == to - from
monthKey(t, zone) == toCalendarDateInTimezone(t, zone) \div MonthLength

-----------------------------------------------------------------------------
(* Repositories.  An action is the call of one repository function on device  *)
(* d, with every input the domain rules let through.                          *)

createVehicle(d) ==
  \E v \in Fresh(Vehicle) : Write(d, <<Put(v, New(VehicleFields(FALSE, FALSE, None)))>>)

\* writeVehiclePatch does not ask whether the vehicle is archived or deleted.
PatchVehicle(d, v, fields) == Write(d, <<Put(v, Patched(RowsOf(d)[v], fields))>>)

\* Edits of a vehicle there is, and the whole snapshot goes to the server.
updateVehicle(d) ==
  \E v \in Table(d, Vehicle) : PatchVehicle(d, v, RowsOf(d)[v].is)
updateVehicleDetails(d) ==
  \E v \in Table(d, Vehicle), ratio \in RatioInput :
    /\ Optional(LAMBDA x : x \in 1 .. 100, ratio)
    /\ PatchVehicle(d, v, [RowsOf(d)[v].is EXCEPT !.dueSoonRatio = ratio])
archiveVehicle(d) ==
  \E v \in Table(d, Vehicle) : PatchVehicle(d, v, [RowsOf(d)[v].is EXCEPT !.archived = TRUE])
restoreVehicle(d) ==
  \E v \in Table(d, Vehicle) : PatchVehicle(d, v, [RowsOf(d)[v].is EXCEPT !.archived = FALSE])
deleteVehicle(d) ==
  \E v \in Table(d, Vehicle) : PatchVehicle(d, v, [RowsOf(d)[v].is EXCEPT !.deleted = TRUE])

createPartType(d) ==
  \E p \in Fresh(PartType) : Write(d, <<Put(p, New([active |-> TRUE]))>>)
\* writePartTypePatch
updatePartTypeName(d) ==
  \E p \in Table(d, PartType) : Write(d, <<Put(p, RowsOf(d)[p])>>)
setPartTypeActive(d) ==
  \E p \in Table(d, PartType), active \in BOOLEAN :
    Write(d, <<Put(p, Patched(RowsOf(d)[p], [active |-> active]))>>)

assertNoActiveDuplicate(rows, v, p) ==
  \A r \in Reminder \intersect DOMAIN rows :
    rows[r].is.vehicle = v /\ rows[r].is.partType = p => rows[r].is.deleted

ReminderFields(v, p, everyKm, everyDays, km) ==
  [vehicle |-> v, partType |-> p, everyKm |-> everyKm, everyDays |-> everyDays,
   baselineKm |-> km, baselineDate |-> clock \div DayLength, enabled |-> TRUE, deleted |-> FALSE]

\* A deleted reminder comes back under its id, as a row not yet synced.
createReminderConfig(d) ==
  \E v \in Vehicle, p \in PartType, everyKm \in EveryKmInput, everyDays \in EveryDaysInput,
     km \in KmInput :
    \E r \in generateDeterministicId(v, p) :
      LET rows == RowsOf(d)
          row  == New(ReminderFields(v, p, everyKm, everyDays, km))
      IN /\ Optional(isValidOdometerKm, km)
         /\ validateReminderInterval(everyKm, everyDays)
         /\ assertVehicleOwned(rows, v)
         /\ ActivePartType(rows, p)
         /\ assertNoActiveDuplicate(rows, v, p)
         /\ r \in DOMAIN rows => rows[r].is.deleted
         /\ Write(d, <<Put(r, IF r \in DOMAIN rows THEN [row EXCEPT !.created = rows[r].created]
                              ELSE row)>>)

\* writeReminderPatch, of the intervals or of the switch.  It checks the intervals of a
\* reminder that is not deleted; the page has checked those of its dialog in any case.
updateReminderConfig(d) ==
  \E r \in Table(d, Reminder) :
    LET row == RowsOf(d)[r] IN
    \/ \E everyKm \in EveryKmInput, everyDays \in EveryDaysInput :
         /\ validateReminderInterval(everyKm, everyDays)
         /\ Write(d, <<Put(r, Patched(row, [row.is EXCEPT !.everyKm = everyKm,
                                                         !.everyDays = everyDays]))>>)
    \/ \E enabled \in BOOLEAN :
         /\ ~row.is.deleted => validateReminderInterval(row.is.everyKm, row.is.everyDays)
         /\ Write(d, <<Put(r, Patched(row, [row.is EXCEPT !.enabled = enabled]))>>)
deleteReminderConfig(d) ==
  \E r \in Table(d, Reminder) :
    LET row == RowsOf(d)[r] IN Write(d, <<Put(r, Patched(row, [row.is EXCEPT !.deleted = TRUE]))>>)

\* When the entry happened: now, or any time before.
When == 1 .. clock

addOdometerLog(d) ==
  \E v \in Vehicle, o \in Fresh(Odometer), km \in KmInput \ {None}, at \in When :
    /\ isValidOdometerKm(km)
    /\ assertVehicleOwned(RowsOf(d), v)
    /\ Write(d, <<Put(o, New([vehicle |-> v, km |-> km, at |-> at]))>>)

\* The reading of a fuel log is a row of its own.  Fault: it is written after the
\* log that refers to it.
FuelWrites_reading_last(f, fields, o) ==
  IF o = None THEN <<Put(f, New(fields))>>
  ELSE <<Put(f, New(fields)),
         Put(o.id, New([vehicle |-> fields.vehicle, km |-> o.km, at |-> fields.at]))>>
FuelWrites(f, fields, o) ==
  IF o = None THEN <<Put(f, New(fields))>>
  ELSE <<Put(o.id, New([vehicle |-> fields.vehicle, km |-> o.km, at |-> fields.at])),
         Put(f, New(fields))>>

addFuelLog(d) ==
  \E v \in Vehicle, f \in Fresh(Fuel), liters \in LitersInput, cost \in CostInput, at \in When,
     o \in {None} \union [id : Fresh(Odometer), km : KmInput \ {None}] :
    /\ Optional(isValidLiters, liters)
    /\ Optional(isValidCost, cost)
    /\ o # None => isValidOdometerKm(o.km)
    /\ assertVehicleOwned(RowsOf(d), v)
    /\ Write(d, FuelWrites(f, [vehicle |-> v, at |-> at, liters |-> liters, cost |-> cost,
                               odometerLog |-> IF o = None THEN None ELSE o.id,
                               deleted |-> FALSE], o))

\* writeFuelLogPatch: the reading stays as it was.
updateFuelLog(d) ==
  \E f \in Table(d, Fuel), liters \in LitersInput, cost \in CostInput, at \in When :
    LET row == RowsOf(d)[f] IN
    /\ Optional(isValidLiters, liters)
    /\ Optional(isValidCost, cost)
    /\ Write(d, <<Put(f, Patched(row, [row.is EXCEPT !.liters = liters, !.cost = cost, !.at = at]))>>)
deleteFuelLog(d) ==
  \E f \in Table(d, Fuel) :
    LET row == RowsOf(d)[f] IN Write(d, <<Put(f, Patched(row, [row.is EXCEPT !.deleted = TRUE]))>>)

addServiceLog(d) ==
  \E v \in Vehicle, p \in PartType, s \in Fresh(Service), km \in KmInput, cost \in CostInput,
     at \in When :
    /\ Optional(isValidOdometerKm, km)
    /\ Optional(isValidCost, cost)
    /\ assertVehicleOwned(RowsOf(d), v)
    /\ ActivePartType(RowsOf(d), p)
    /\ Write(d, <<Put(s, New([vehicle |-> v, partType |-> p, at |-> at, km |-> km, cost |-> cost,
                              deleted |-> FALSE]))>>)

\* writeServiceLogPatch: only a change of part type asks whether it is active.
updateServiceLog(d) ==
  \E s \in Table(d, Service), p \in PartType, cost \in CostInput, at \in When :
    LET row == RowsOf(d)[s] IN
    /\ Optional(isValidCost, cost)
    /\ p # row.is.partType => ActivePartType(RowsOf(d), p)
    /\ Write(d, <<Put(s, Patched(row, [row.is EXCEPT !.partType = p, !.cost = cost, !.at = at]))>>)
deleteServiceLog(d) ==
  \E s \in Table(d, Service) :
    LET row == RowsOf(d)[s] IN Write(d, <<Put(s, Patched(row, [row.is EXCEPT !.deleted = TRUE]))>>)

Repository(d) ==
  /\ edits[d] < (IF d = Here THEN MaxHere ELSE MaxThere)
  /\ \/ createVehicle(d) \/ updateVehicle(d) \/ updateVehicleDetails(d)
     \/ archiveVehicle(d) \/ restoreVehicle(d) \/ deleteVehicle(d)
     \/ createPartType(d) \/ updatePartTypeName(d) \/ setPartTypeActive(d)
     \/ createReminderConfig(d) \/ updateReminderConfig(d) \/ deleteReminderConfig(d)
     \/ addOdometerLog(d)
     \/ addFuelLog(d) \/ updateFuelLog(d) \/ deleteFuelLog(d)
     \/ addServiceLog(d) \/ updateServiceLog(d) \/ deleteServiceLog(d)

-----------------------------------------------------------------------------
(* Sync, the clock *)

\* An acknowledgment stamps the row, and only if no newer revision of it waits.  A
\* head the server does not accept is blocked, and all behind it with it.
push ==
  LET m     == Head(outbox)
      newer == \E n \in 2 .. Len(outbox) : outbox[n].id = m.id
      after == ApplyMutation([rows |-> server, seq |-> seq], m)
  IN /\ outbox # <<>>
     /\ Accepts(server, m)
     /\ server' = after.rows
     /\ seq'    = after.seq
     /\ outbox' = Tail(outbox)
     /\ local'  = IF newer THEN local
                  ELSE [local EXCEPT ![m.id].synced = after.rows[m.id].synced]
     /\ UNCHANGED <<clock, seen, edits>>

\* A page is applied only while the outbox is empty, and every change of it.
pull ==
  /\ outbox = <<>>
  /\ seen < seq
  /\ \A i \in DOMAIN server : Readable(server[i].is)
  /\ LET changed == {i \in DOMAIN server : server[i].synced > seen}
     IN local' = [i \in DOMAIN local \union changed |->
                    IF i \in changed THEN applyEntityChange(local, i, server[i]) ELSE local[i]]
  /\ seen'  = seq
  /\ UNCHANGED <<clock, outbox, server, seq, edits>>

TimePasses ==
  /\ clock < MaxClock
  /\ clock' = clock + 1
  /\ UNCHANGED <<local, outbox, seen, server, seq, edits>>

Next ==
  \/ \E d \in Device : Repository(d)
  \/ push
  \/ pull
  \/ TimePasses

Spec == Init /\ [][Next]_vars

-----------------------------------------------------------------------------
(* What the pages show *)

\* The rows of a table about a vehicle, but for deleted ones
OfVehicle(rows, S, v) ==
  {i \in S \intersect DOMAIN rows :
     rows[i].is.vehicle = v /\ ("deleted" \in DOMAIN rows[i].is => ~rows[i].is.deleted)}

\* Dexie returns rows in the order of their ids.
Logs(rows, ids) ==
  LET order == SetToSeq(ids) IN [n \in DOMAIN order |-> rows[order[n]].is]

\* The later event; then the one the server took last, then the one not yet made
\* elsewhere.
isNewer(a, b, n, k) ==
  IF a.at # b.at THEN a.at > b.at
  ELSE IF a.synced # b.synced THEN
    IF a.synced # None /\ b.synced # None THEN a.synced > b.synced ELSE a.synced # None
  ELSE IF a.created # b.created THEN a.created > b.created
  ELSE n > k

\* The loop ends at the one that is newer than all others.
Newest(logs) == {n \in DOMAIN logs : \A k \in DOMAIN logs \ {n} : isNewer(logs[n], logs[k], n, k)}
deriveLatestOdometerLog(logs) == logs[CHOOSE n \in Newest(logs) : TRUE]

deriveCurrentOdometer(logs) == IF logs = <<>> THEN None ELSE deriveLatestOdometerLog(logs).km

Reading(row) == [km |-> row.is.km, at |-> row.is.at, created |-> row.created, synced |-> row.synced]

\* Readings are those of odometer logs and of the services that noted one.
ReadingsOf(rows, v) ==
  LET order == SetToSeq(OfVehicle(rows, Odometer, v))
                 \o SetToSeq({s \in OfVehicle(rows, Service, v) : rows[s].is.km # None})
  IN [n \in DOMAIN order |-> Reading(rows[order[n]])]

getCurrentOdometer(rows, v) ==
  IF assertVehicleOwned(rows, v) THEN deriveCurrentOdometer(ReadingsOf(rows, v)) ELSE None

\* How far a vehicle and the calendar have gone through a reminder's cycles; a
\* cycle without a baseline or a reading is not among them.
Progress(config, current, last, now, zone) ==
  LET baseKm  == IF last.km # None THEN last.km ELSE config.baselineKm
      baseDay == IF last.at # None THEN toCalendarDateInTimezone(last.at, zone) ELSE config.baselineDate
      today   == toCalendarDateInTimezone(now, zone)
      AtLeast0(x) == IF x < 0 THEN 0 ELSE x
      kmCycle  == IF config.everyKm = None \/ current = None \/ baseKm = None THEN {}
                  ELSE {[used |-> AtLeast0(current - baseKm), of |-> config.everyKm]}
      dayCycle == IF config.everyDays = None \/ baseDay = None THEN {}
                  ELSE {[used |-> AtLeast0(daysBetweenCalendarDates(baseDay, today)),
                         of   |-> config.everyDays]}
  IN kmCycle \union dayCycle

DUE_SOON_REMAINING_RATIO == 90

calculateReminderStatus(config, current, last, now, zone, dueSoonRatio) ==
  LET cycles == Progress(config, current, last, now, zone) IN
  IF cycles = {} THEN "insufficient_data"
  ELSE IF \E c \in cycles : c.used >= c.of THEN "overdue"
  ELSE IF \E c \in cycles : c.used * 100 >= dueSoonRatio * c.of THEN "due_soon"
  ELSE "not_due"

\* The later event, of two at once the one that is found first.  Fault: the first
\* service found counts as the last.
Latest_first(logs) == logs[1]
Latest(logs) ==
  logs[CHOOSE n \in DOMAIN logs :
         \A k \in DOMAIN logs \ {n} : logs[k].at < logs[n].at \/ (logs[k].at = logs[n].at /\ n < k)]

\* The last service of a part, if there was one
lastServiceLog(rows, v, p) ==
  LET logs == Logs(rows, {s \in OfVehicle(rows, Service, v) : rows[s].is.partType = p})
  IN IF logs = <<>> THEN [at |-> None, km |-> None] ELSE Latest(logs)

\* The reminders of a vehicle that are on, with their status.  Only a part type
\* there is shows its reminders.
listReminderStatusesForVehicle(rows, v, zone, now) ==
  LET current == getCurrentOdometer(rows, v)
      ratio   == IF v \notin DOMAIN rows \/ rows[v].is.dueSoonRatio = None
                   THEN DUE_SOON_REMAINING_RATIO ELSE rows[v].is.dueSoonRatio
      on      == {r \in OfVehicle(rows, Reminder, v) :
                    rows[r].is.enabled /\ rows[r].is.partType \in DOMAIN rows}
  IN [r \in on |-> calculateReminderStatus(rows[r].is, current,
                     lastServiceLog(rows, v, rows[r].is.partType), now, zone, ratio)]

\* Newest first.  Of two at once the comparator prefers neither: which comes first is
\* up to the browser.
NewestFirst(logs) ==
  LET order == CHOOSE p \in Bijection(DOMAIN logs, DOMAIN logs) :
                 \A i, j \in DOMAIN logs : i < j => logs[p[i]].at >= logs[p[j]].at
  IN [n \in DOMAIN logs |-> logs[order[n]]]

\* The timeline of a vehicle
listHistoryEntries(rows, v) ==
  IF ~assertVehicleOwned(rows, v) THEN <<>>
  ELSE NewestFirst(Logs(rows, OfVehicle(rows, Fuel, v)) \o Logs(rows, OfVehicle(rows, Service, v)))

CostOf(logs) == FoldLeft(LAMBDA sum, log : IF log.cost = None THEN sum ELSE sum + log.cost, 0, logs)

\* What the logs of a month cost
Spent(logs, m, zone) ==
  FoldLeft(LAMBDA sum, log : IF log.cost = None \/ monthKey(log.at, zone) # m THEN sum
                             ELSE sum + log.cost, 0, logs)

\* What was spent in each month there was anything to pay
MonthlyCosts(fuel, service, zone) ==
  LET months == {monthKey(log.at, zone) : log \in {log \in ToSet(fuel \o service) : log.cost # None}}
  IN [m \in months |-> [fuel    |-> Spent(fuel, m, zone),
                        service |-> Spent(service, m, zone),
                        total   |-> Spent(fuel \o service, m, zone)]]

\* Fault: deleted logs still cost.
getMonthlyCosts_with_deleted(rows, v, zone) ==
  LET all(S) == Logs(rows, {i \in S \intersect DOMAIN rows : rows[i].is.vehicle = v})
  IN IF ~assertVehicleOwned(rows, v) THEN <<>> ELSE MonthlyCosts(all(Fuel), all(Service), zone)
getMonthlyCosts(rows, v, zone) ==
  IF ~assertVehicleOwned(rows, v) THEN <<>>
  ELSE MonthlyCosts(Logs(rows, OfVehicle(rows, Fuel, v)), Logs(rows, OfVehicle(rows, Service, v)), zone)

Recent(logs, now) == SelectSeq(logs, LAMBDA log : log.at >= now - CostWindow)

\* What the last instants cost, over the distance between the readings of odometer
\* logs in them.
CostPerKm(readings, fuel, service) ==
  LET kms == {log.km : log \in ToSet(readings)}
  IN IF Cardinality(kms) < 2 THEN None
     ELSE [cost |-> CostOf(fuel) + CostOf(service), km |-> Max(kms) - Min(kms)]

getCostPerKm(rows, v, now) ==
  LET recent(S) == Recent(Logs(rows, OfVehicle(rows, S, v)), now)
  IN IF ~assertVehicleOwned(rows, v) THEN None
     ELSE CostPerKm(recent(Odometer), recent(Fuel), recent(Service))

listVehicles(rows, archived) ==
  {v \in Vehicle : assertVehicleOwned(rows, v) /\ (archived \/ ~rows[v].is.archived)}

\* Everything the pages of a vehicle show
Shown(rows, v, zone) ==
  [odometer  |-> getCurrentOdometer(rows, v),
   reminders |-> listReminderStatusesForVehicle(rows, v, zone, clock),
   costs     |-> getMonthlyCosts(rows, v, zone),
   perKm     |-> getCostPerKm(rows, v, clock),
   listed    |-> v \in listVehicles(rows, FALSE)]

-----------------------------------------------------------------------------
(* Properties *)

\* Every row has the fields of its table; an outbox holds what the tables hold.
Fields(i) ==
  CASE i \in Vehicle  -> {"archived", "deleted", "dueSoonRatio"}
    [] i \in PartType -> {"active"}
    [] i \in Reminder -> {"vehicle", "partType", "everyKm", "everyDays", "baselineKm",
                          "baselineDate", "enabled", "deleted"}
    [] i \in Odometer -> {"vehicle", "km", "at"}
    [] i \in Fuel     -> {"vehicle", "at", "liters", "cost", "odometerLog", "deleted"}
    [] i \in Service  -> {"vehicle", "partType", "at", "km", "cost", "deleted"}

TypeOK ==
  /\ clock \in 1 .. MaxClock /\ edits \in [Device -> Nat]
  /\ seq \in Nat /\ seen \in 1 .. seq
  /\ DOMAIN local \subseteq Id /\ DOMAIN server \subseteq Id
  /\ \A i \in DOMAIN local : /\ DOMAIN local[i].is = Fields(i)
                            /\ local[i].synced \in 1 .. seq \union {None}
  /\ \A i \in DOMAIN server : DOMAIN server[i].is = Fields(i) /\ server[i].synced \in 1 .. seq
  /\ outbox \in Seq([id : DOMAIN local, payload : {outbox[n].payload : n \in DOMAIN outbox}])

\* The server after the first mutations of the outbox, with nothing refused
Ahead[n \in 0 .. Len(outbox)] ==
  IF n = 0 THEN [rows |-> server, seq |-> seq] ELSE ApplyMutation(Ahead[n - 1], outbox[n])

\* An amount the device takes and the server's columns round to nothing
Vanishes(payload) == \E k \in {"everyKm", "liters"} : Has(payload, k) /\ Hundredths(payload[k]) = 0

\* Pushed in its order onto the rows the server has by now, the outbox is accepted
\* to the end: what another device did meanwhile, and what the device itself did
\* after a record, leave no reference of it missing and no reminder of it a second
\* one (repositories write references first and in one transaction).  The one thing the
\* columns refuse is an amount that vanishes in them.
QueueIsAcceptable ==
  \A n \in DOMAIN outbox :
    LET m == outbox[n]
    IN /\ References(Ahead[n - 1].rows, m.id, m.payload)
       /\ Storable(m.payload) \/ Vanishes(m.payload)

\* A device that has pushed and pulled everything shows what any other one shows,
\* whatever the two typed, rounded, stamped or made themselves: odometer, reminder
\* statuses, costs.  Only createdAtClient differs, and nothing shown depends on it.
SyncedDevicesAgree ==
  outbox = <<>> /\ seen = seq =>
    \A v \in Vehicle, zone \in Offset : Shown(local, v, zone) = Shown(Pulled, v, zone)

\* A service noted now with the odometer resets its reminder, at once and offline:
\* unless some reading or service carries the same time, the reminder of that
\* vehicle and part type is not due any more.
ServiceClearsReminder ==
  [][\A s \in Service, zone \in Offset :
       s \in DOMAIN local' \ DOMAIN local /\ local'[s].synced = None /\ local'[s].is.km # None =>
         LET log    == local'[s].is
             others == ((Odometer \union Service) \intersect DOMAIN local') \ {s}
         IN log.at = clock' /\ (\A i \in others : local'[i].is.at < log.at) =>
              \A r \in Reminder :
                r \in DOMAIN listReminderStatusesForVehicle(local', log.vehicle, zone, clock')
                  /\ local'[r].is.partType = log.partType =>
                  listReminderStatusesForVehicle(local', log.vehicle, zone, clock')[r] = "not_due"]_vars

\* The history and the cost table are two queries of the same logs: in any time
\* zone, what the entries of a month cost is what the table says, and no month of
\* the table is without an entry.
HistoryAndCostsAgree ==
  \A v \in Vehicle, zone \in Offset :
    LET costs   == getMonthlyCosts(local, v, zone)
        history == listHistoryEntries(local, v)
    IN /\ \A m \in DOMAIN costs : costs[m].total = Spent(history, m, zone)
       /\ \A log \in ToSet(history) :
            log.cost # None => monthKey(log.at, zone) \in DOMAIN costs
=============================================================================
