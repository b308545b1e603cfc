----------------------------- MODULE MCSyncStore -----------------------------
(***************************************************************************)
(* Instances of SyncStore for TLC: accounts a1 and a2, devices d and e, and  *)
(* small sets of mutations, each around one family of rules.               *)
(***************************************************************************)
EXTENDS SyncStoreRefinement, TLC

CONSTANTS a1, a2, d, e,                 \* accounts and devices
          pt, px, v, u, r1, r2, o, f  \* ids

NoRefs(type, val) == [type |-> type, vehicle |-> None, part |-> None, odo |-> None,
                      deleted |-> FALSE, code |-> None, val |-> val]
Vehicle(val)       == NoRefs("vehicle", val)
Reminder(ve, gone) == [NoRefs("reminder_config", 0) EXCEPT !.vehicle = ve, !.part = pt,
                                                          !.deleted = gone]
Reading(ve, val)   == [NoRefs("odometer_log", val) EXCEPT !.vehicle = ve]
Fuel(ve, od)       == [NoRefs("fuel_log", 0) EXCEPT !.vehicle = ve, !.odo = od]
PartType(code, n)  == [NoRefs("part_type", n) EXCEPT !.code = code]

Mut(n, ac, dev, op, id, body) ==
  [mid |-> n, account |-> ac, device |-> dev, op |-> op, id |-> id, body |-> body,
   check |-> "valid"]

Values     == 0 .. 1
OneSeed    == [ac \in Account |-> IF ac = a1 THEN <<pt>> ELSE <<>>]
NoSeeds    == [ac \in Account |-> <<>>]
Singles(M) == {<<m>> : m \in M}

\* Reminders: two devices race for one scope; a deletion frees it, an undeletion
\* takes it again.
Rem(n, dev, op, id, gone) == Mut(n, a1, dev, op, id, Reminder(v, gone))
NewVehicle == Mut(1, a1, d, "create", v, Vehicle(0))
ReminderMutations ==
  {NewVehicle, Rem(2, d, "create", r1, FALSE), Rem(3, e, "create", r2, FALSE),
   Rem(4, d, "update", r1, TRUE), Rem(5, d, "update", r1, FALSE)}
ReminderBatches == Singles(ReminderMutations) \union
  {<<Rem(2, d, "create", r1, FALSE), Rem(4, d, "update", r1, TRUE)>>}

\* Logs: one id for a reading of either vehicle, a fuel log that refers to it,
\* and pulls in between.
NewReading == Mut(3, a1, d, "create", o, Reading(u, 0))
NewFuel    == Mut(4, a1, d, "create", f, Fuel(u, o))
LogMutations ==
  {NewVehicle, Mut(2, a1, d, "create", u, Vehicle(1)), NewReading, NewFuel,
   Mut(5, a1, d, "create", o, Reading(v, 1))}
LogBatches == Singles(LogMutations \ {NewReading}) \union {<<NewReading, NewFuel>>}

\* Part types: two accounts, each with its own lock, create one id; the owner
\* updates it with another code; a reading is updated, which is malformed; a
\* vehicle's ratio rounds to zero.
PartTypeMutations ==
  {Mut(1, a1, d, "create", px, PartType(px, 0)), Mut(2, a2, d, "create", px, PartType(px, 1)),
   Mut(3, a1, d, "update", px, PartType(pt, 1)), Mut(4, a1, d, "update", o, Reading(v, 0)),
   [Mut(5, a1, d, "create", v, Vehicle(0)) EXCEPT !.check = "unstorable"]}
PartTypeBatches == Singles(PartTypeMutations)
=============================================================================
