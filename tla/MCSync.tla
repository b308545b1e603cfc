------------------------------- MODULE MCSync -------------------------------
(* Instances of Sync for TLC: a vehicle v, a log l of it, a seeded part type pt. *)
EXTENDS Sync, SequencesExt, TLC

CONSTANTS v, l, pt

LogOfVehicle == [i \in Id |-> IF i = l THEN v ELSE None]
NoSeeds == <<>>
OneSeed == <<pt>>

\* The devices do the same things.
DeviceSymmetry == Permutations(Device)

\* pullChanges applies the changes of a page one by one, as they ascend.
AppliedInTurn(es, changes) ==
  FoldLeft(LAMBDA rows, c : [rows EXCEPT ![c.id] = applyChange(@, c)], es,
           SetToSortSeq(changes, LAMBDA b, c : b.seq < c.seq))

\* AppliedTo says what that comes to: every page of up to three changes, on any rows.
SomeEntity == {None} \union [by : {0}, canonical : {FALSE}, seq : 0 .. 4]
SomePage   == {cs \in SUBSET [seq : 1 .. 3, id : Id, by : {0, 1}] :
                 \A b, c \in cs : b.seq = c.seq => b = c}
ASSUME PagesInTurn ==
  \A es \in [Id -> SomeEntity], cs \in SomePage : AppliedTo(es, cs) = AppliedInTurn(es, cs)
=============================================================================
