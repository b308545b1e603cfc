---------------------------- MODULE ScreensProofs ----------------------------
(***************************************************************************)
(* What the pages promise for any number of vehicles, records, readings    *)
(* and calls in flight: every button that works is given back, and what a  *)
(* form or a dialog saves is what its user has seen and confirmed.         *)
(*                                                                         *)
(* A button is given back because the call it waits for is still to be     *)
(* answered.  That this answer is heard rests on which page makes which    *)
(* calls (MadeHere): the answer to a call of another page never frees, nor *)
(* blocks, this one.                                                       *)
(***************************************************************************)
EXTENDS Screens, FiniteSetTheorems, WellFoundedInduction, TLAPS

\* Which calls a page makes
Makes ==
  {<<"home", "reading">>, <<"log-entry", "entry">>, <<"edit", "edit">>, <<"add", "create">>}
    \union ({"settings"} \X {"archive", "delete", "restore"}) \union {<<"history", "drop">>}
    \union ({"reminders"} \X {"interval", "remove"})

\* A call is about a vehicle or a record as its kind wants it, ...
Addressed ==
  \A n \in DOMAIN calls :
    /\ calls[n].op \in {"entry", "create"} => calls[n].of \in Vehicle
    /\ calls[n].op = "edit" => calls[n].of \in Record

\* ... and one whose page has not been left was made on the page that is shown.
MadeHere == \A n \in DOMAIN calls : calls[n].here # "no" => <<route.page, calls[n].op>> \in Makes

\* A reading is being saved by the sheet that is open, or by one closed on the same page:
\* nobody hears of the readings of a page that is left.
SheetFits ==
  \A n \in DOMAIN calls : calls[n].op = "reading" =>
    /\ calls[n].then = None /\ calls[n].here # "no"
    /\ calls[n].here = "yes" => form \in Form

\* The form is that of the page: ...
FormFits == route.page \in {"log-entry", "edit", "add"} => form \in Form /\ form.of = route.of

\* ... a date nobody has touched is shown as the form's zone shows the entry's instant, ...
DateFits ==
  route.page = "edit" =>
    /\ form.original \in Instant /\ form.zone \in Zone
    /\ ~form.touched => form.input = toLocalDateTimeInput(form.original, form.zone)

\* ... and whoever is about to confirm a reading has been warned of it.
ConfirmFits == form # None => (form.confirm => form.warned)

\* Only the lists have an item at work, ...
WorkFits == dialog.busy # None => route.page \in {"settings", "history", "reminders"}

\* ... the fields of an open interval dialog are those of its reminder, and a dialog of the
\* settings archives or deletes.
DialogFits ==
  dialog.pending # None =>
    /\ dialog.pending[1] = "interval" => dialog.fields = dialog.pending[2]
    /\ route.page = "settings" =>
         dialog.pending[1] \in {"archive", "delete"} /\ dialog.pending[2] \in Vehicle

PInv ==
  /\ Addressed /\ MadeHere /\ SheetFits /\ FormFits /\ DateFits /\ ConfirmFits
  /\ WorkFits /\ DialogFits

IInv == TypeOK /\ PInv /\ BusyEnds

-----------------------------------------------------------------------------
(* Sequences of calls *)

\* Every call of ds is a call of cs: what it asks for is the same, its page does not hear
\* more of it, and a reading is not kept for a page that does not hear of it.
From(cs, ds) ==
  \A n \in DOMAIN ds : \E m \in DOMAIN cs :
    /\ ds[n].op = cs[m].op /\ ds[n].of = cs[m].of /\ ds[n].then = cs[m].then
    /\ ds[n].op = "reading" /\ ds[n].here = "no" => cs[m].here = "no" \/ cs[m].then # None
    /\ ds[n].here # "no" => cs[m].here # "no"
    /\ ds[n].here = "yes" => cs[m].here = "yes"

LEMMA Element ==
  ASSUME NEW S, NEW s \in Seq(S)
  PROVE  /\ Len(s) \in Nat /\ DOMAIN s = 1 .. Len(s)
         /\ \A n \in 1 .. Len(s) : s[n] \in S
OBVIOUS

LEMMA Rest ==
  ASSUME NEW S, NEW s \in Seq(S), s # <<>>
  PROVE  /\ Head(s) \in S /\ Head(s) = s[1]
         /\ Tail(s) \in Seq(S) /\ Len(Tail(s)) = Len(s) - 1
         /\ \A n \in 1 .. Len(Tail(s)) : Tail(s)[n] = s[n + 1]
OBVIOUS

LEMMA Appended ==
  ASSUME NEW S, NEW s \in Seq(S), NEW e \in S
  PROVE  /\ Append(s, e) \in Seq(S) /\ Len(Append(s, e)) = Len(s) + 1
         /\ Append(s, e)[Len(s) + 1] = e
         /\ \A n \in 1 .. Len(s) : Append(s, e)[n] = s[n]
OBVIOUS

LEMMA Mapped ==
  ASSUME NEW S, NEW k \in Nat, NEW s \in [1 .. k -> S]
  PROVE  s \in Seq(S) /\ Len(s) = k /\ DOMAIN s = 1 .. k
OBVIOUS

LEMMA CallFields ==
  ASSUME NEW c \in CallRecord
  PROVE  /\ c.op \in {"reading", "entry", "edit", "create", "archive", "delete", "restore",
                      "drop", "interval", "remove"}
         /\ c.of \in Vehicle \union Record \union {None}
         /\ c.here \in {"yes", "closed", "no"}
         /\ c.then \in Vehicle \union {None, "add"}
BY DEF CallRecord

LEMMA CallExcept ==
  ASSUME NEW c \in CallRecord, NEW h \in {"yes", "closed", "no"}
  PROVE  /\ [c EXCEPT !.here = h] \in CallRecord
         /\ [c EXCEPT !.here = h].op = c.op /\ [c EXCEPT !.here = h].of = c.of
         /\ [c EXCEPT !.here = h].here = h /\ [c EXCEPT !.here = h].then = c.then
BY DEF CallRecord

LEMMA TailFrom ==
  ASSUME NEW cs \in Seq(CallRecord), cs # <<>>
  PROVE  /\ Tail(cs) \in Seq(CallRecord) /\ Len(Tail(cs)) <= Len(cs)
         /\ From(cs, Tail(cs))
         /\ \A n \in DOMAIN cs : n # 1 => n - 1 \in DOMAIN Tail(cs) /\ Tail(cs)[n - 1] = cs[n]
<1>1. Len(cs) \in Nat /\ DOMAIN cs = 1 .. Len(cs)
  BY Element
<1>2. /\ Tail(cs) \in Seq(CallRecord) /\ Len(Tail(cs)) = Len(cs) - 1
      /\ DOMAIN Tail(cs) = 1 .. Len(Tail(cs))
      /\ \A n \in 1 .. Len(Tail(cs)) : Tail(cs)[n] = cs[n + 1]
  BY Rest, Element
<1>3. ASSUME NEW n \in DOMAIN Tail(cs) PROVE n + 1 \in DOMAIN cs /\ Tail(cs)[n] = cs[n + 1]
  BY <1>1, <1>2
<1>4. From(cs, Tail(cs))
  BY <1>3 DEF From
<1>5. ASSUME NEW n \in DOMAIN cs, n # 1
      PROVE  n - 1 \in DOMAIN Tail(cs) /\ Tail(cs)[n - 1] = cs[n]
  BY <1>1, <1>2, <1>5
<1> QED BY <1>1, <1>2, <1>4, <1>5

LEMMA LeftFrom ==
  ASSUME NEW cs \in Seq(CallRecord), NEW stays \in BOOLEAN, NEW ds \in Left(cs, stays)
  PROVE  /\ ds \in Seq(CallRecord) /\ Len(ds) <= Len(cs)
         /\ From(cs, ds)
         /\ stays => ds = cs
         /\ ~stays => \A n \in DOMAIN ds : ds[n].here = "no"
<1>1. Len(cs) \in Nat /\ DOMAIN cs = 1 .. Len(cs) /\ \A n \in 1 .. Len(cs) : cs[n] \in CallRecord
  BY Element
<1>2. CASE stays
  <2>1. ds = cs
    BY <1>2 DEF Left
  <2> QED BY <1>1, <1>2, <2>1 DEF From
<1>3. CASE ~stays
  <2> DEFINE acts == {n \in DOMAIN cs : cs[n].op \in {"entry", "edit", "create"} \/ cs[n].then # None}
             size == Cardinality(acts)
  <2>1. size \in Nat /\ size <= Len(cs)
    <3>1. IsFiniteSet(1 .. Len(cs)) /\ Cardinality(1 .. Len(cs)) = Len(cs)
      BY <1>1, FS_Interval
    <3>2. acts \subseteq 1 .. Len(cs)
      BY <1>1
    <3> QED BY <3>1, <3>2, FS_Subset, FS_CardinalityType
  <2>2. PICK f \in [1 .. size -> acts] : ds = [n \in DOMAIN f |-> [cs[f[n]] EXCEPT !.here = "no"]]
    BY <1>3 DEF Left
  <2> HIDE DEF size
  <2>3. /\ DOMAIN f = 1 .. size
        /\ \A n \in 1 .. size : /\ f[n] \in DOMAIN cs
                                /\ cs[f[n]].op = "reading" => cs[f[n]].then # None
    BY <2>2
  <2>4. ASSUME NEW n \in 1 .. size
        PROVE  /\ ds[n] \in CallRecord /\ ds[n].here = "no"
               /\ ds[n].op = cs[f[n]].op /\ ds[n].of = cs[f[n]].of
               /\ ds[n].then = cs[f[n]].then
    <3>1. PICK c \in CallRecord : c = cs[f[n]]
      BY <1>1, <2>3
    <3>2. ds[n] = [c EXCEPT !.here = "no"]
      BY <2>2, <2>3, <3>1
    <3>3. /\ ds[n] \in CallRecord /\ ds[n].here = "no"
          /\ ds[n].op = c.op /\ ds[n].of = c.of /\ ds[n].then = c.then
      <4>1. /\ [c EXCEPT !.here = "no"] \in CallRecord /\ [c EXCEPT !.here = "no"].here = "no"
            /\ [c EXCEPT !.here = "no"].op = c.op /\ [c EXCEPT !.here = "no"].of = c.of
            /\ [c EXCEPT !.here = "no"].then = c.then
        BY CallExcept
      <4> QED BY <3>2, <4>1
    <3> QED BY <3>1, <3>3
  <2>5. DOMAIN ds = 1 .. size /\ ds = [n \in 1 .. size |-> ds[n]]
    BY <2>2, <2>3
  <2>6. ds \in [1 .. size -> CallRecord]
    BY <2>4, <2>5
  <2>7. ds \in Seq(CallRecord) /\ Len(ds) = size
    BY <2>1, <2>6, Mapped
  <2>8. From(cs, ds)
    BY <2>3, <2>4, <2>5 DEF From
  <2> QED BY <1>3, <2>1, <2>4, <2>5, <2>7, <2>8
<1> QED BY <1>2, <1>3

LEMMA SheetLeftFrom ==
  ASSUME NEW cs \in Seq(CallRecord)
  PROVE  /\ SheetLeft(cs) \in Seq(CallRecord) /\ Len(SheetLeft(cs)) = Len(cs)
         /\ From(cs, SheetLeft(cs))
         /\ \A n \in DOMAIN SheetLeft(cs) : SheetLeft(cs)[n].here # "yes"
<1>1. Len(cs) \in Nat /\ DOMAIN cs = 1 .. Len(cs) /\ \A n \in 1 .. Len(cs) : cs[n] \in CallRecord
  BY Element
<1> DEFINE ds == SheetLeft(cs)
<1>2. ASSUME NEW n \in 1 .. Len(cs)
      PROVE  /\ ds[n] \in CallRecord
             /\ ds[n].op = cs[n].op /\ ds[n].of = cs[n].of /\ ds[n].then = cs[n].then
             /\ ds[n].here # "no" <=> cs[n].here # "no"
             /\ ds[n].here # "yes"
  <2>1. PICK c \in CallRecord : c = cs[n]
    BY <1>1
  <2>2. PICK h \in {"yes", "closed", "no"} : h = (IF c.here = "yes" THEN "closed" ELSE c.here)
    <3>1. c.here \in {"yes", "closed", "no"}
      BY CallFields
    <3> QED BY <3>1
  <2>3. ds[n] = [c EXCEPT !.here = h]
    BY <1>1, <2>1, <2>2 DEF SheetLeft
  <2>4. /\ ds[n] \in CallRecord /\ ds[n].here = h
        /\ ds[n].op = c.op /\ ds[n].of = c.of /\ ds[n].then = c.then
    <3>1. /\ [c EXCEPT !.here = h] \in CallRecord /\ [c EXCEPT !.here = h].here = h
          /\ [c EXCEPT !.here = h].op = c.op /\ [c EXCEPT !.here = h].of = c.of
          /\ [c EXCEPT !.here = h].then = c.then
      BY CallExcept
    <3> QED BY <2>3, <3>1
  <2>5. h # "yes" /\ (h # "no" <=> c.here # "no")
    BY <2>2
  <2>6. ds[n] \in CallRecord /\ ds[n].op = cs[n].op /\ ds[n].of = cs[n].of /\ ds[n].then = cs[n].then
    BY <2>1, <2>4
  <2>7. ds[n].here # "yes" /\ (ds[n].here # "no" <=> cs[n].here # "no")
    BY <2>1, <2>4, <2>5
  <2> QED BY <2>6, <2>7
<1>3. DOMAIN ds = 1 .. Len(cs) /\ ds = [n \in 1 .. Len(cs) |-> ds[n]]
  BY <1>1 DEF SheetLeft
<1>4. ds \in [1 .. Len(cs) -> CallRecord]
  BY <1>2, <1>3
<1>5. ds \in Seq(CallRecord) /\ Len(ds) = Len(cs)
  BY <1>1, <1>4, Mapped
<1>6. From(cs, ds)
  BY <1>1, <1>2, <1>3 DEF From
<1> QED BY <1>2, <1>3, <1>5, <1>6

LEMMA RequestAppends ==
  ASSUME calls \in Seq(CallRecord), NEW c \in CallRecord, Request(c)
  PROVE  /\ calls' \in Seq(CallRecord) /\ Len(calls') = Len(calls) + 1 /\ Len(calls) \in Nat
         /\ DOMAIN calls' = 1 .. Len(calls) + 1 /\ DOMAIN calls = 1 .. Len(calls)
         /\ calls'[Len(calls) + 1] = c /\ Last(calls') = c
         /\ \A n \in DOMAIN calls : calls'[n] = calls[n] /\ calls[n].here # "no"
<1>1. calls' = Append(calls, c) /\ \A n \in DOMAIN calls : calls[n].here # "no"
  BY DEF Request
<1>2. Len(calls) \in Nat /\ DOMAIN calls = 1 .. Len(calls)
  BY Element
<1>3. /\ calls' \in Seq(CallRecord) /\ Len(calls') = Len(calls) + 1
      /\ calls'[Len(calls) + 1] = c /\ \A n \in 1 .. Len(calls) : calls'[n] = calls[n]
  BY <1>1, Appended
<1>4. DOMAIN calls' = 1 .. Len(calls) + 1
  BY <1>3, Element
<1>5. Last(calls') = c
  BY <1>3 DEF Last
<1> QED BY <1>1, <1>2, <1>3, <1>4, <1>5

-----------------------------------------------------------------------------
(* Pages, forms and dialogs *)

LEMMA RouteFields ==
  ASSUME NEW r \in Route
  PROVE  /\ r.page \in {"home", "log-entry", "history", "reminders", "edit", "root", "settings", "add"}
         /\ r.of \in Vehicle \union Record \union {None}
         /\ r.page \in {"home", "log-entry", "history", "reminders"} => r.of \in Vehicle
         /\ r.page = "edit" => r.of \in Record
         /\ r.page \in {"root", "settings", "add"} => r.of = None
BY DEF Route

LEMMA VehicleOfType == ASSUME NEW r \in Route PROVE VehicleOf(r) \in Vehicle \union {None}
BY RouteFields, OwnerAssumption DEF VehicleOf

\* A page that stays is the same page; a form that stays is that of the same vehicle or entry.
LEMMA SameInstance ==
  ASSUME NEW r \in Route, NEW q \in Route, Instance(r) = Instance(q)
  PROVE  r.page = q.page /\ (r.page \in {"log-entry", "edit", "add"} => r.of = q.of)
<1>1. ASSUME NEW s \in Route
      PROVE  /\ Instance(s).page = s.page
             /\ s.page \in {"log-entry", "edit"} => Instance(s).of = s.of
  BY DEF Instance, Route
<1>2. r.page = q.page
  BY <1>1
<1> QED BY <1>1, <1>2, RouteFields

LEMMA MinuteOf == ASSUME NEW i \in Instant, NEW z \in Zone PROVE toLocalDateTimeInput(i, z) \in Minute
BY DEF Minute

LEMMA FormFields ==
  ASSUME NEW f \in Form
  PROVE  /\ f.of \in Vehicle \union Record \union {None} /\ f.value \in Reading \union {None}
         /\ f.confirm \in BOOLEAN /\ f.warned \in BOOLEAN /\ f.busy \in BOOLEAN
         /\ f.touched \in BOOLEAN
         /\ f.original \in Instant \union {None} /\ f.zone \in Zone \union {None}
         /\ f.input \in Minute \union {None}
BY DEF Form

LEMMA BlankForm ==
  ASSUME NEW of \in Vehicle \union Record \union {None}
  PROVE  /\ Blank(of) \in Form /\ Blank(of).of = of
         /\ Blank(of).confirm = FALSE /\ Blank(of).busy = FALSE
BY DEF Blank, Form

LEMMA EditFormFits ==
  ASSUME NEW of \in Vehicle \union Record \union {None}, NEW i \in Instant
  PROVE  /\ EditForm(of, i) \in Form /\ EditForm(of, i).of = of
         /\ EditForm(of, i).confirm = FALSE /\ EditForm(of, i).busy = FALSE
         /\ EditForm(of, i).original = i /\ EditForm(of, i).zone \in Zone
         /\ EditForm(of, i).input = toLocalDateTimeInput(i, EditForm(of, i).zone)
<1>1. PICK z \in Zone : z = AccountZone
  BY DEF Zone, AccountZone
<1>2. PICK m \in Minute : m = toLocalDateTimeInput(i, z)
  BY MinuteOf
<1>3. PICK b \in Form : b = Blank(of) /\ b.of = of /\ b.confirm = FALSE /\ b.busy = FALSE
  BY BlankForm
<1>4. EditForm(of, i) = [b EXCEPT !.original = i, !.zone = z, !.input = m]
  BY <1>1, <1>2, <1>3 DEF EditForm
<1>5. PICK g : g = [b EXCEPT !.original = i, !.zone = z, !.input = m]
  OBVIOUS
<1>6. /\ g \in Form /\ g.of = b.of /\ g.confirm = b.confirm /\ g.busy = b.busy
      /\ g.original = i /\ g.zone = z /\ g.input = m
  BY <1>5 DEF Form
<1> QED BY <1>2, <1>3, <1>4, <1>5, <1>6

\* What a page starts with
LEMMA FormsFit ==
  ASSUME NEW r \in Route, NEW f \in FormsOf(r)
  PROVE  /\ f \in {None} \union Form
         /\ f # None => f.confirm = FALSE /\ f.busy = FALSE
         /\ r.page \in {"log-entry", "edit", "add"} => f \in Form /\ f.of = r.of
         /\ r.page = "edit" => /\ f.original \in Instant /\ f.zone \in Zone
                               /\ f.input = toLocalDateTimeInput(f.original, f.zone)
<1>1. CASE r.page = "edit"
  <2>1. PICK i \in Instant : f = EditForm(r.of, i)
    BY <1>1 DEF FormsOf
  <2>2. PICK of \in Vehicle \union Record \union {None} : of = r.of
    BY RouteFields
  <2>3. f = EditForm(of, i)
    BY <2>1, <2>2
  <2>4. /\ f \in Form /\ f.of = of /\ f.confirm = FALSE /\ f.busy = FALSE
        /\ f.original = i /\ f.zone \in Zone /\ f.input = toLocalDateTimeInput(i, f.zone)
    BY <2>3, EditFormFits
  <2> QED BY <1>1, <2>2, <2>4
<1>2. CASE r.page \in {"log-entry", "add"}
  <2>1. f = Blank(r.of)
    BY <1>2 DEF FormsOf
  <2>2. r.of \in Vehicle \union Record \union {None}
    BY RouteFields
  <2> QED BY <1>2, <2>1, <2>2, BlankForm
<1>3. CASE r.page \notin {"edit", "log-entry", "add"}
  <2>1. f = None
    BY <1>3 DEF FormsOf
  <2> QED BY <1>3, <2>1
<1> QED BY <1>1, <1>2, <1>3

LEMMA DialogFields ==
  ASSUME NEW d \in Dialog
  PROVE  /\ d.pending \in {None} \union
              ({"archive", "delete", "drop", "interval", "remove"} \X (Vehicle \union Record))
         /\ d.busy \in Vehicle \union Record \union {None, "page"}
         /\ d.fields \in Record \union {None}
         /\ d.preferred \in Vehicle \union {None}
         /\ d = [pending |-> d.pending, busy |-> d.busy, fields |-> d.fields, preferred |-> d.preferred]
BY DEF Dialog

LEMMA ClosedDialog ==
  ASSUME NEW p \in Vehicle \union {None}
  PROVE  /\ Closed(p) \in Dialog /\ Closed(p).busy = None /\ Closed(p).pending = None
BY DEF Closed, Dialog

-----------------------------------------------------------------------------
(* The invariant is kept by every part of a step. *)

\* What the calls promise is promised of any selection of them, on the page that makes them.
LEMMA FromKeeps ==
  ASSUME Addressed, MadeHere, From(calls, calls'),
         route'.page = route.page \/ \A n \in DOMAIN calls' : calls'[n].here = "no"
  PROVE  Addressed' /\ MadeHere'
<1>1. Addressed'
  BY DEF Addressed, From
<1>2. ASSUME NEW n \in DOMAIN calls', calls'[n].here # "no"
      PROVE  <<route'.page, calls'[n].op>> \in Makes
  <2>1. PICK m \in DOMAIN calls : calls'[n].op = calls[m].op /\ calls[m].here # "no"
    BY <1>2 DEF From
  <2>2. <<route.page, calls[m].op>> \in Makes
    BY <2>1 DEF MadeHere
  <2> QED BY <1>2, <2>1, <2>2
<1>3. MadeHere'
  BY <1>2 DEF MadeHere
<1> QED BY <1>1, <1>3

\* One more call, made on its page
LEMMA RequestKeeps ==
  ASSUME calls \in Seq(CallRecord), Addressed, MadeHere, NEW c \in CallRecord, Request(c),
         route' = route, <<route.page, c.op>> \in Makes,
         c.op \in {"entry", "create"} => c.of \in Vehicle, c.op = "edit" => c.of \in Record
  PROVE  Addressed' /\ MadeHere'
<1>1. /\ DOMAIN calls' = 1 .. Len(calls) + 1 /\ DOMAIN calls = 1 .. Len(calls) /\ Len(calls) \in Nat
      /\ calls'[Len(calls) + 1] = c /\ \A n \in DOMAIN calls : calls'[n] = calls[n]
  BY RequestAppends
<1>2. ASSUME NEW n \in DOMAIN calls'
      PROVE  (n \in DOMAIN calls /\ calls'[n] = calls[n]) \/ calls'[n] = c
  BY <1>1
<1>3. Addressed'
  BY <1>2 DEF Addressed
<1>4. MadeHere'
  BY <1>2 DEF MadeHere
<1> QED BY <1>3, <1>4

\* The controls that work wait for the calls they had, ...
Waiting(cs) ==
  /\ form # None /\ form.busy =>
       \E n \in DOMAIN cs : cs[n].here = "yes" /\ FormCall(cs[n])
  /\ dialog.busy # None =>
       \E n \in DOMAIN cs : cs[n].here = "yes" /\ dialog.busy \in {"page", cs[n].of}

\* ... unless it is theirs that is answered.
LEMMA Others ==
  ASSUME TypeOK, calls # <<>>, NEW n \in DOMAIN calls, calls[n] # Head(calls)
  PROVE  \E m \in DOMAIN Tail(calls) : Tail(calls)[m] = calls[n]
<1>1. calls \in Seq(CallRecord)
  BY DEF TypeOK
<1>2. Head(calls) = calls[1]
  BY <1>1, Rest
<1>3. n # 1 => n - 1 \in DOMAIN Tail(calls) /\ Tail(calls)[n - 1] = calls[n]
  BY <1>1, TailFrom
<1> QED BY <1>2, <1>3

LEMMA FormWaits ==
  ASSUME IInv, calls # <<>>, ~FormCall(Head(calls)) \/ Head(calls).here # "yes",
         form # None, form.busy
  PROVE  \E n \in DOMAIN Tail(calls) : Tail(calls)[n].here = "yes" /\ FormCall(Tail(calls)[n])
<1>1. PICK n \in DOMAIN calls : calls[n].here = "yes" /\ FormCall(calls[n])
  BY DEF IInv, BusyEnds
<1>2. calls[n] # Head(calls)
  BY <1>1
<1> QED BY <1>1, <1>2, Others DEF IInv

LEMMA DialogWaits ==
  ASSUME IInv, calls # <<>>, Head(calls).here # "yes", dialog.busy # None
  PROVE  \E n \in DOMAIN Tail(calls) :
           Tail(calls)[n].here = "yes" /\ dialog.busy \in {"page", Tail(calls)[n].of}
<1>1. PICK n \in DOMAIN calls : calls[n].here = "yes" /\ dialog.busy \in {"page", calls[n].of}
  BY DEF IInv, BusyEnds
<1>2. calls[n] # Head(calls)
  BY <1>1
<1> QED BY <1>1, <1>2, Others DEF IInv

LEMMA WaitingRest == ASSUME IInv, calls # <<>>, Head(calls).here # "yes" PROVE Waiting(Tail(calls))
BY FormWaits, DialogWaits DEF Waiting

LEMMA FromTransitive ==
  ASSUME NEW cs, NEW ds, NEW es, From(cs, ds), From(ds, es)
  PROVE  From(cs, es)
BY DEF From

\* A page comes: it is the same one, with the calls that remain, or starts anew.
LEMMA MountKeeps ==
  ASSUME IInv, NEW r \in Route, NEW stays \in BOOLEAN, stays => Instance(r) = Instance(route),
         NEW cs \in Seq(CallRecord), From(calls, cs), stays => Waiting(cs),
         Mount(r, stays), calls' \in Left(cs, stays),
         garage' \in [Vehicle -> Status], listed' \subseteq Vehicle,
         remembered' \in Vehicle \union {None}
  PROVE  IInv'
<1>1. /\ route' = r /\ route \in Route
      /\ stays => form' = form /\ dialog' = dialog
      /\ ~stays => /\ form' \in FormsOf(r)
                   /\ \E p \in Vehicle \union {None} : dialog' = Closed(p)
  BY DEF Mount, IInv, TypeOK
<1>2. zone' \in Zone /\ current' \in Reading \union {None}
  BY DEF Mount, Zone, AccountZone
<1>3. /\ calls' \in Seq(CallRecord) /\ From(cs, calls')
      /\ stays => calls' = cs
      /\ ~stays => \A n \in DOMAIN calls' : calls'[n].here = "no"
  BY LeftFrom
<1>4. stays => r.page = route.page /\ (r.page \in {"log-entry", "edit", "add"} => r.of = route.of)
  BY <1>1, SameInstance
<1>5. Addressed' /\ MadeHere'
  <2>1. From(calls, calls')
    BY <1>3, FromTransitive
  <2>2. route'.page = route.page \/ \A n \in DOMAIN calls' : calls'[n].here = "no"
    BY <1>1, <1>3, <1>4
  <2> QED BY <2>1, <2>2, FromKeeps DEF IInv, PInv
<1>6. ASSUME stays PROVE IInv'
  <2>1. TypeOK'
    BY <1>1, <1>2, <1>3, <1>6 DEF IInv, TypeOK
  <2>2. SheetFits'
    <3>1. From(calls, calls')
      BY <1>3, FromTransitive
    <3> QED BY <1>1, <1>6, <3>1 DEF IInv, PInv, SheetFits, From
  <2>3. FormFits' /\ DateFits' /\ ConfirmFits'
    BY <1>1, <1>4, <1>6 DEF IInv, PInv, FormFits, DateFits, ConfirmFits
  <2>4. WorkFits' /\ DialogFits'
    BY <1>1, <1>4, <1>6 DEF IInv, PInv, WorkFits, DialogFits
  <2>5. BusyEnds'
    BY <1>1, <1>3, <1>6 DEF BusyEnds, Waiting
  <2> QED BY <1>5, <2>1, <2>2, <2>3, <2>4, <2>5 DEF IInv, PInv
<1>7. ASSUME ~stays PROVE IInv'
  <2>1. PICK f \in FormsOf(r) : form' = f
    BY <1>1, <1>7
  <2>2. /\ f \in {None} \union Form
        /\ f # None => f.confirm = FALSE /\ f.busy = FALSE
        /\ r.page \in {"log-entry", "edit", "add"} => f \in Form /\ f.of = r.of
        /\ r.page = "edit" => /\ f.original \in Instant /\ f.zone \in Zone
                              /\ f.input = toLocalDateTimeInput(f.original, f.zone)
    BY FormsFit
  <2>3. dialog' \in Dialog /\ dialog'.busy = None /\ dialog'.pending = None
    BY <1>1, <1>7, ClosedDialog
  <2>4. TypeOK'
    BY <1>1, <1>2, <1>3, <2>1, <2>2, <2>3 DEF TypeOK
  <2>5. FormFits' /\ DateFits' /\ ConfirmFits'
    BY <1>1, <2>1, <2>2 DEF FormFits, DateFits, ConfirmFits
  <2>6. SheetFits'
    <3>1. From(calls, calls')
      BY <1>3, FromTransitive
    <3>2. ASSUME NEW n \in DOMAIN calls' PROVE calls'[n].op # "reading"
      <4>1. PICK m \in DOMAIN calls :
              /\ calls'[n].op = calls[m].op
              /\ calls'[n].op = "reading" => calls[m].here = "no" \/ calls[m].then # None
        BY <1>3, <1>7, <3>1 DEF From
      <4> QED BY <4>1 DEF IInv, PInv, SheetFits
    <3> QED BY <3>2 DEF SheetFits
  <2>7. WorkFits' /\ DialogFits' /\ BusyEnds'
    BY <2>1, <2>2, <2>3 DEF WorkFits, DialogFits, BusyEnds
  <2> QED BY <1>5, <2>4, <2>5, <2>6, <2>7 DEF IInv, PInv
<1> QED BY <1>6, <1>7

\* The form changes, and is not saved.
LEMMA FormKeeps ==
  ASSUME IInv, UNCHANGED <<garage, listed, route, remembered, zone, dialog>>,
         current' \in Reading \union {None}, form' \in {None} \union Form,
         calls' \in Seq(CallRecord), From(calls, calls'),
         SheetFits', FormFits', DateFits', ConfirmFits',
         form' # None /\ form'.busy => form # None /\ form.busy,
         calls' = calls \/ (form' = None /\ dialog.busy = None)
  PROVE  IInv'
<1>1. TypeOK'
  BY DEF IInv, TypeOK
<1>2. Addressed' /\ MadeHere'
  BY FromKeeps DEF IInv, PInv
<1>3. WorkFits' /\ DialogFits'
  BY DEF IInv, PInv, WorkFits, DialogFits
<1>4. BusyEnds'
  <2>1. CASE calls' = calls
    BY <2>1 DEF IInv, BusyEnds
  <2>2. CASE form' = None /\ dialog.busy = None
    BY <2>2 DEF BusyEnds
  <2> QED BY <2>1, <2>2
<1> QED BY <1>1, <1>2, <1>3, <1>4 DEF IInv, PInv

\* A dialog opens, closes or selects; nothing is asked.
LEMMA DialogKeeps ==
  ASSUME IInv, UNCHANGED <<garage, listed, route, zone, current, form, calls>>,
         remembered' \in Vehicle \union {None},
         dialog' \in Dialog, dialog'.busy = dialog.busy, DialogFits'
  PROVE  IInv'
<1>1. TypeOK'
  BY DEF IInv, TypeOK
<1>2. /\ Addressed' /\ MadeHere' /\ SheetFits' /\ FormFits' /\ DateFits' /\ ConfirmFits'
      /\ WorkFits'
  BY DEF IInv, PInv, Addressed, MadeHere, SheetFits, FormFits, DateFits, ConfirmFits, WorkFits
<1>3. BusyEnds'
  BY DEF IInv, BusyEnds
<1> QED BY <1>1, <1>2, <1>3 DEF IInv, PInv

\* A form is saved: what it waits for is the new call.
LEMMA SaveKeeps ==
  ASSUME IInv, NEW f \in Form, NEW c \in CallRecord, Save(f, c), FormOnly,
         <<route.page, c.op>> \in Makes, FormCall(c), c.here = "yes", c.then = None,
         c.op \in {"entry", "create"} => c.of \in Vehicle, c.op = "edit" => c.of \in Record,
         form # None, form \in Form, f.of = form.of, f.original = form.original, f.zone = form.zone,
         f.input = form.input, f.touched = form.touched, f.warned = form.warned,
         f.confirm => form.confirm
  PROVE  IInv'
<1> DEFINE g == [f EXCEPT !.busy = TRUE]
<1>1. form' = g /\ Request(c)
  BY DEF Save
<1>2. g \in Form /\ g.of = f.of /\ g.original = f.original /\ g.zone = f.zone /\ g.input = f.input
      /\ g.touched = f.touched /\ g.warned = f.warned /\ g.confirm = f.confirm
  BY DEF Form
<1> HIDE DEF g
<1>3. calls \in Seq(CallRecord)
  BY DEF IInv, TypeOK
<1>4. /\ calls' \in Seq(CallRecord) /\ Len(calls) \in Nat
      /\ DOMAIN calls' = 1 .. Len(calls) + 1 /\ DOMAIN calls = 1 .. Len(calls)
      /\ calls'[Len(calls) + 1] = c
      /\ \A n \in DOMAIN calls : calls'[n] = calls[n]
  BY <1>1, <1>3, RequestAppends
<1>5. UNCHANGED <<garage, listed, route, remembered, zone, dialog, current>>
  BY DEF FormOnly, SheetOnly
<1>6. TypeOK'
  BY <1>1, <1>2, <1>4, <1>5 DEF IInv, TypeOK
<1>7. Addressed' /\ MadeHere'
  BY <1>1, <1>3, <1>5, RequestKeeps DEF IInv, PInv
<1>8. SheetFits'
  <2>1. ASSUME NEW n \in DOMAIN calls' PROVE (n \in DOMAIN calls /\ calls'[n] = calls[n]) \/ calls'[n] = c
    BY <1>4
  <2> QED BY <1>1, <1>2, <2>1 DEF IInv, PInv, SheetFits
<1>9. FormFits' /\ DateFits' /\ ConfirmFits'
  BY <1>1, <1>2, <1>5 DEF IInv, PInv, FormFits, DateFits, ConfirmFits
<1>10. WorkFits' /\ DialogFits'
  BY <1>5 DEF IInv, PInv, WorkFits, DialogFits
<1>11. BusyEnds'
  <2>1. Len(calls) + 1 \in DOMAIN calls' /\ \A n \in DOMAIN calls : n \in DOMAIN calls'
    BY <1>4
  <2>2. \E n \in DOMAIN calls' : calls'[n].here = "yes" /\ FormCall(calls'[n])
    BY <1>4, <2>1
  <2>3. dialog'.busy # None =>
          \E n \in DOMAIN calls' : calls'[n].here = "yes" /\ dialog'.busy \in {"page", calls'[n].of}
    BY <1>4, <1>5, <2>1 DEF IInv, BusyEnds
  <2> QED BY <2>2, <2>3 DEF BusyEnds
<1> QED BY <1>6, <1>7, <1>8, <1>9, <1>10, <1>11 DEF IInv, PInv

\* An item, or a page, is at work: it waits for the new call.
LEMMA WorkKeeps ==
  ASSUME IInv, NEW b \in Vehicle \union Record \union {"page"}, NEW c \in CallRecord,
         dialog' = [dialog EXCEPT !.busy = b], Request(c), DialogOnly,
         route.page \in {"settings", "history", "reminders"},
         <<route.page, c.op>> \in Makes, ~FormCall(c), c.here = "yes", b \in {"page", c.of}
  PROVE  IInv'
<1>1. calls \in Seq(CallRecord) /\ dialog \in Dialog
  BY DEF IInv, TypeOK
<1>2. /\ calls' \in Seq(CallRecord) /\ Len(calls) \in Nat
      /\ DOMAIN calls' = 1 .. Len(calls) + 1 /\ DOMAIN calls = 1 .. Len(calls)
      /\ calls'[Len(calls) + 1] = c
      /\ \A n \in DOMAIN calls : calls'[n] = calls[n]
  BY <1>1, RequestAppends
<1>3. UNCHANGED <<garage, listed, route, remembered, zone, current, form>>
  BY DEF DialogOnly
<1>4. /\ dialog' \in Dialog /\ dialog'.busy = b
      /\ dialog'.pending = dialog.pending /\ dialog'.fields = dialog.fields
  BY <1>1 DEF Dialog
<1>5. TypeOK'
  BY <1>2, <1>3, <1>4 DEF IInv, TypeOK
<1>6. Addressed' /\ MadeHere'
  BY <1>1, <1>3, RequestKeeps DEF IInv, PInv, FormCall
<1>7. SheetFits'
  <2>1. ASSUME NEW n \in DOMAIN calls' PROVE (n \in DOMAIN calls /\ calls'[n] = calls[n]) \/ calls'[n] = c
    BY <1>2
  <2> QED BY <1>3, <2>1 DEF IInv, PInv, SheetFits, FormCall
<1>8. FormFits' /\ DateFits' /\ ConfirmFits' /\ WorkFits' /\ DialogFits'
  BY <1>3, <1>4 DEF IInv, PInv, FormFits, DateFits, ConfirmFits, WorkFits, DialogFits
<1>9. BusyEnds'
  <2>1. Len(calls) + 1 \in DOMAIN calls' /\ \A n \in DOMAIN calls : n \in DOMAIN calls'
    BY <1>2
  <2>2. \E n \in DOMAIN calls' : calls'[n].here = "yes" /\ dialog'.busy \in {"page", calls'[n].of}
    BY <1>2, <1>4, <2>1
  <2>3. form' # None /\ form'.busy =>
          \E n \in DOMAIN calls' : calls'[n].here = "yes" /\ FormCall(calls'[n])
    BY <1>2, <1>3, <2>1 DEF IInv, BusyEnds
  <2> QED BY <2>2, <2>3 DEF BusyEnds
<1> QED BY <1>5, <1>6, <1>7, <1>8, <1>9 DEF IInv, PInv

\* Nothing of the page itself changes.
LEMMA ElsewhereKeeps ==
  ASSUME IInv, Elsewhere, garage' \in [Vehicle -> Status], listed' \subseteq Vehicle,
         zone' \in Zone, current' \in Reading \union {None}
  PROVE  IInv'
<1>1. UNCHANGED <<route, remembered, form, dialog, calls>>
  BY DEF Elsewhere
<1>2. TypeOK'
  BY <1>1 DEF IInv, TypeOK
<1>3. /\ Addressed' /\ MadeHere' /\ SheetFits' /\ FormFits' /\ DateFits' /\ ConfirmFits'
      /\ WorkFits' /\ DialogFits'
  BY <1>1 DEF IInv, PInv, Addressed, MadeHere, SheetFits, FormFits, DateFits, ConfirmFits, WorkFits,
              DialogFits
<1>4. BusyEnds'
  BY <1>1 DEF IInv, BusyEnds
<1> QED BY <1>2, <1>3, <1>4 DEF IInv, PInv

-----------------------------------------------------------------------------
(* The steps, and what the calls of a step are allowed to be *)

LoweringStep ==
  /\ Made("reading") /\ Lower(form.value) => form.warned
  /\ Made("entry") /\ form.value # None /\ Lower(form.value) => form.warned
DatesStep ==
  Made("edit") => /\ ~form.touched => EditedAt = form.original
                  /\ toLocalDateTimeInput(EditedAt, form.zone) = form.input
RecordStep ==
  /\ Made("entry") \/ Made("edit") => form.of = Last(calls').of
  /\ Made("interval") => dialog.fields = Last(calls').of

Goal == IInv' /\ LoweringStep /\ DatesStep /\ RecordStep

\* A step that makes no call
LEMMA Quiet ==
  ASSUME IInv', calls \in Seq(CallRecord), Len(calls') <= Len(calls)
  PROVE  Goal
<1>1. Len(calls) \in Nat /\ Len(calls') \in Nat
  BY Element DEF IInv, TypeOK
<1>2. ~(Len(calls') > Len(calls))
  BY <1>1
<1> QED BY <1>2 DEF Goal, LoweringStep, DatesStep, RecordStep, Made

LEMMA QuietUnchanged ==
  ASSUME IInv', calls' = calls
  PROVE  Goal
<1>1. calls \in Seq(CallRecord) /\ Len(calls') <= Len(calls)
  BY Element DEF IInv, TypeOK
<1> QED BY <1>1, Quiet

LEMMA Selected ==
  ASSUME IInv
  PROVE  /\ calls \in Seq(CallRecord) /\ From(calls, calls) /\ Waiting(calls)
         /\ Len(calls) \in Nat
<1>1. calls \in Seq(CallRecord)
  BY DEF IInv, TypeOK
<1> QED BY <1>1, Element DEF IInv, BusyEnds, Waiting, From

LEMMA RemembersType ==
  ASSUME IInv, NEW r \in Route, NEW g
  PROVE  Remembers(r, g) \in Vehicle \union {None}
BY VehicleOfType DEF Remembers, IInv, TypeOK

\* Going to a page, with calls of it or of the one that is left
LEMMA Going ==
  ASSUME IInv, NEW r \in Route, NEW stays \in BOOLEAN, stays => Stays(r), Mount(r, stays),
         remembered' \in Vehicle \union {None}, calls' \in Left(calls, stays),
         UNCHANGED <<garage, listed>>
  PROVE  Goal
<1>1. calls \in Seq(CallRecord) /\ From(calls, calls) /\ Waiting(calls)
  BY Selected
<1>2. garage' \in [Vehicle -> Status] /\ listed' \subseteq Vehicle
  BY DEF IInv, TypeOK
<1>3. stays => Instance(r) = Instance(route)
  BY DEF Stays
<1>4. IInv'
  BY <1>1, <1>2, <1>3, MountKeeps
<1>5. Len(calls') <= Len(calls)
  BY <1>1, LeftFrom
<1> QED BY <1>1, <1>4, <1>5, Quiet

LEMMA StaysIsBoolean == ASSUME NEW r PROVE Stays(r) \in BOOLEAN
BY DEF Stays

LEMMA VisitKeeps == ASSUME IInv, NEW r \in Route, Visit(r) PROVE Goal
<1>1. /\ calls' \in Left(calls, Stays(r)) /\ UNCHANGED <<garage, listed>>
      /\ remembered' = Remembers(r, garage) /\ Mount(r, Stays(r))
  BY DEF Visit, Leave, Show
<1>2. remembered' \in Vehicle \union {None} /\ Stays(r) \in BOOLEAN
  BY <1>1, RemembersType, StaysIsBoolean
<1> QED BY <1>1, <1>2, Going

LEMMA HomeIsRoute == ASSUME NEW v \in Vehicle PROVE Home(v) \in Route
BY DEF Home, Route

LEMMA AddIsRoute == Add \in Route
BY DEF Add, Route

LEMMA FallbackIsRoute == ASSUME IInv PROVE Fallback \subseteq Route
<1>1. listed \subseteq Vehicle
  BY DEF IInv, TypeOK
<1> QED BY <1>1, HomeIsRoute, AddIsRoute DEF Fallback

LEMMA SwitchKeeps == ASSUME IInv, NEW v \in Vehicle, SwitchVehicleSheet(v) PROVE Goal
<1> DEFINE r == [page |-> Section(route.page), of |-> v]
<1>1. r \in Route
  BY DEF Section, Route
<1>2. /\ calls' \in Left(calls, Stays(r)) /\ UNCHANGED <<garage, listed>>
      /\ remembered' = v /\ Mount(r, Stays(r))
  BY DEF SwitchVehicleSheet, Leave
<1> HIDE DEF r
<1>3. remembered' \in Vehicle \union {None} /\ Stays(r) \in BOOLEAN
  BY <1>2, StaysIsBoolean
<1> QED BY <1>1, <1>2, <1>3, Going

LEMMA AppShellKeeps == ASSUME IInv, AppShell PROVE Goal
<1>1. PICK r \in Fallback : Show(r, garage, FALSE)
  BY DEF AppShell
<1>2. r \in Route
  BY FallbackIsRoute
<1>3. /\ calls' \in Left(calls, FALSE) /\ UNCHANGED <<garage, listed>>
      /\ remembered' = Remembers(r, garage) /\ Mount(r, FALSE)
  BY <1>1 DEF AppShell, Show
<1>4. remembered' \in Vehicle \union {None}
  BY <1>2, <1>3, RemembersType
<1> QED BY <1>2, <1>3, <1>4, Going

LEMMA RootRedirectKeeps == ASSUME IInv, RootRedirect PROVE Goal
<1>1. PICK r \in (IF remembered \in listed THEN {Home(remembered)} ELSE Fallback) : Navigate(r)
  BY DEF RootRedirect
<1>2. r \in Route
  <2>1. listed \subseteq Vehicle
    BY DEF IInv, TypeOK
  <2> QED BY <1>1, <2>1, HomeIsRoute, FallbackIsRoute
<1>3. /\ calls' \in Left(calls, Stays(r)) /\ UNCHANGED <<garage, listed>>
      /\ remembered' = Remembers(r, garage) /\ Mount(r, Stays(r))
  BY <1>1 DEF RootRedirect, Navigate, Show
<1>4. remembered' \in Vehicle \union {None} /\ Stays(r) \in BOOLEAN
  BY <1>2, <1>3, RemembersType, StaysIsBoolean
<1> QED BY <1>2, <1>3, <1>4, Going

-----------------------------------------------------------------------------
(* Forms *)

LEMMA OpenSheetKeeps == ASSUME IInv, OpenOdometerSheet PROVE Goal
<1>1. /\ route.page = "home" /\ current' \in Reading \union {None} /\ calls' = calls
      /\ UNCHANGED <<garage, listed, route, remembered, zone, dialog>>
  BY DEF OpenOdometerSheet, SheetOnly
<1>2. PICK x \in Reading \union {None} : x = current'
  BY <1>1
<1>3. PICK b \in Form : b = Blank(None) /\ b.confirm = FALSE /\ b.busy = FALSE
  BY BlankForm
<1>4. form' = [b EXCEPT !.value = x]
  BY <1>2, <1>3 DEF OpenOdometerSheet
<1>5. form' \in Form /\ form'.confirm = FALSE /\ form'.busy = FALSE
  BY <1>3, <1>4 DEF Form
<1>6. SheetFits' /\ FormFits' /\ DateFits' /\ ConfirmFits'
  BY <1>1, <1>5 DEF IInv, PInv, SheetFits, FormFits, DateFits, ConfirmFits
<1>7. IInv'
  BY <1>1, <1>5, <1>6, FormKeeps, Selected
<1> QED BY <1>1, <1>7, QuietUnchanged

LEMMA CloseSheetKeeps == ASSUME IInv, CloseOdometerSheet PROVE Goal
<1>1. /\ route.page = "home" /\ current' = None /\ form' = None /\ calls' = SheetLeft(calls)
      /\ UNCHANGED <<garage, listed, route, remembered, zone, dialog>>
  BY DEF CloseOdometerSheet, SheetOnly
<1>2. calls \in Seq(CallRecord) /\ Len(calls) \in Nat
  BY Selected
<1>3. /\ calls' \in Seq(CallRecord) /\ From(calls, calls') /\ Len(calls') = Len(calls)
      /\ \A n \in DOMAIN calls' : calls'[n].here # "yes"
  BY <1>1, <1>2, SheetLeftFrom
<1>4. dialog.busy = None
  BY <1>1 DEF IInv, PInv, WorkFits
<1>5. SheetFits' /\ FormFits' /\ DateFits' /\ ConfirmFits'
  <2>1. SheetFits'
    BY <1>3 DEF IInv, PInv, SheetFits, From
  <2> QED BY <1>1, <2>1 DEF FormFits, DateFits, ConfirmFits
<1>6. IInv'
  BY <1>1, <1>3, <1>4, <1>5, FormKeeps
<1> QED BY <1>2, <1>3, <1>6, Quiet

\* A step that only changes the form that is there
LEMMA TypingKeeps ==
  ASSUME IInv, FormOnly, calls' = calls, form # None, form' \in Form,
         form'.of = form.of, form'.original = form.original, form'.zone = form.zone,
         form'.busy = form.busy, form'.confirm => form'.warned,
         ~form'.touched => ~form.touched /\ form'.input = form.input
  PROVE  Goal
<1>1. UNCHANGED <<garage, listed, route, remembered, zone, dialog, current>>
  BY DEF FormOnly, SheetOnly
<1>2. SheetFits' /\ FormFits' /\ DateFits' /\ ConfirmFits'
  BY <1>1 DEF IInv, PInv, SheetFits, FormFits, DateFits, ConfirmFits
<1>3. current' \in Reading \union {None}
  BY <1>1 DEF IInv, TypeOK
<1>4. IInv'
  BY <1>1, <1>2, <1>3, FormKeeps, Selected
<1> QED BY <1>4, QuietUnchanged

LEMMA FormIsForm == ASSUME IInv, form # None PROVE form \in Form
BY DEF IInv, TypeOK

LEMMA TypeReadingKeeps == ASSUME IInv, NEW x \in Reading, TypeReading(x) PROVE Goal
<1>1. form # None /\ form \in Form /\ calls' = calls /\ FormOnly
  BY FormIsForm DEF TypeReading
<1>2. PICK f \in Form : f = form
  BY <1>1
<1> DEFINE g == [f EXCEPT !.value = x, !.warned = FALSE]
<1>3. /\ g \in Form /\ g.of = f.of /\ g.original = f.original /\ g.zone = f.zone
      /\ g.busy = f.busy /\ g.confirm = f.confirm /\ g.touched = f.touched /\ g.input = f.input
  BY DEF Form
<1>4. form' = updateValue(g) \/ (~f.confirm /\ form' = g)
  BY <1>2 DEF TypeReading
<1> HIDE DEF g
<1>5. CASE form' = updateValue(g)
  <2>1. /\ form' \in Form /\ form'.of = g.of /\ form'.original = g.original /\ form'.zone = g.zone
        /\ form'.busy = g.busy /\ form'.confirm = FALSE /\ form'.touched = g.touched
        /\ form'.input = g.input
    BY <1>3, <1>5 DEF updateValue, Form
  <2> QED BY <1>1, <1>2, <1>3, <2>1, TypingKeeps
<1>6. CASE ~f.confirm /\ form' = g
  BY <1>1, <1>2, <1>3, <1>6, TypingKeeps
<1> QED BY <1>4, <1>5, <1>6

LEMMA TypeDateKeeps == ASSUME IInv, NEW m \in Minute, TypeDate(m) PROVE Goal
<1>1. route.page = "edit" /\ calls' = calls /\ FormOnly
      /\ form' = [form EXCEPT !.input = m, !.touched = TRUE]
  BY DEF TypeDate
<1>2. form \in Form
  BY <1>1 DEF IInv, PInv, FormFits
<1>3. /\ form' \in Form /\ form'.of = form.of /\ form'.original = form.original
      /\ form'.zone = form.zone /\ form'.busy = form.busy /\ form'.confirm = form.confirm
      /\ form'.warned = form.warned /\ form'.touched = TRUE
  BY <1>1, <1>2 DEF Form
<1>4. UNCHANGED <<garage, listed, route, remembered, zone, dialog, current>>
  BY <1>1 DEF FormOnly, SheetOnly
<1>5. SheetFits' /\ FormFits' /\ DateFits' /\ ConfirmFits'
  BY <1>1, <1>2, <1>3, <1>4, FormAssumption DEF IInv, PInv, SheetFits, FormFits, DateFits, ConfirmFits
<1>6. current' \in Reading \union {None} /\ form # None
  BY <1>2, <1>4, FormAssumption DEF IInv, TypeOK
<1>7. IInv'
  BY <1>1, <1>3, <1>4, <1>5, <1>6, FormKeeps, Selected
<1> QED BY <1>1, <1>7, QuietUnchanged

LEMMA DismissWarningKeeps == ASSUME IInv, DismissWarning PROVE Goal
<1>1. form # None /\ form \in Form /\ calls' = calls /\ FormOnly
      /\ form' = [form EXCEPT !.confirm = FALSE]
  BY FormIsForm DEF DismissWarning
<1>2. /\ form' \in Form /\ form'.of = form.of /\ form'.original = form.original
      /\ form'.zone = form.zone /\ form'.busy = form.busy /\ form'.confirm = FALSE
      /\ form'.touched = form.touched /\ form'.input = form.input
  BY <1>1 DEF Form
<1> QED BY <1>1, <1>2, TypingKeeps

LEMMA WarnKeeps == ASSUME IInv, form # None, Warn, FormOnly PROVE Goal
<1>1. form \in Form /\ calls' = calls /\ form' = [form EXCEPT !.confirm = TRUE, !.warned = TRUE]
  BY FormIsForm DEF Warn
<1>2. /\ form' \in Form /\ form'.of = form.of /\ form'.original = form.original
      /\ form'.zone = form.zone /\ form'.busy = form.busy /\ form'.warned = TRUE
      /\ form'.touched = form.touched /\ form'.input = form.input
  BY <1>1 DEF Form
<1> QED BY <1>1, <1>2, TypingKeeps

LEMMA CallType ==
  ASSUME NEW op \in {"reading", "entry", "edit", "create", "archive", "delete", "restore",
                     "drop", "interval", "remove"},
         NEW of \in Vehicle \union Record \union {None}
  PROVE  /\ Call(op, of) \in CallRecord /\ Call(op, of).op = op /\ Call(op, of).of = of
         /\ Call(op, of).here = "yes" /\ Call(op, of).then = None
BY DEF Call, CallRecord

\* What a save asks for is the call that is made, and no other.
LEMMA SaveMakes ==
  ASSUME IInv, NEW f, NEW c \in CallRecord, Save(f, c)
  PROVE  Last(calls') = c /\ \A op : Made(op) => c.op = op
<1>1. Request(c)
  BY DEF Save
<1> QED BY <1>1, Selected, RequestAppends DEF Made

LEMMA ConfirmedIsWarned == ASSUME IInv, form # None, form.confirm PROVE form.warned
BY DEF IInv, PInv, ConfirmFits

LEMMA SaveReadingKeeps == ASSUME IInv, saveReading PROVE Goal
<1>1. /\ route.page = "home" /\ form # None /\ form \in Form /\ FormOnly
      /\ IF Lower(form.value) /\ ~form.confirm THEN Warn ELSE Save(form, Call("reading", None))
  BY FormIsForm DEF saveReading, Enabled
<1>2. CASE Lower(form.value) /\ ~form.confirm
  BY <1>1, <1>2, WarnKeeps
<1>3. CASE ~(Lower(form.value) /\ ~form.confirm)
  <2>1. PICK c \in CallRecord :
          /\ c = Call("reading", None) /\ c.op = "reading" /\ c.here = "yes" /\ c.then = None
    BY CallType
  <2>2. Save(form, c)
    BY <1>1, <1>3, <2>1
  <2>3. <<route.page, c.op>> \in Makes /\ FormCall(c)
    BY <1>1, <2>1 DEF Makes, FormCall
  <2>4. IInv'
    BY <1>1, <2>1, <2>2, <2>3, SaveKeeps
  <2>5. ~Made("entry") /\ ~Made("edit") /\ ~Made("interval")
    BY <2>1, <2>2, SaveMakes
  <2>6. Lower(form.value) => form.warned
    BY <1>1, <1>3, ConfirmedIsWarned
  <2> QED BY <2>4, <2>5, <2>6 DEF Goal, LoweringStep, DatesStep, RecordStep
<1> QED BY <1>2, <1>3

LEMMA PrepareSaveKeeps == ASSUME IInv, NEW kind \in {"fuel", "service"}, prepareSave(kind) PROVE Goal
<1> DEFINE reading == displayedOdometerKm(kind)
           asks == reading # None /\ Lower(reading) /\ ~form.confirm
<1>1. /\ route.page = "log-entry" /\ form # None /\ form \in Form /\ FormOnly
      /\ IF asks THEN Warn
         ELSE Save([form EXCEPT !.confirm = FALSE], Call("entry", route.of))
  BY FormIsForm DEF prepareSave, Enabled
<1>2. form.value # None => reading = form.value
  BY DEF displayedOdometerKm
<1> HIDE DEF reading
<1>3. CASE asks
  BY <1>1, <1>3, WarnKeeps
<1>4. CASE ~asks
  <2>1. route.of \in Vehicle
    BY <1>1, RouteFields DEF IInv, TypeOK
  <2>2. PICK v \in Vehicle : v = route.of
    BY <2>1
  <2>3. PICK c \in CallRecord :
          /\ c = Call("entry", v) /\ c.op = "entry" /\ c.here = "yes" /\ c.then = None /\ c.of = v
    BY CallType
  <2>4. PICK f \in Form :
          /\ f = [form EXCEPT !.confirm = FALSE]
          /\ f.of = form.of /\ f.original = form.original /\ f.zone = form.zone
          /\ f.input = form.input /\ f.touched = form.touched /\ f.warned = form.warned
          /\ f.confirm = FALSE
    <3> DEFINE g == [form EXCEPT !.confirm = FALSE]
    <3>1. /\ g \in Form /\ g.of = form.of /\ g.original = form.original /\ g.zone = form.zone
          /\ g.input = form.input /\ g.touched = form.touched /\ g.warned = form.warned
          /\ g.confirm = FALSE
      BY <1>1 DEF Form
    <3> HIDE DEF g
    <3> QED BY <3>1 DEF g
  <2>5. Save(f, c)
    BY <1>1, <1>4, <2>2, <2>3, <2>4
  <2>6. <<route.page, c.op>> \in Makes /\ FormCall(c)
    BY <1>1, <2>3 DEF Makes, FormCall
  <2>7. IInv'
    BY <1>1, <2>3, <2>4, <2>5, <2>6, SaveKeeps
  <2>8. Last(calls') = c /\ ~Made("reading") /\ ~Made("edit") /\ ~Made("interval")
    BY <2>3, <2>5, SaveMakes
  <2>9. form.value # None /\ Lower(form.value) => form.warned
    BY <1>1, <1>2, <1>4, ConfirmedIsWarned
  <2>10. form.of = Last(calls').of
    BY <1>1, <2>2, <2>3, <2>8 DEF IInv, PInv, FormFits
  <2> QED BY <2>7, <2>8, <2>9, <2>10 DEF Goal, LoweringStep, DatesStep, RecordStep
<1> QED BY <1>3, <1>4

\* The least element of a set of numbers
Below == {p \in Nat \X Nat : p[1] < p[2]}

LEMMA BelowIsLess == \A x, y \in Nat : <<x, y>> \in Below <=> x < y
BY DEF Below

LEMMA BelowIsFounded == IsWellFoundedOn(Below, Nat)
<1>1. Below = OpToRel(<, Nat)
  BY DEF Below, OpToRel
<1> QED BY <1>1, NatLessThanWellFounded, Zenon

LEMMA Least ==
  ASSUME NEW T \in SUBSET Nat, T # {}
  PROVE  \E m \in T : \A k \in T : m <= k
<1>1. PICK m \in T : \A k \in T : <<k, m>> \notin Below
  BY WFMin, BelowIsFounded
<1>2. \A k \in T : ~(k < m)
  BY <1>1, BelowIsLess
<1> QED BY <1>2

\* A date that is not refused is the original one, or one the zone shows that way.
LEMMA Resolved ==
  ASSUME NEW input, NEW original, NEW z,
         resolveLogEntryTimestamp(input, original, z) # None
  PROVE  LET at == resolveLogEntryTimestamp(input, original, z)
         IN /\ input = toLocalDateTimeInput(original, z) => at = original
            /\ toLocalDateTimeInput(at, z) = input
<1> DEFINE at == resolveLogEntryTimestamp(input, original, z)
           times == {i \in Instant : toLocalDateTimeInput(i, z) = input}
<1>1. CASE input = toLocalDateTimeInput(original, z)
  <2>1. at = original
    BY <1>1 DEF resolveLogEntryTimestamp
  <2> QED BY <1>1, <2>1
<1>2. CASE input # toLocalDateTimeInput(original, z)
  <2>1. times # {} /\ at = (CHOOSE i \in times : \A j \in times : i <= j)
    BY <1>2 DEF resolveLogEntryTimestamp
  <2>2. times \subseteq Nat
    BY InstantAssumption
  <2>3. \E i \in times : \A j \in times : i <= j
    BY <2>1, <2>2, Least
  <2>4. at \in times
    BY <2>1, <2>3
  <2> QED BY <1>2, <2>4
<1> QED BY <1>1, <1>2

LEMMA SaveEntryKeeps == ASSUME IInv, saveEntry PROVE Goal
<1>1. /\ route.page = "edit" /\ form # None /\ form \in Form /\ FormOnly
      /\ EditedAt # None /\ Save(form, Call("edit", route.of))
  BY FormIsForm DEF saveEntry, Enabled
<1>2. PICK r \in Record : r = route.of
  BY <1>1, RouteFields DEF IInv, TypeOK
<1>3. PICK c \in CallRecord : c = Call("edit", r) /\ c.op = "edit" /\ c.here = "yes" /\ c.then = None /\ c.of = r
  BY CallType
<1>4. <<route.page, c.op>> \in Makes /\ FormCall(c) /\ Save(form, c)
  BY <1>1, <1>2, <1>3 DEF Makes, FormCall
<1>5. IInv'
  BY <1>1, <1>3, <1>4, SaveKeeps
<1>6. Last(calls') = c /\ ~Made("reading") /\ ~Made("entry") /\ ~Made("interval")
  BY <1>3, <1>4, SaveMakes
<1>7. form.of = Last(calls').of
  BY <1>1, <1>2, <1>3, <1>6 DEF IInv, PInv, FormFits
<1>8. /\ form.input = toLocalDateTimeInput(form.original, form.zone) => EditedAt = form.original
      /\ toLocalDateTimeInput(EditedAt, form.zone) = form.input
  BY <1>1, Resolved DEF EditedAt
<1>9. ~form.touched => form.input = toLocalDateTimeInput(form.original, form.zone)
  BY <1>1 DEF IInv, PInv, DateFits
<1> QED BY <1>5, <1>6, <1>7, <1>8, <1>9 DEF Goal, LoweringStep, DatesStep, RecordStep

LEMMA HandleSubmitKeeps == ASSUME IInv, handleSubmit PROVE Goal
<1>1. PICK v \in Vehicle : Save(form, Call("create", v))
  BY DEF handleSubmit
<1>2. route.page = "add" /\ form # None /\ form \in Form /\ FormOnly
  BY FormIsForm DEF handleSubmit, Enabled
<1>3. PICK c \in CallRecord : c = Call("create", v) /\ c.op = "create" /\ c.here = "yes" /\ c.then = None /\ c.of = v
  BY CallType
<1>4. <<route.page, c.op>> \in Makes /\ FormCall(c) /\ Save(form, c)
  BY <1>1, <1>2, <1>3 DEF Makes, FormCall
<1>5. IInv'
  BY <1>2, <1>3, <1>4, SaveKeeps
<1>6. ~Made("reading") /\ ~Made("entry") /\ ~Made("edit") /\ ~Made("interval")
  BY <1>3, <1>4, SaveMakes
<1> QED BY <1>5, <1>6 DEF Goal, LoweringStep, DatesStep, RecordStep

-----------------------------------------------------------------------------
(* Lists *)

LEMMA DialogsType ==
  ASSUME IInv, NEW d \in Dialogs(route.page)
  PROVE  /\ d \in {"archive", "delete", "drop", "interval", "remove"} \X (Vehicle \union Record)
         /\ d[1] = "interval" => d[2] \in Record
         /\ route.page = "settings" => d[1] \in {"archive", "delete"} /\ d[2] \in Vehicle
<1>1. route.page \in {"settings", "history", "reminders"}
  BY DEF Dialogs
<1>2. CASE route.page = "settings"
  <2>1. d \in GarageDialogs
    BY <1>2 DEF Dialogs
  <2>2. \E v \in Vehicle : d = <<"archive", v>> \/ d = <<"delete", v>>
    BY <2>1 DEF GarageDialogs
  <2> QED BY <2>2
<1>3. CASE route.page = "history"
  <2>1. d \in HistoryDialogs
    BY <1>3 DEF Dialogs
  <2>2. \E r \in Record : d = <<"drop", r>>
    BY <2>1 DEF HistoryDialogs
  <2> QED BY <1>3, <2>2
<1>4. CASE route.page = "reminders"
  <2>1. d \in ReminderDialogs
    BY <1>4 DEF Dialogs
  <2>2. d \in {"interval", "remove"} \X Record
    BY <2>1 DEF ReminderDialogs
  <2> QED BY <1>4, <2>2
<1> QED BY <1>1, <1>2, <1>3, <1>4

LEMMA OpenDialogKeeps == ASSUME IInv, NEW d \in Dialogs(route.page), OpenDialog(d) PROVE Goal
<1>1. UNCHANGED <<garage, listed, route, remembered, zone, current, form, calls>>
      /\ dialog' = [dialog EXCEPT !.pending = d, !.fields = Loaded(d)]
  BY DEF OpenDialog, DialogOnly
<1>2. dialog \in Dialog
  BY DEF IInv, TypeOK
<1>3. PICK fields \in Record \union {None} : fields = Loaded(d) /\ (d[1] = "interval" => fields = d[2])
  BY <1>2, DialogsType, DialogFields DEF Loaded
<1>4. dialog' \in Dialog /\ dialog'.busy = dialog.busy /\ dialog'.pending = d /\ dialog'.fields = fields
  BY <1>1, <1>2, <1>3, DialogsType DEF Dialog
<1>5. DialogFits'
  BY <1>1, <1>3, <1>4, DialogsType DEF DialogFits
<1>6. remembered' \in Vehicle \union {None}
  BY <1>1 DEF IInv, TypeOK
<1>7. IInv'
  BY <1>1, <1>4, <1>5, <1>6, DialogKeeps
<1> QED BY <1>1, <1>7, QuietUnchanged

LEMMA DismissDialogKeeps == ASSUME IInv, DismissDialog PROVE Goal
<1>1. UNCHANGED <<garage, listed, route, remembered, zone, current, form, calls>>
      /\ dialog' = [dialog EXCEPT !.pending = None]
  BY DEF DismissDialog, DialogOnly
<1>2. dialog \in Dialog /\ remembered' \in Vehicle \union {None}
  BY <1>1 DEF IInv, TypeOK
<1>3. dialog' \in Dialog /\ dialog'.busy = dialog.busy /\ dialog'.pending = None
  BY <1>1, <1>2 DEF Dialog
<1>4. IInv'
  BY <1>1, <1>2, <1>3, DialogKeeps DEF DialogFits
<1> QED BY <1>1, <1>4, QuietUnchanged

LEMMA SelectVehicleKeeps == ASSUME IInv, NEW v \in Vehicle, selectVehicle(v) PROVE Goal
<1>1. UNCHANGED <<garage, listed, route, zone, current, form, calls>>
      /\ remembered' = v /\ dialog' = [dialog EXCEPT !.preferred = v]
  BY DEF selectVehicle
<1>2. dialog \in Dialog
  BY DEF IInv, TypeOK
<1>3. /\ dialog' \in Dialog /\ dialog'.busy = dialog.busy /\ dialog'.pending = dialog.pending
      /\ dialog'.fields = dialog.fields
  BY <1>1, <1>2 DEF Dialog
<1>4. DialogFits'
  BY <1>1, <1>3 DEF IInv, PInv, DialogFits
<1>5. IInv'
  BY <1>1, <1>3, <1>4, DialogKeeps
<1> QED BY <1>1, <1>5, QuietUnchanged

\* A list's call: it is not a form's.
LEMMA WorkGoal ==
  ASSUME IInv, NEW b \in Vehicle \union Record \union {"page"}, NEW c \in CallRecord,
         dialog' = [dialog EXCEPT !.busy = b], Request(c), DialogOnly,
         route.page \in {"settings", "history", "reminders"},
         <<route.page, c.op>> \in Makes, c.here = "yes", b \in {"page", c.of},
         c.op = "interval" => dialog.fields = c.of
  PROVE  Goal
<1>1. c.op \notin {"reading", "entry", "edit", "create"}
  BY DEF Makes
<1>2. IInv'
  BY <1>1, WorkKeeps DEF FormCall
<1>3. Last(calls') = c /\ \A op : Made(op) => c.op = op
  BY Selected, RequestAppends DEF Made
<1>4. ~Made("reading") /\ ~Made("entry") /\ ~Made("edit")
  BY <1>1, <1>3
<1>5. Made("interval") => dialog.fields = Last(calls').of
  BY <1>3
<1> QED BY <1>2, <1>4, <1>5 DEF Goal, LoweringStep, DatesStep, RecordStep

LEMMA ReplacementType ==
  ASSUME IInv, NEW op, NEW v \in Vehicle
  PROVE  Replacement(op, v) \in Vehicle \union {None, "add"}
<1>1. listed \subseteq Vehicle
  BY DEF IInv, TypeOK
<1>2. CASE op = "restore"
  BY <1>2 DEF Replacement
<1>3. CASE op # "restore" /\ (v # activeVehicleId \/ listed \ {v} = {})
  BY <1>3 DEF Replacement
<1>4. CASE op # "restore" /\ v = activeVehicleId /\ listed \ {v} # {}
  <2>1. Replacement(op, v) = (CHOOSE w \in listed \ {v} : TRUE)
    BY <1>4 DEF Replacement
  <2>2. Replacement(op, v) \in listed \ {v}
    BY <1>4, <2>1
  <2> QED BY <1>1, <2>2
<1> QED BY <1>2, <1>3, <1>4

LEMMA SettingsCallType ==
  ASSUME IInv, NEW op \in {"archive", "delete", "restore"}, NEW v \in Vehicle
  PROVE  /\ SettingsCall(op, v) \in CallRecord /\ SettingsCall(op, v).op = op
         /\ SettingsCall(op, v).of = v /\ SettingsCall(op, v).here = "yes"
<1>1. PICK c \in CallRecord : c = Call(op, v) /\ c.op = op /\ c.of = v /\ c.here = "yes"
  BY CallType
<1>2. PICK w \in Vehicle \union {None, "add"} : w = Replacement(op, v)
  BY ReplacementType
<1>3. SettingsCall(op, v) = [c EXCEPT !.then = w]
  BY <1>1, <1>2 DEF SettingsCall
<1>4. /\ [c EXCEPT !.then = w] \in CallRecord /\ [c EXCEPT !.then = w].op = c.op
      /\ [c EXCEPT !.then = w].of = c.of /\ [c EXCEPT !.then = w].here = c.here
  BY DEF CallRecord
<1> QED BY <1>1, <1>3, <1>4

LEMMA ConfirmKeeps == ASSUME IInv, confirm PROVE Goal
<1> DEFINE op == dialog.pending[1]
           v == dialog.pending[2]
<1>1. /\ route.page = "settings" /\ dialog.pending # None
      /\ dialog' = [dialog EXCEPT !.busy = v] /\ Request(SettingsCall(op, v)) /\ DialogOnly
  BY DEF confirm, Work
<1>2. op \in {"archive", "delete"} /\ v \in Vehicle
  BY <1>1 DEF IInv, PInv, DialogFits
<1> HIDE DEF op, v
<1>3. PICK c \in CallRecord : c = SettingsCall(op, v) /\ c.op = op /\ c.of = v /\ c.here = "yes"
  BY <1>2, SettingsCallType
<1>4. <<route.page, c.op>> \in Makes /\ c.op # "interval"
  BY <1>1, <1>2, <1>3 DEF Makes
<1> QED BY <1>1, <1>2, <1>3, <1>4, WorkGoal

LEMMA RestoreKeeps == ASSUME IInv, NEW v \in Vehicle, restore(v) PROVE Goal
<1>1. /\ route.page = "settings"
      /\ dialog' = [dialog EXCEPT !.busy = v] /\ Request(SettingsCall("restore", v)) /\ DialogOnly
  BY DEF restore, Work
<1>2. PICK c \in CallRecord :
        c = SettingsCall("restore", v) /\ c.op = "restore" /\ c.of = v /\ c.here = "yes"
  BY SettingsCallType
<1>3. <<route.page, c.op>> \in Makes
  BY <1>1, <1>2 DEF Makes
<1> QED BY <1>1, <1>2, <1>3, WorkGoal

LEMMA PendingFits ==
  ASSUME IInv, dialog.pending # None
  PROVE  /\ dialog.pending[1] \in {"archive", "delete", "drop", "interval", "remove"}
         /\ dialog.pending[2] \in Vehicle \union Record
BY DialogFields DEF IInv, TypeOK

LEMMA ConfirmDeleteKeeps == ASSUME IInv, confirmDelete PROVE Goal
<1>1. PICK r \in Vehicle \union Record : r = dialog.pending[2]
  BY PendingFits DEF confirmDelete
<1>2. /\ route.page = "history"
      /\ dialog' = [dialog EXCEPT !.busy = r] /\ Request(Call("drop", r)) /\ DialogOnly
  BY <1>1 DEF confirmDelete, Work
<1>3. PICK c \in CallRecord : c = Call("drop", r) /\ c.op = "drop" /\ c.of = r /\ c.here = "yes"
  BY CallType
<1>4. <<route.page, c.op>> \in Makes
  BY <1>2, <1>3 DEF Makes
<1> QED BY <1>2, <1>3, <1>4, WorkGoal

LEMMA AskKeeps == ASSUME IInv, NEW op \in {"interval", "remove"}, Ask(op) PROVE Goal
<1>1. PICK r \in Vehicle \union Record : r = dialog.pending[2]
  BY PendingFits DEF Ask
<1>2. /\ route.page = "reminders" /\ dialog.pending # None /\ dialog.pending[1] = op
      /\ dialog' = [dialog EXCEPT !.busy = "page"] /\ Request(Call(op, r)) /\ DialogOnly
  BY <1>1 DEF Ask
<1>3. PICK c \in CallRecord : c = Call(op, r) /\ c.op = op /\ c.of = r /\ c.here = "yes"
  BY CallType
<1>4. <<route.page, c.op>> \in Makes
  BY <1>2, <1>3 DEF Makes
<1>5. c.op = "interval" => dialog.fields = c.of
  BY <1>1, <1>2, <1>3 DEF IInv, PInv, DialogFits
<1> QED BY <1>2, <1>3, <1>4, <1>5, WorkGoal

-----------------------------------------------------------------------------
(* Answers *)

\* The call that is answered, and those that are not yet
LEMMA Answered ==
  ASSUME IInv, calls # <<>>
  PROVE  /\ Head(calls) \in CallRecord /\ Tail(calls) \in Seq(CallRecord)
         /\ From(calls, Tail(calls)) /\ calls \in Seq(CallRecord) /\ Len(Tail(calls)) <= Len(calls)
         /\ 1 \in DOMAIN calls /\ Head(calls) = calls[1]
         /\ Head(calls).here # "no" => <<route.page, Head(calls).op>> \in Makes
<1>1. calls \in Seq(CallRecord)
  BY DEF IInv, TypeOK
<1>2. 1 \in DOMAIN calls /\ Head(calls) = calls[1] /\ Head(calls) \in CallRecord
  BY <1>1, Rest, Element
<1> QED BY <1>1, <1>2, TailFrom DEF IInv, PInv, MadeHere

LEMMA PatchedType == ASSUME IInv, NEW c \in CallRecord PROVE Patched(c) \in [Vehicle -> Status]
<1>1. garage \in [Vehicle -> Status]
  BY DEF IInv, TypeOK
<1>2. CASE c.op \in {"create", "archive", "restore", "delete"} /\ garage[c.of] # "deleted"
  <2>1. PICK now \in Status : Patched(c) = [garage EXCEPT ![c.of] = now]
    BY <1>2 DEF Patched, Status
  <2> QED BY <1>1, <2>1
<1>3. CASE ~(c.op \in {"create", "archive", "restore", "delete"} /\ garage[c.of] # "deleted")
  BY <1>1, <1>3 DEF Patched
<1> QED BY <1>2, <1>3

\* A list after an answer: it is the one that asked, or is as it was.
LEMMA ReturnedFits ==
  ASSUME NEW d \in Dialog, dialog = d, NEW c, NEW ok \in BOOLEAN
  PROVE  /\ Returned(c, ok) \in Dialog
         /\ Returned(c, ok).fields = d.fields
         /\ Returned(c, ok).pending = None \/ Returned(c, ok).pending = d.pending
         /\ c.here # "yes" => Returned(c, ok) = d
         /\ c.here = "yes" => Returned(c, ok).busy = None
<1>1. CASE c.here # "yes"
  BY <1>1 DEF Returned
<1>2. CASE c.here = "yes"
  <2>1. PICK p \in {None, d.pending} : Returned(c, ok) = [d EXCEPT !.busy = None, !.pending = p]
    BY <1>2 DEF Returned
  <2>2. p \in {None} \union
          ({"archive", "delete", "drop", "interval", "remove"} \X (Vehicle \union Record))
    BY <2>1, DialogFields
  <2>3. PICK e : e = [d EXCEPT !.busy = None, !.pending = p]
    OBVIOUS
  <2>4. e \in Dialog /\ e.fields = d.fields /\ e.pending = p /\ e.busy = None
    BY <2>2, <2>3 DEF Dialog
  <2> QED BY <1>2, <2>1, <2>3, <2>4
<1> QED BY <1>1, <1>2

\* The page stays, and so do its form and its list but for what the answer gives back.
LEMMA ReturnKeeps ==
  ASSUME IInv, calls # <<>>, UNCHANGED <<listed, route, zone, current>>,
         garage' \in [Vehicle -> Status], remembered' \in Vehicle \union {None},
         calls' = Tail(calls), form' = form,
         dialog' \in Dialog, dialog'.fields = dialog.fields,
         dialog'.pending = None \/ dialog'.pending = dialog.pending,
         dialog'.busy = None \/ (dialog'.busy = dialog.busy /\ Head(calls).here # "yes"),
         ~FormCall(Head(calls)) \/ Head(calls).here # "yes"
  PROVE  Goal
<1>1. /\ calls' \in Seq(CallRecord) /\ From(calls, calls') /\ calls \in Seq(CallRecord)
      /\ Len(calls') <= Len(calls)
  BY Answered
<1>2. TypeOK'
  BY <1>1 DEF IInv, TypeOK
<1>3. Addressed' /\ MadeHere'
  BY <1>1, FromKeeps DEF IInv, PInv
<1>4. SheetFits'
  BY <1>1 DEF IInv, PInv, SheetFits, From
<1>5. FormFits' /\ DateFits' /\ ConfirmFits'
  BY DEF IInv, PInv, FormFits, DateFits, ConfirmFits
<1>6. WorkFits' /\ DialogFits'
  BY DEF IInv, PInv, WorkFits, DialogFits
<1>7. BusyEnds'
  BY FormWaits, DialogWaits DEF BusyEnds
<1>8. IInv'
  BY <1>2, <1>3, <1>4, <1>5, <1>6, <1>7 DEF IInv, PInv
<1> QED BY <1>1, <1>8, Quiet

\* The answer a form waits for comes while its page is shown, and no list is at work there.
LEMMA FormAnswered ==
  ASSUME IInv, calls # <<>>, FormCall(Head(calls)), Head(calls).here = "yes"
  PROVE  form \in Form /\ dialog.busy = None
<1> DEFINE c == Head(calls)
<1>1. <<route.page, c.op>> \in Makes /\ 1 \in DOMAIN calls /\ c = calls[1]
  BY Answered
<1>2. c.op \in {"reading", "entry", "edit", "create"}
  BY DEF FormCall
<1>3. /\ c.op = "reading" => route.page = "home"
      /\ c.op # "reading" => route.page \in {"log-entry", "edit", "add"}
  BY <1>1, <1>2 DEF Makes
<1>4. form \in Form
  BY <1>1, <1>3 DEF IInv, PInv, SheetFits, FormFits
<1>5. dialog.busy = None
  BY <1>3 DEF IInv, PInv, WorkFits
<1> QED BY <1>4, <1>5

LEMMA FailedKeeps ==
  ASSUME IInv, calls # <<>>, Failed(Head(calls)), UNCHANGED listed
  PROVE  Goal
<1> DEFINE c == Head(calls)
<1>1. /\ UNCHANGED <<garage, route, remembered, zone, current>> /\ calls' = Tail(calls)
      /\ form' = IF FormCall(c) /\ c.here = "yes" THEN [form EXCEPT !.busy = FALSE] ELSE form
      /\ dialog' = IF FormCall(c) THEN dialog ELSE Returned(c, FALSE)
  BY DEF Failed, Stay
<1>2. /\ garage' \in [Vehicle -> Status] /\ remembered' \in Vehicle \union {None}
      /\ dialog \in Dialog
  BY <1>1 DEF IInv, TypeOK
<1>3. CASE FormCall(c) /\ c.here = "yes"
  <2>1. form \in Form /\ dialog.busy = None
    BY <1>3, FormAnswered
  <2>2. form' = [form EXCEPT !.busy = FALSE] /\ dialog' = dialog
    BY <1>1, <1>3
  <2>3. /\ form' \in Form /\ form'.of = form.of /\ form'.original = form.original
        /\ form'.zone = form.zone /\ form'.input = form.input /\ form'.touched = form.touched
        /\ form'.warned = form.warned /\ form'.confirm = form.confirm /\ form'.busy = FALSE
    BY <2>1, <2>2 DEF Form
  <2>4. form # None /\ form' # None
    BY <2>1, <2>3, FormAssumption
  <2>5. /\ calls' \in Seq(CallRecord) /\ From(calls, calls') /\ calls \in Seq(CallRecord)
        /\ Len(calls') <= Len(calls)
    BY <1>1, Answered
  <2>6. TypeOK'
    BY <1>1, <2>2, <2>3, <2>5 DEF IInv, TypeOK
  <2>7. Addressed' /\ MadeHere'
    BY <1>1, <2>5, FromKeeps DEF IInv, PInv
  <2>8. SheetFits'
    BY <2>3, <2>5 DEF IInv, PInv, SheetFits, From
  <2>9. FormFits' /\ DateFits' /\ ConfirmFits'
    BY <1>1, <2>3, <2>4 DEF IInv, PInv, FormFits, DateFits, ConfirmFits
  <2>10. WorkFits' /\ DialogFits' /\ BusyEnds'
    BY <1>1, <2>1, <2>2, <2>3 DEF IInv, PInv, WorkFits, DialogFits, BusyEnds
  <2>11. IInv'
    BY <2>6, <2>7, <2>8, <2>9, <2>10 DEF IInv, PInv
  <2> QED BY <2>5, <2>11, Quiet
<1>4. CASE FormCall(c) /\ c.here # "yes"
  BY <1>1, <1>2, <1>4, ReturnKeeps
<1>5. CASE ~FormCall(c)
  <2>1. dialog' = Returned(c, FALSE) /\ form' = form
    BY <1>1, <1>5
  <2>2. /\ dialog' \in Dialog /\ dialog'.fields = dialog.fields
        /\ dialog'.pending = None \/ dialog'.pending = dialog.pending
        /\ dialog'.busy = None \/ (dialog'.busy = dialog.busy /\ c.here # "yes")
    BY <1>2, <2>1, ReturnedFits
  <2> QED BY <1>1, <1>2, <1>5, <2>1, <2>2, ReturnKeeps
<1> QED BY <1>3, <1>4, <1>5

\* An answer that goes to a page: the page that asked was another one.
LEMMA AnswerGoes ==
  ASSUME IInv, calls # <<>>, NEW r \in Route, <<r.page, Head(calls).op>> \notin Makes,
         Show(r, garage', Stays(r)), calls' \in Left(Tail(calls), Stays(r)),
         garage' \in [Vehicle -> Status], UNCHANGED listed
  PROVE  Goal
<1>1. Mount(r, Stays(r)) /\ remembered' = Remembers(r, garage')
  BY DEF Show
<1>2. remembered' \in Vehicle \union {None} /\ listed' \subseteq Vehicle
  BY <1>1, RemembersType DEF IInv, TypeOK
<1>3. Stays(r) \in BOOLEAN /\ (Stays(r) => Instance(r) = Instance(route)) /\ route \in Route
  BY DEF Stays, IInv, TypeOK
<1>4. Stays(r) => Waiting(Tail(calls))
  <2>1. Stays(r) => r.page = route.page
    BY <1>3, SameInstance
  <2>2. Head(calls).here \in {"yes", "closed", "no"}
    BY Answered, CallFields
  <2> QED BY <2>1, <2>2, Answered, WaitingRest
<1>5. /\ Tail(calls) \in Seq(CallRecord) /\ From(calls, Tail(calls)) /\ calls \in Seq(CallRecord)
      /\ Len(Tail(calls)) <= Len(calls) /\ Len(calls) \in Nat
  BY Answered, Selected
<1>6. IInv'
  BY <1>1, <1>2, <1>3, <1>4, <1>5, MountKeeps
<1>7. Len(calls') <= Len(Tail(calls)) /\ Len(calls') \in Nat /\ Len(Tail(calls)) \in Nat
  BY <1>3, <1>5, <1>6, LeftFrom, Element DEF IInv, TypeOK
<1>8. Len(calls') <= Len(calls)
  BY <1>5, <1>7
<1> QED BY <1>5, <1>6, <1>8, Quiet

LEMMA FormSavedKeeps ==
  ASSUME IInv, calls # <<>>, garage' = Patched(Head(calls)), FormSaved(Head(calls)), UNCHANGED listed
  PROVE  Goal
<1>1. PICK c \in CallRecord : c = Head(calls) /\ 1 \in DOMAIN calls /\ c = calls[1]
  BY Answered
<1>2. c.op \in {"entry", "edit", "create"}
  BY <1>1 DEF FormSaved
<1>3. /\ c.op \in {"entry", "create"} => c.of \in Vehicle
      /\ c.op = "edit" => c.of \in Record
  BY <1>1 DEF IInv, PInv, Addressed
<1>4. PICK r \in Route : r = After(c) /\ <<r.page, c.op>> \notin Makes
  <2>1. CASE c.op \in {"entry", "create"}
    <3>1. After(c) = Home(c.of) /\ Home(c.of) \in Route /\ Home(c.of).page = "home"
      BY <1>3, <2>1, HomeIsRoute DEF After, Home
    <3> QED BY <2>1, <3>1 DEF Makes
  <2>2. CASE c.op = "edit"
    <3>1. OwnerOf[c.of] \in Vehicle
      BY <1>3, <2>2, OwnerAssumption
    <3>2. After(c) = [page |-> "history", of |-> OwnerOf[c.of]]
      BY <2>2 DEF After
    <3>3. After(c) \in Route /\ After(c).page = "history"
      BY <3>1, <3>2 DEF Route
    <3> QED BY <2>2, <3>3 DEF Makes
  <2> QED BY <1>2, <2>1, <2>2
<1>5. Show(r, garage', Stays(r)) /\ calls' \in Left(Tail(calls), Stays(r))
  BY <1>1, <1>4 DEF FormSaved
<1>6. garage' \in [Vehicle -> Status]
  BY <1>1, PatchedType
<1> QED BY <1>1, <1>4, <1>5, <1>6, AnswerGoes

LEMMA SheetSavedKeeps ==
  ASSUME IInv, calls # <<>>, garage' = Patched(Head(calls)), SheetSaved(Head(calls)), UNCHANGED listed
  PROVE  Goal
<1>1. PICK c \in CallRecord : c = Head(calls) /\ 1 \in DOMAIN calls /\ c = calls[1]
  BY Answered
<1>2. /\ c.op = "reading" /\ form' = None /\ current' = None /\ calls' = SheetLeft(Tail(calls))
      /\ UNCHANGED <<route, remembered, zone, dialog>>
  BY <1>1 DEF SheetSaved
<1>3. c.here # "no"
  BY <1>1, <1>2 DEF IInv, PInv, SheetFits
<1>4. route.page = "home"
  <2>1. <<route.page, "reading">> \in Makes
    BY <1>1, <1>2, <1>3, Answered
  <2> QED BY <2>1 DEF Makes
<1>5. dialog.busy = None
  BY <1>4 DEF IInv, PInv, WorkFits
<1>6. /\ Tail(calls) \in Seq(CallRecord) /\ From(calls, Tail(calls)) /\ calls \in Seq(CallRecord)
      /\ Len(Tail(calls)) <= Len(calls)
  BY Answered
<1>7. /\ calls' \in Seq(CallRecord) /\ Len(calls') = Len(Tail(calls)) /\ From(Tail(calls), calls')
      /\ \A n \in DOMAIN calls' : calls'[n].here # "yes"
  BY <1>2, <1>6, SheetLeftFrom
<1>8. From(calls, calls')
  BY <1>6, <1>7, FromTransitive
<1>9. TypeOK'
  BY <1>1, <1>2, <1>7, PatchedType DEF IInv, TypeOK
<1>10. Addressed' /\ MadeHere'
  BY <1>2, <1>8, FromKeeps DEF IInv, PInv
<1>11. SheetFits'
  BY <1>7, <1>8 DEF IInv, PInv, SheetFits, From
<1>12. FormFits' /\ DateFits' /\ ConfirmFits' /\ WorkFits' /\ DialogFits' /\ BusyEnds'
  BY <1>2, <1>4, <1>5 DEF IInv, PInv, FormFits, DateFits, ConfirmFits, WorkFits, DialogFits, BusyEnds
<1>13. IInv'
  BY <1>9, <1>10, <1>11, <1>12 DEF IInv, PInv
<1> QED BY <1>6, <1>7, <1>13, Quiet

LEMMA ListSavedKeeps ==
  ASSUME IInv, calls # <<>>, garage' = Patched(Head(calls)), ListSaved(Head(calls)), UNCHANGED listed
  PROVE  Goal
<1>1. PICK c \in CallRecord : c = Head(calls)
  BY Answered
<1>2. /\ c.op \in {"drop", "interval", "remove"} /\ dialog' = Returned(c, TRUE)
      /\ calls' = Tail(calls) /\ UNCHANGED <<route, remembered, zone, current, form>>
  BY <1>1 DEF ListSaved, Stay
<1>3. /\ garage' \in [Vehicle -> Status] /\ remembered' \in Vehicle \union {None}
      /\ dialog \in Dialog
  BY <1>1, <1>2, PatchedType DEF IInv, TypeOK
<1>4. /\ dialog' \in Dialog /\ dialog'.fields = dialog.fields
      /\ dialog'.pending = None \/ dialog'.pending = dialog.pending
      /\ dialog'.busy = None \/ (dialog'.busy = dialog.busy /\ c.here # "yes")
  BY <1>2, <1>3, ReturnedFits
<1>5. ~FormCall(c)
  BY <1>2 DEF FormCall
<1> QED BY <1>1, <1>2, <1>3, <1>4, <1>5, ReturnKeeps

LEMMA GarageSavedKeeps ==
  ASSUME IInv, calls # <<>>, garage' = Patched(Head(calls)), GarageSaved(Head(calls)), UNCHANGED listed
  PROVE  Goal
<1>1. PICK c \in CallRecord : c = Head(calls)
  BY Answered
<1>2. c.op \in {"archive", "delete", "restore"} /\ ~FormCall(c)
  BY <1>1 DEF GarageSaved, FormCall
<1>3. garage' \in [Vehicle -> Status] /\ dialog \in Dialog
  BY <1>1, PatchedType DEF IInv, TypeOK
<1>4. CASE c.then = "add"
  <2>1. Show(Add, garage', Stays(Add)) /\ calls' \in Left(Tail(calls), Stays(Add))
    BY <1>1, <1>4 DEF GarageSaved
  <2>2. <<Add.page, c.op>> \notin Makes
    BY <1>2 DEF Add, Makes
  <2> QED BY <1>1, <1>3, <2>1, <2>2, AddIsRoute, AnswerGoes
<1>5. CASE c.then # "add"
  <2>1. /\ remembered' = IF c.then = None THEN remembered ELSE c.then
        /\ dialog' = IF c.then = None \/ c.here # "yes" THEN Returned(c, TRUE)
                     ELSE [Returned(c, TRUE) EXCEPT !.preferred = c.then]
        /\ calls' = Tail(calls)
        /\ UNCHANGED <<route, zone, current, form>>
    BY <1>1, <1>5 DEF GarageSaved
  <2>2. c.then \in Vehicle \union {None}
    BY <1>5, CallFields
  <2>3. remembered' \in Vehicle \union {None}
    BY <2>1, <2>2 DEF IInv, TypeOK
  <2>4. PICK d \in Dialog :
          /\ d = Returned(c, TRUE) /\ d.fields = dialog.fields
          /\ d.pending = None \/ d.pending = dialog.pending
          /\ c.here # "yes" => d = dialog
          /\ c.here = "yes" => d.busy = None
    BY <1>3, ReturnedFits
  <2>5. /\ dialog' \in Dialog /\ dialog'.fields = d.fields /\ dialog'.pending = d.pending
        /\ dialog'.busy = d.busy
    <3>1. CASE c.then = None \/ c.here # "yes"
      BY <2>1, <2>4, <3>1
    <3>2. CASE ~(c.then = None \/ c.here # "yes")
      <4>1. c.then \in Vehicle /\ dialog' = [d EXCEPT !.preferred = c.then]
        BY <2>1, <2>2, <2>4, <3>2
      <4> QED BY <4>1 DEF Dialog
    <3> QED BY <3>1, <3>2
  <2>6. dialog'.busy = None \/ (dialog'.busy = dialog.busy /\ c.here # "yes")
    BY <2>4, <2>5
  <2> QED BY <1>1, <1>2, <1>3, <2>1, <2>3, <2>4, <2>5, <2>6, ReturnKeeps
<1> QED BY <1>4, <1>5

LEMMA AnswerKeeps == ASSUME IInv, Answer PROVE Goal
<1>1. calls # <<>> /\ UNCHANGED listed
  BY DEF Answer
<1>2. \/ Failed(Head(calls))
      \/ /\ garage' = Patched(Head(calls))
         /\ FormSaved(Head(calls)) \/ SheetSaved(Head(calls)) \/ ListSaved(Head(calls))
              \/ GarageSaved(Head(calls))
  BY DEF Answer
<1> QED BY <1>1, <1>2, FailedKeeps, FormSavedKeeps, SheetSavedKeeps, ListSavedKeeps, GarageSavedKeeps

-----------------------------------------------------------------------------
(* Elsewhere *)

LEMMA ElsewhereQuiet ==
  ASSUME IInv, Elsewhere, garage' \in [Vehicle -> Status], listed' \subseteq Vehicle,
         zone' \in Zone, current' \in Reading \union {None}
  PROVE  Goal
BY ElsewhereKeeps, QuietUnchanged DEF Elsewhere

LEMMA LiveQueryKeeps == ASSUME IInv, LiveQuery PROVE Goal
BY ElsewhereQuiet DEF LiveQuery, Active, IInv, TypeOK

LEMMA GarageChangesKeeps == ASSUME IInv, NEW v \in Vehicle, GarageChanges(v) PROVE Goal
<1>1. PICK now : /\ garage' = [garage EXCEPT ![v] = now]
                 /\ now \in CASE garage[v] = "none"    -> IF Fresh(v) THEN {"active"} ELSE {}
                              [] garage[v] = "deleted" -> {}
                              [] OTHER -> {"active", "archived", "deleted"} \ {garage[v]}
  BY DEF GarageChanges
<1>2. now \in Status
  BY <1>1 DEF Status
<1>3. garage' \in [Vehicle -> Status]
  BY <1>1, <1>2 DEF IInv, TypeOK
<1> QED BY <1>3, ElsewhereQuiet DEF GarageChanges, IInv, TypeOK

LEMMA OdometerChangesKeeps == ASSUME IInv, OdometerChanges PROVE Goal
BY ElsewhereQuiet DEF OdometerChanges, IInv, TypeOK

LEMMA TimezoneChangesKeeps == ASSUME IInv, TimezoneChanges PROVE Goal
BY ElsewhereQuiet DEF TimezoneChanges, IInv, TypeOK

LEMMA UnchangedKeeps == ASSUME IInv, UNCHANGED vars PROVE Goal
<1>1. IInv'
  BY DEF vars, IInv, TypeOK, PInv, Addressed, MadeHere, SheetFits, FormFits, DateFits, ConfirmFits,
         WorkFits, DialogFits, BusyEnds
<1> QED BY <1>1, QuietUnchanged DEF vars

-----------------------------------------------------------------------------
(* Every step *)

LEMMA InitKept == ASSUME Init PROVE IInv
<1>1. calls = <<>> /\ form = None /\ dialog = Closed(None) /\ route = [page |-> "root", of |-> None]
  BY DEF Init
<1>2. dialog \in Dialog /\ dialog.busy = None /\ dialog.pending = None
  BY <1>1, ClosedDialog
<1>3. route \in Route /\ route.page = "root"
  BY <1>1 DEF Route
<1>4. calls \in Seq(CallRecord) /\ DOMAIN calls = {}
  BY <1>1
<1>5. TypeOK
  BY <1>1, <1>2, <1>3, <1>4 DEF Init, TypeOK, Status, Active, Zone, AccountZone
<1>6. PInv /\ BusyEnds
  BY <1>1, <1>2, <1>3, <1>4 DEF PInv, Addressed, MadeHere, SheetFits, FormFits, DateFits, ConfirmFits,
     WorkFits, DialogFits, BusyEnds
<1> QED BY <1>5, <1>6 DEF IInv

LEMMA TypeKeeps == ASSUME IInv, Type PROVE Goal
BY TypeReadingKeeps, TypeDateKeeps, DismissWarningKeeps DEF Type

LEMMA SubmitKeeps == ASSUME IInv, Submit PROVE Goal
BY SaveReadingKeeps, SaveEntryKeeps, HandleSubmitKeeps, PrepareSaveKeeps DEF Submit

LEMMA ListKeeps == ASSUME IInv, List PROVE Goal
<1>1. CASE \E d \in Dialogs(route.page) : OpenDialog(d)
  BY <1>1, OpenDialogKeeps
<1>2. CASE DismissDialog \/ confirm \/ confirmDelete
  BY <1>2, DismissDialogKeeps, ConfirmKeeps, ConfirmDeleteKeeps
<1>3. CASE save \/ remove
  BY <1>3, AskKeeps DEF save, remove
<1>4. CASE \E v \in Vehicle : restore(v) \/ selectVehicle(v)
  BY <1>4, RestoreKeeps, SelectVehicleKeeps
<1> QED BY <1>1, <1>2, <1>3, <1>4 DEF List

LEMMA NextKept == ASSUME IInv, [Next]_vars PROVE Goal
<1>1. CASE \E r \in Route : Visit(r)
  BY <1>1, VisitKeeps
<1>2. CASE \E v \in Vehicle : SwitchVehicleSheet(v) \/ GarageChanges(v)
  BY <1>2, SwitchKeeps, GarageChangesKeeps
<1>3. CASE AppShell \/ RootRedirect
  BY <1>3, AppShellKeeps, RootRedirectKeeps
<1>4. CASE OpenOdometerSheet \/ CloseOdometerSheet
  BY <1>4, OpenSheetKeeps, CloseSheetKeeps
<1>5. CASE Type \/ Submit \/ List
  BY <1>5, TypeKeeps, SubmitKeeps, ListKeeps
<1>6. CASE Answer
  BY <1>6, AnswerKeeps
<1>7. CASE LiveQuery \/ OdometerChanges \/ TimezoneChanges
  BY <1>7, LiveQueryKeeps, OdometerChangesKeeps, TimezoneChangesKeeps
<1>8. CASE UNCHANGED vars
  BY <1>8, UnchangedKeeps
<1> QED BY <1>1, <1>2, <1>3, <1>4, <1>5, <1>6, <1>7, <1>8 DEF Next

LEMMA Invariance == Spec => []IInv
<1>1. Init => IInv
  BY InitKept
<1>2. IInv /\ [Next]_vars => IInv'
  BY NextKept DEF Goal
<1> QED BY <1>1, <1>2, PTL DEF Spec

\* The state of the pages has the shape the repository's components give it.
THEOREM TypeCorrect == Spec => []TypeOK
BY Invariance, PTL DEF IInv

\* A button that shows it is working waits for a call of its own that is still to be answered:
\* the finally or the catch of its handler will free it, whichever pages came in between.
THEOREM ButtonsComeBack == Spec => []BusyEnds
BY Invariance, PTL DEF IInv

\* A reading below the current one is saved only by a user who was warned of this reading
\* (saveReading of UpdateOdometerSheet, prepareSave of LogEntryForm).
THEOREM WarningsPrecedeLowering == Spec => LoweringIsConfirmed
<1>1. IInv /\ [Next]_vars => LoweringStep
  BY NextKept DEF Goal
<1>2. IInv /\ [Next]_vars =>
        [/\ Made("reading") /\ Lower(form.value) => form.warned
         /\ Made("entry") /\ form.value # None /\ Lower(form.value) => form.warned]_vars
  BY <1>1 DEF LoweringStep
<1> QED BY <1>2, Invariance, PTL DEF Spec, LoweringIsConfirmed

\* The instant of an edited entry is the one it had, or one the form's own zone shows as the
\* user typed it (resolveLogEntryTimestamp), for any account zone and any set of instants.
THEOREM EditsKeepTheirDates == Spec => DatesAreTheUsers
<1>1. IInv /\ [Next]_vars => DatesStep
  BY NextKept DEF Goal
<1>2. IInv /\ [Next]_vars =>
        [Made("edit") => /\ ~form.touched => EditedAt = form.original
                         /\ toLocalDateTimeInput(EditedAt, form.zone) = form.input]_vars
  BY <1>1 DEF DatesStep
<1> QED BY <1>2, Invariance, PTL DEF Spec, DatesAreTheUsers

\* What is saved goes to the record, or the vehicle, the fields were loaded for (the keys of
\* LogEntryPage, startEditing of ReminderManagement).
THEOREM SavesReachTheirRecord == Spec => WritesGoToTheirRecord
<1>1. IInv /\ [Next]_vars => RecordStep
  BY NextKept DEF Goal
<1>2. IInv /\ [Next]_vars =>
        [/\ Made("entry") \/ Made("edit") => form.of = Last(calls').of
         /\ Made("interval") => dialog.fields = Last(calls').of]_vars
  BY <1>1 DEF RecordStep
<1> QED BY <1>2, Invariance, PTL DEF Spec, WritesGoToTheirRecord

=============================================================================
