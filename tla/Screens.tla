------------------------------- MODULE Screens -------------------------------
(***************************************************************************)
(* The pages of a signed-in tab: which one is shown and for which vehicle,  *)
(* the forms of readings and log entries, and the lists with a dialog over  *)
(* them.  A page keeps its answers to the user in React state, which lives  *)
(* as long as the page is mounted; the account's tables change under it,    *)
(* and the repository calls it has made are answered later, in the order of *)
(* their transactions, also to a page that is no longer there.              *)
(*                                                                         *)
(* What a call writes is Garage's; here only what the pages look at.  The   *)
(* page of costs only shows.                                                *)
(***************************************************************************)
EXTENDS Integers, SequencesExt

CONSTANTS
  Vehicle,
  Record,      \* the log entries, and the reminders, of the vehicles
  OwnerOf,     \* the vehicle of a record
  Reading,     \* the readings typed
  Instant,     \* the times of entries
  MaxCalls,    \* bound: calls in flight of a page, which makes them when those of earlier
               \* pages are answered
  MaxLate,     \* bound: calls in flight of a page the user leaves
  None         \* null, and a field left blank

ASSUME OwnerAssumption   == OwnerOf \in [Record -> Vehicle]
ASSUME ReadingAssumption == Reading \subseteq Nat
ASSUME InstantAssumption == Instant \subseteq Nat
ASSUME CallsAssumption   == MaxCalls \in Nat /\ MaxLate \in Nat
ASSUME NoneAssumption    == None \notin Vehicle \union Record \union Reading
ASSUME PageAssumption    == "page" \notin Vehicle \union Record /\ "add" \notin Vehicle

VARIABLES
  garage,      \* the vehicles in the table, see Garage
  listed,      \* the active ones, as the live query found them last
  route,       \* the page, and the vehicle or the entry it is about
  remembered,  \* lastVehicle, in localStorage
  zone,        \* the account's time zone, where it is looked at
  current,     \* the odometer of the vehicle on the page, where it is looked at
  form,        \* the state of the form on the page, if there is one
  dialog,      \* the state of a list with dialogs
  calls        \* repository calls not yet answered, in order

vars == <<garage, listed, route, remembered, zone, current, form, dialog, calls>>

Status == {"none", "active", "archived", "deleted"}
Route  == [page : {"home", "log-entry", "history", "reminders"}, of : Vehicle]
            \union [page : {"edit"}, of : Record]
            \union [page : {"root", "settings", "add"}, of : {None}]

VehicleOf(r) == IF r.page = "edit" THEN OwnerOf[r.of] ELSE r.of

\* getVehicle and listVehicles
Found(g, v) == g[v] \in {"active", "archived"}
Active      == {v \in Vehicle : garage[v] = "active"}

-----------------------------------------------------------------------------
(* Dates.  The control shows minutes of wall clock; an instant here is half a   *)
(* minute, and "dst" is a zone that puts the clock back, then forward.          *)

Zone == {"utc", "dst"}

toLocalDateTimeInput(i, z) ==
  IF z = "utc" \/ i < 4 \/ i >= 8 THEN i \div 2 ELSE i \div 2 - 1

\* A minute that has not been changed stands for the instant it came from.  One that
\* exists twice is the earlier; one that does not exist is refused.
resolveLogEntryTimestamp(input, original, z) ==
  LET times == {i \in Instant : toLocalDateTimeInput(i, z) = input}
  IN IF input = toLocalDateTimeInput(original, z) THEN original
     ELSE IF times = {} THEN None
     ELSE CHOOSE i \in times : \A j \in times : i <= j

\* bound: the zone of the account when a form is opened
AccountZone == "dst"

Minute == {toLocalDateTimeInput(i, z) : i \in Instant, z \in Zone}

-----------------------------------------------------------------------------
(* Pages coming and going *)

\* A page is mounted anew when this changes: the forms have a key, the other pages
\* only their place in the routes.  Fault: the forms have none.
Instance_without_key(r) == [r EXCEPT !.of = None]
Instance(r) == IF r.page \in {"log-entry", "edit"} THEN r ELSE [r EXCEPT !.of = None]

\* warned and touched are history: the user was warned of the reading in the field; the
\* date was changed.
Blank(of) ==
  [of |-> of, value |-> None, confirm |-> FALSE, warned |-> FALSE,
   busy |-> FALSE, original |-> None, zone |-> None, input |-> None, touched |-> FALSE]

Form ==
  [of : Vehicle \union Record \union {None},
   value : Reading \union {None}, confirm : BOOLEAN, warned : BOOLEAN,
   busy : BOOLEAN, original : Instant \union {None}, zone : Zone \union {None},
   input : Minute \union {None}, touched : BOOLEAN]

ASSUME FormAssumption == None \notin Form

\* The date of the entry and the zone it is shown in stay what they were.
EditForm(of, i) ==
  [Blank(of) EXCEPT !.original = i, !.zone = AccountZone,
                    !.input = toLocalDateTimeInput(i, AccountZone)]

FormsOf(r) ==
  CASE r.page = "edit"               -> {EditForm(r.of, i) : i \in Instant}
    [] r.page \in {"log-entry", "add"} -> {Blank(r.of)}
    [] OTHER                         -> {None}

\* The dialog that is open, the item that is at work ("page": any), the record whose
\* intervals are in the fields, preferredVehicleId
Dialog ==
  [pending : {None} \union ({"archive", "delete", "drop", "interval", "remove"} \X (Vehicle \union Record)),
   busy : Vehicle \union Record \union {None, "page"}, fields : Record \union {None},
   preferred : Vehicle \union {None}]
Closed(preferred) == [pending |-> None, busy |-> None, fields |-> None, preferred |-> preferred]

\* A page that is left hears no answer any more.  The calls that navigate, or select a
\* vehicle, still do; of the others a write is left, like one of another tab.
Left(cs, stays) ==
  IF stays THEN {cs}
  ELSE LET acts == {n \in DOMAIN cs : cs[n].op \in {"entry", "edit", "create"} \/ cs[n].then # None}
           inOrder == {f \in [1 .. Cardinality(acts) -> acts] :
                         \A m, n \in DOMAIN f : m < n => f[m] < f[n]}
       IN {[n \in DOMAIN f |-> [cs[f[n]] EXCEPT !.here = "no"]] : f \in inOrder}

\* AppShell remembers the vehicle of the page.
Remembers(r, g) == IF VehicleOf(r) # None /\ Found(g, VehicleOf(r)) THEN VehicleOf(r) ELSE remembered

\* SettingsPage starts from the vehicle that is remembered.
Mount(r, stays) ==
  /\ route' = r
  /\ current' \in IF r.page = "log-entry" \/ (r.page = "home" /\ stays /\ form # None)
                  THEN Reading \union {None} ELSE {None}
  /\ zone' = AccountZone
  /\ IF stays THEN UNCHANGED <<form, dialog>>
     ELSE /\ form' \in FormsOf(r)
          /\ dialog' = Closed(IF r.page = "settings" THEN remembered ELSE None)

Show(r, g, stays) == remembered' = Remembers(r, g) /\ Mount(r, stays)

Stays(r) == Instance(r) = Instance(route)

Navigate(r) == Show(r, garage, Stays(r)) /\ calls' \in Left(calls, Stays(r))

\* A user who leaves a page, with calls on it or not
Leave(r) ==
  /\ r # route /\ calls' \in Left(calls, Stays(r))
  /\ ~Stays(r) => Len(calls') <= MaxLate
  /\ UNCHANGED <<garage, listed>>

\* A link, the browser's back button, or an address
Visit(r) == Leave(r) /\ Show(r, garage, Stays(r))

\* The same section of another vehicle, which is remembered though it may be gone
Section(page) == IF page \in {"home", "history", "log-entry"} THEN page ELSE "home"

SwitchVehicleSheet(v) ==
  /\ v \in listed /\ route.page \notin {"root", "add"}
  /\ LET r == [page |-> Section(route.page), of |-> v]
     IN Leave(r) /\ remembered' = v /\ Mount(r, Stays(r))

Home(v) == [page |-> "home", of |-> v]
Add     == [page |-> "add", of |-> None]

\* Where the shell sends the page of a vehicle that is gone
Fallback == IF listed = {} THEN {Add} ELSE {Home(v) : v \in listed}

AppShell ==
  /\ VehicleOf(route) # None /\ ~Found(garage, VehicleOf(route))
  /\ \E r \in Fallback : Show(r, garage, FALSE)
  /\ calls' \in Left(calls, FALSE)
  /\ UNCHANGED <<garage, listed>>

RootRedirect ==
  /\ route.page = "root"
  /\ \E r \in IF remembered \in listed THEN {Home(remembered)} ELSE Fallback : Navigate(r)
  /\ UNCHANGED <<garage, listed>>

-----------------------------------------------------------------------------
(* What the user types *)

Lower(x) == current # None /\ x < current

\* A repository call.  here: its page is mounted ("yes"), only the sheet on it is closed, or
\* not.  then: what SettingsPage does after it, from what it held when it made the call:
\* select this vehicle, or add one.
CallRecord ==
  [op : {"reading", "entry", "edit", "create", "archive", "delete", "restore", "drop",
         "interval", "remove"},
   of : Vehicle \union Record \union {None}, here : {"yes", "closed", "no"}, then : Vehicle \union {None, "add"}]
Call(op, of) ==
  [op |-> op, of |-> of, here |-> "yes", then |-> None]

Request(c) ==
  /\ Len(calls) < MaxCalls /\ \A n \in DOMAIN calls : calls[n].here # "no"
  /\ calls' = Append(calls, c)

SheetOnly == UNCHANGED <<garage, listed, route, remembered, zone, dialog>>
FormOnly  == SheetOnly /\ UNCHANGED current

\* UpdateOdometerSheet, with the current reading in its field
OpenOdometerSheet ==
  /\ route.page = "home" /\ form = None
  /\ current' \in Reading \union {None}
  /\ form' = [Blank(None) EXCEPT !.value = current']
  /\ UNCHANGED calls /\ SheetOnly

\* Only the page under it hears the answers from now on.
SheetLeft(cs) == [n \in DOMAIN cs |-> [cs[n] EXCEPT !.here = IF @ = "yes" THEN "closed" ELSE @]]

CloseOdometerSheet ==
  /\ route.page = "home" /\ form # None
  /\ form' = None /\ current' = None
  /\ calls' = SheetLeft(calls)
  /\ SheetOnly

\* The sheet forgets its warning with the value it was about.  Fault: it keeps it.
updateValue_keeps_warning(f) == f
updateValue(f) == [f EXCEPT !.confirm = FALSE]

TypeReading(x) ==
  /\ form # None /\ form.value # x
  /\ LET typed == [form EXCEPT !.value = x, !.warned = FALSE]
     IN \/ route.page = "home" /\ form' = updateValue(typed)
        \/ route.page = "log-entry" /\ ~form.confirm /\ form' = typed
  /\ UNCHANGED calls /\ FormOnly

\* The control of a new entry, whose date is the time it was opened, is the same.
TypeDate(m) ==
  /\ route.page = "edit" /\ m # form.input
  /\ form' = [form EXCEPT !.input = m, !.touched = TRUE]
  /\ UNCHANGED calls /\ FormOnly

\* "go back" and "review"
DismissWarning ==
  /\ form # None /\ form.confirm
  /\ form' = [form EXCEPT !.confirm = FALSE]
  /\ UNCHANGED calls /\ FormOnly

\* A reading lower than the current one is asked about before it is saved.
Warn       == form' = [form EXCEPT !.confirm = TRUE, !.warned = TRUE] /\ UNCHANGED calls
Save(f, c) == form' = [f EXCEPT !.busy = TRUE] /\ Request(c)

\* The buttons of a form are disabled while it is being saved.
Enabled(page) == route.page = page /\ form # None /\ ~form.busy

\* The sheet's button is one or the other.
saveReading ==
  /\ Enabled("home") /\ form.value # None
  /\ IF Lower(form.value) /\ ~form.confirm THEN Warn
     ELSE Save(form, Call("reading", None))
  /\ FormOnly

\* A service entry left alone takes the current reading.
displayedOdometerKm(kind) ==
  IF form.value # None THEN form.value ELSE IF kind = "service" THEN current ELSE None

\* The button of the form, or that of its dialog
prepareSave(kind) ==
  /\ Enabled("log-entry")
  /\ LET reading == displayedOdometerKm(kind)
     IN IF reading # None /\ Lower(reading) /\ ~form.confirm THEN Warn
        ELSE Save([form EXCEPT !.confirm = FALSE], Call("entry", route.of))
  /\ FormOnly

\* saveEntry of an existing entry: its reading is not edited.  Fault: in the zone the
\* account has by now.
EditedAt_in_account_zone == resolveLogEntryTimestamp(form.input, form.original, zone)
EditedAt == resolveLogEntryTimestamp(form.input, form.original, form.zone)

saveEntry ==
  /\ Enabled("edit") /\ EditedAt # None
  /\ Save(form, Call("edit", route.of))
  /\ FormOnly

\* An id nobody else has
Fresh(v) == garage[v] = "none" /\ \A n \in DOMAIN calls : calls[n].op = "create" => calls[n].of # v

\* AddVehiclePage, with a valid name
handleSubmit ==
  /\ Enabled("add")
  /\ \E v \in Vehicle : Fresh(v) /\ Save(form, Call("create", v))
  /\ FormOnly

-----------------------------------------------------------------------------
(* The lists: a dialog about one item, dismissed by Escape even while it works *)

DialogOnly == UNCHANGED <<garage, listed, route, remembered, zone, current, form>>

\* The dialogs of a page's items
GarageDialogs ==
  {<<"archive", v>> : v \in {v \in Vehicle : garage[v] = "active"}}
    \union {<<"delete", v>> : v \in {v \in Vehicle : Found(garage, v)}}
HistoryDialogs  == {<<"drop", r>> : r \in {r \in Record : OwnerOf[r] = route.of}}
ReminderDialogs == {"interval", "remove"} \X {r \in Record : OwnerOf[r] = route.of}

Dialogs(page) ==
  CASE page = "settings"  -> GarageDialogs
    [] page = "history"   -> HistoryDialogs
    [] page = "reminders" -> ReminderDialogs
    [] OTHER              -> {}

\* The rows of the reminders stay enabled.  startEditing loads the fields of the dialog.
Loaded(d) == IF d[1] = "interval" THEN d[2] ELSE dialog.fields

OpenDialog(d) ==
  /\ d \in Dialogs(route.page) /\ dialog.pending = None /\ dialog.busy # d[2]
  /\ dialog' = [dialog EXCEPT !.pending = d, !.fields = Loaded(d)]
  /\ UNCHANGED calls /\ DialogOnly

DismissDialog ==
  /\ dialog.pending # None
  /\ dialog' = [dialog EXCEPT !.pending = None]
  /\ UNCHANGED calls /\ DialogOnly

\* activeVehicleId, and the active vehicles, as the page rendered them
activeVehicleId ==
  IF dialog.preferred \in listed THEN dialog.preferred
  ELSE IF listed = {} THEN None ELSE CHOOSE v \in listed : TRUE

\* Another vehicle is selected when the active one has gone, or when there was none.
Replacement(op, v) ==
  IF op = "restore" THEN IF activeVehicleId = None THEN v ELSE None
  ELSE IF v # activeVehicleId THEN None
  ELSE IF listed \ {v} = {} THEN "add" ELSE CHOOSE w \in listed \ {v} : TRUE

SettingsCall(op, v) == [Call(op, v) EXCEPT !.then = Replacement(op, v)]

\* An item is at work; the other items stay enabled.
Work(item, c) ==
  /\ dialog.busy # item
  /\ dialog' = [dialog EXCEPT !.busy = item]
  /\ Request(c)
  /\ DialogOnly

confirm ==
  /\ route.page = "settings" /\ dialog.pending # None
  /\ Work(dialog.pending[2], SettingsCall(dialog.pending[1], dialog.pending[2]))

confirmDelete ==
  /\ route.page = "history" /\ dialog.pending # None
  /\ Work(dialog.pending[2], Call("drop", dialog.pending[2]))

restore(v) ==
  /\ route.page = "settings" /\ dialog.pending = None
  /\ garage[v] = "archived"
  /\ Work(v, SettingsCall("restore", v))

\* A click on a vehicle of the garage
selectVehicle(v) ==
  /\ route.page = "settings" /\ dialog.pending = None
  /\ garage[v] = "active" /\ v # dialog.preferred
  /\ remembered' = v
  /\ dialog' = [dialog EXCEPT !.preferred = v]
  /\ UNCHANGED <<garage, listed, route, zone, current, form, calls>>

\* ReminderManagement: one flag for both dialogs
Ask(op) ==
  /\ route.page = "reminders" /\ dialog.busy = None
  /\ dialog.pending # None /\ dialog.pending[1] = op
  /\ dialog' = [dialog EXCEPT !.busy = "page"]
  /\ Request(Call(op, dialog.pending[2]))
  /\ DialogOnly

save   == Ask("interval")
remove == Ask("remove")

-----------------------------------------------------------------------------
(* Answers *)

\* Vehicle patches leave a tombstone as it is.
Patched(c) ==
  LET now == CASE c.op = "create"  -> "active"   [] c.op = "archive" -> "archived"
               [] c.op = "restore" -> "active"   [] c.op = "delete"  -> "deleted"
  IN IF c.op \in {"create", "archive", "restore", "delete"} /\ garage[c.of] # "deleted"
       THEN [garage EXCEPT ![c.of] = now] ELSE garage

Stay == UNCHANGED <<route, remembered, zone, current>>

\* A list is usable again.  Its dialog closes after a call that succeeded, whatever it
\* is about by then; ReminderManagement has two.  Fault: only after a success.
Returned_on_success(c, ok) ==
  IF c.here # "yes" \/ ~ok THEN dialog ELSE [dialog EXCEPT !.busy = None, !.pending = None]
Returned(c, ok) ==
  LET closes == /\ ok /\ dialog.pending # None /\ c.op # "restore"
                /\ route.page = "reminders" => dialog.pending[1] = c.op
  IN IF c.here # "yes" THEN dialog
     ELSE [dialog EXCEPT !.busy = None, !.pending = IF closes THEN None ELSE @]

FormCall(c) == c.op \in {"reading", "entry", "edit", "create"}

\* The form is usable again, if it is the one that asked.
Failed(c) ==
  /\ form'   = IF FormCall(c) /\ c.here = "yes" THEN [form EXCEPT !.busy = FALSE] ELSE form
  /\ dialog' = IF FormCall(c) THEN dialog ELSE Returned(c, FALSE)
  /\ calls'  = Tail(calls)
  /\ Stay /\ UNCHANGED garage

\* Where a form goes after it has saved, wherever the user is by then
After(c) ==
  CASE c.op = "entry"  -> Home(c.of)
    [] c.op = "edit"   -> [page |-> "history", of |-> OwnerOf[c.of]]
    [] c.op = "create" -> Home(c.of)

FormSaved(c) ==
  /\ c.op \in {"entry", "edit", "create"}
  /\ Show(After(c), garage', Stays(After(c)))
  /\ calls' \in Left(Tail(calls), Stays(After(c)))

\* The page closes its sheet, be it another one.
SheetSaved(c) ==
  /\ c.op = "reading"
  /\ form' = None /\ current' = None
  /\ calls' = SheetLeft(Tail(calls))
  /\ UNCHANGED <<route, remembered, zone, dialog>>

ListSaved(c) ==
  /\ c.op \in {"drop", "interval", "remove"}
  /\ dialog' = Returned(c, TRUE) /\ calls' = Tail(calls)
  /\ Stay /\ UNCHANGED form

\* SettingsPage, which may not be there any more: selectVehicle, or the page to add one
GarageSaved(c) ==
  /\ c.op \in {"archive", "delete", "restore"}
  /\ IF c.then = "add"
       THEN /\ Show(Add, garage', Stays(Add))
            /\ calls' \in Left(Tail(calls), Stays(Add))
       ELSE /\ remembered' = IF c.then = None THEN remembered ELSE c.then
            /\ dialog' = IF c.then = None \/ c.here # "yes" THEN Returned(c, TRUE)
                         ELSE [Returned(c, TRUE) EXCEPT !.preferred = c.then]
            /\ calls' = Tail(calls)
            /\ UNCHANGED <<route, zone, current, form>>

Answer ==
  /\ calls # <<>>
  /\ LET c == Head(calls)
     IN \/ Failed(c)
        \/ /\ garage' = Patched(c)
           /\ FormSaved(c) \/ SheetSaved(c) \/ ListSaved(c) \/ GarageSaved(c)
  /\ UNCHANGED listed

-----------------------------------------------------------------------------
(* What changes under the pages: other tabs, and syncs *)

Elsewhere == UNCHANGED <<route, remembered, form, dialog, calls>>

LiveQuery ==
  /\ listed # Active /\ listed' = Active
  /\ UNCHANGED <<garage, zone, current>> /\ Elsewhere

GarageChanges(v) ==
  /\ \E now \in CASE garage[v] = "none"    -> IF Fresh(v) THEN {"active"} ELSE {}
                  [] garage[v] = "deleted" -> {}
                  [] OTHER                 -> {"active", "archived", "deleted"} \ {garage[v]} :
       garage' = [garage EXCEPT ![v] = now]
  /\ UNCHANGED <<listed, zone, current>> /\ Elsewhere

OdometerChanges ==
  /\ route.page \in {"home", "log-entry"} /\ form # None
  /\ current' \in Reading \ {current}
  /\ UNCHANGED <<garage, listed, zone>> /\ Elsewhere

\* refreshAccount, or the settings in another tab
TimezoneChanges ==
  /\ route.page = "edit"
  /\ zone' \in Zone \ {zone}
  /\ UNCHANGED <<garage, listed, current>> /\ Elsewhere

-----------------------------------------------------------------------------

\* A tab opened at "/", for an account whose garage is here or is empty
Init ==
  /\ garage \in [Vehicle -> {"none", "active"}]
  /\ listed     = Active
  /\ route      = [page |-> "root", of |-> None]
  /\ remembered = None
  /\ zone       = AccountZone
  /\ current    = None
  /\ form       = None
  /\ dialog     = Closed(None)
  /\ calls      = <<>>

Type ==
  \/ \E x \in Reading : TypeReading(x)
  \/ \E m \in Minute : TypeDate(m)
  \/ DismissWarning

Submit ==
  \/ saveReading \/ saveEntry \/ handleSubmit
  \/ \E kind \in {"fuel", "service"} : prepareSave(kind)

List ==
  \/ \E d \in Dialogs(route.page) : OpenDialog(d)
  \/ DismissDialog \/ confirm \/ confirmDelete \/ save \/ remove
  \/ \E v \in Vehicle : restore(v) \/ selectVehicle(v)

Next ==
  \/ \E r \in Route : Visit(r)
  \/ \E v \in Vehicle : SwitchVehicleSheet(v) \/ GarageChanges(v)
  \/ AppShell \/ RootRedirect
  \/ OpenOdometerSheet \/ CloseOdometerSheet
  \/ Type \/ Submit \/ List
  \/ Answer
  \/ LiveQuery \/ OdometerChanges \/ TimezoneChanges

Spec == Init /\ [][Next]_vars

-----------------------------------------------------------------------------
(* Properties *)

TypeOK ==
  /\ garage \in [Vehicle -> Status] /\ listed \subseteq Vehicle
  /\ route \in Route /\ remembered \in Vehicle \union {None}
  /\ zone \in Zone /\ current \in Reading \union {None}
  /\ form \in {None} \union Form
  /\ dialog \in Dialog
  /\ calls \in Seq(CallRecord)

\* A call of this kind is made.
Made(op) == Len(calls') > Len(calls) /\ Last(calls').op = op

\* A reading lower than the current one is saved only if the user has been warned of this
\* very reading: changing it takes the warning back, and the odometer
\* may move under the form at any moment (odometerRepository.ts 12-14 leaves the warning
\* to its callers: saveReading, prepareSave).
LoweringIsConfirmed ==
  [][/\ Made("reading") /\ Lower(form.value) => form.warned
     /\ Made("entry") /\ form.value # None /\ Lower(form.value) => form.warned]_vars

\* Editing an entry without touching its date keeps its time to the instant, though the
\* account's time zone has changed under the form; a date that was changed is saved as
\* the instant the form's own zone shows that way (LogEntryForm 60-71,
\* resolveLogEntryTimestamp).
DatesAreTheUsers ==
  [][Made("edit") => /\ ~form.touched => EditedAt = form.original
                     /\ toLocalDateTimeInput(EditedAt, form.zone) = form.input]_vars

\* What a form or a dialog saves goes to the record, or the vehicle, its fields were
\* loaded for, whatever page or dialog the user came from and whichever answer closed it
\* (the keys of LogEntryPage, startEditing).
WritesGoToTheirRecord ==
  [][/\ Made("entry") \/ Made("edit") => form.of = Last(calls').of
     /\ Made("interval") => dialog.fields = Last(calls').of]_vars

\* A button that shows it is working is waiting for a call of its own: an answer, good or
\* bad, early or late, gives every control back (the finally and catch of every handler).
BusyEnds ==
  /\ form # None /\ form.busy =>
       \E n \in DOMAIN calls : calls[n].here = "yes" /\ FormCall(calls[n])
  /\ dialog.busy # None =>
       \E n \in DOMAIN calls : calls[n].here = "yes" /\ dialog.busy \in {"page", calls[n].of}
=============================================================================
