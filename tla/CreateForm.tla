------------------------------ MODULE CreateForm ------------------------------
(***************************************************************************)
(* A new entry from the moment its form opens: the defaults of its profile *)
(* (literals aside), the numbers allocated by scans of the directory while *)
(* the operator types (alloc_flow.rs, apply_alloc_outcome), the templates  *)
(* that go on following their sources (recompute_live), the computed       *)
(* sambaSID (fill_computed_defaults), a staged password, and the save      *)
(* (do_create) that sends one ADD, or two in a transaction, each of which  *)
(* the server may refuse (AtomicCreate has the steps of the transaction).  *)
(* An entry's form can be open before, or between two new ones.            *)
(***************************************************************************)
EXTENDS Naturals, Sequences, SequencesExt, FiniteSets

CONSTANTS
  Fields,        \* the fields of a form
  Role,          \* "rdn", "plain", "template", "number", "computed", "secret"
  Source,        \* what a template or a computed field is made from
  IntegerFields, \* the fields with INTEGER syntax
  Profiles,      \* profiles with a create form
  Ranges,        \* the numbers {next:MIN-MAX} covers, by profile
  Companions,    \* the profiles that create a companion entry too
  Secretive,     \* the profiles with a password widget
  Texts,         \* what the operator types into text fields
  Typable,       \* the fields the operator types into
  Typed,         \* the numbers the operator types
  Blank, Placeholder, Sentinel,  \* no value, ALLOC_PLACEHOLDER, the masked password
  NoForm,
  InUse,         \* the numbers in use at first
  MaxForms, MaxTyped, MaxSecrets, MaxSaves, MaxLeaves, MaxTaken, MaxFaults,  \* bounds
  MaxQueue       \* the operator waits while this many requests are unanswered

Number(n)    == <<"number", n>>
Made(f, v)   == <<"made", f, v>>
OfRole(r)    == {f \in Fields : Role[f] = r}
Templates    == OfRole("template")
AllNumbers   == Typed \cup UNION {Ranges[p] : p \in Profiles}
IsNumber(v)  == \E n \in AllNumbers : v = Number(n)

ASSUME CreateAssumption ==
  /\ Role \in [Fields -> {"rdn", "plain", "template", "number", "computed", "secret"}]
  /\ Source \in [Templates \cup OfRole("computed") -> Fields]
  /\ \A c \in OfRole("computed") : Role[Source[c]] \notin {"computed", "secret"}
  /\ IsFiniteSet(Fields) /\ IntegerFields \subseteq Fields /\ Typable \subseteq Fields \ OfRole("secret")
  /\ Blank # Placeholder
  /\ Ranges \in [Profiles -> SUBSET Nat] /\ {Companions, Secretive} \subseteq SUBSET Profiles
  /\ Typed \subseteq Nat /\ InUse \subseteq Nat
  /\ {MaxForms, MaxTyped, MaxSecrets, MaxSaves, MaxLeaves, MaxTaken, MaxFaults, MaxQueue} \subseteq Nat

VARIABLES
  form,      \* edit_form: its kind, its number (history), its values, the numbers it was
             \* loaded without (lacks), and those that have no value, not even an empty text (bare)
  live,      \* live_templates: by field, auto and last_written
  written,   \* computed_written
  password,  \* pending_password: (history) the form it was staged in, 0 for None
  pending,   \* AllocFlow::pending: the request ids and their attributes
  lastId,
  jobs,      \* the worker's queue, FIFO
  resps,     \* the responses not yet polled, FIFO
  numbers,   \* the numbers in use in the directory
  dialog,    \* the preview the operator is asked to confirm
  sent,      \* history: the attributes of the last ADD or MODIFY
  own,       \* history: the fields that hold what the operator typed
  typed, secrets, saves, leaves, taken, faults

formVars == <<form, live, written>>
flowVars == <<pending, lastId, jobs, resps>>
uiVars   == <<formVars, password, dialog>>
bounds   == <<typed, secrets, saves, leaves, taken>>
history  == <<sent, own>>
vars     == <<uiVars, flowVars, numbers, history, bounds, faults>>

NoDialog  == [at |-> "none"]
NoAttrs   == [f \in {} |-> Blank]

NothingOpen(id) == [kind |-> "none", id |-> id, profile |-> NoForm,
                    vals |-> [f \in Fields |-> Blank], lacks |-> {}, bare |-> {}]
Closed          == NothingOpen(form.id)

\* An entry's form: Blank is what the entry holds, if anything.
EntryForm(id, lacks) == [kind |-> "edit", id |-> id, profile |-> NoForm,
                         vals |-> [f \in Fields |-> Blank], lacks |-> lacks, bare |-> lacks]

Init ==
  /\ form = NothingOpen(0)
  /\ live = [t \in Templates |-> [auto |-> FALSE, last |-> Blank]]
  /\ written = [c \in OfRole("computed") |-> Blank]
  /\ password = 0 /\ pending = {} /\ lastId = 0
  /\ jobs = <<>> /\ resps = <<>> /\ numbers = InUse
  /\ dialog = NoDialog /\ sent = NoAttrs /\ own = {}
  /\ typed = 0 /\ secrets = 0 /\ saves = 0 /\ leaves = 0 /\ taken = 0 /\ faults = 0
-----------------------------------------------------------------------------
\* Values that follow others.

\* resolve_template: nothing while its source is empty or still allocating.
Resolve(t, vals) ==
  LET v == vals[Source[t]] IN IF v \in {Blank, Placeholder} THEN Blank ELSE Made(t, v)

\* A target that no longer holds what was last written belongs to the
\* operator; emptied, it belongs to the template again.
\* faulty: only what is empty belongs to the template
OwnsEmpty(l, v) == v = Blank \/ l.auto

Owns(l, v) == IF v # l.last THEN v = Blank ELSE l.auto

\* recompute_live, for all templates at once.
Live(vals, ls) ==
  [t \in Templates |->
     LET auto == Owns(ls[t], vals[t])
         out  == Resolve(t, vals)
     IN  [auto |-> auto, last |-> IF auto /\ out # vals[t] THEN out ELSE ls[t].last]]

Mirrored(vals, ls) ==
  [f \in Fields |-> IF f \in Templates /\ Owns(ls[f], vals[f]) THEN Resolve(f, vals)
                    ELSE vals[f]]

\* fill_computed_defaults: a field that is still what was last written to it.
\* faulty: a field that was filled once is left as it is
FillableOnce(c, vals, wr) == wr[c] = Blank /\ vals[c] = Blank

Fillable(c, vals, wr) == IF wr[c] = Blank THEN vals[c] = Blank ELSE vals[c] = wr[c]

Fills(vals, wr) == {c \in OfRole("computed") : Fillable(c, vals, wr) /\ IsNumber(vals[Source[c]])}

Computed(vals, wr) ==
  [f \in Fields |-> IF f \in Fills(vals, wr) THEN Made(f, vals[Source[f]]) ELSE vals[f]]

Recorded(vals, wr) ==
  [c \in OfRole("computed") |-> IF c \in Fills(vals, wr) THEN Made(c, vals[Source[c]]) ELSE wr[c]]

\* The end of every event the form pane handles: the cells have been read
\* back, an empty one as an empty text, and what follows them is made anew.
Settled(vals) ==
  /\ form' = [form EXCEPT !.vals = Computed(Mirrored(vals, live), written), !.bare = {}]
  /\ live' = Live(vals, live)
  /\ written' = Recorded(Mirrored(vals, live), written)
-----------------------------------------------------------------------------
\* The operator.

Free == dialog = NoDialog /\ Len(jobs) + Len(resps) <= MaxQueue

\* A new form is empty, but for the numbers being looked up (build_create_form).
NewForm(p, id) ==
  [kind |-> "create", id |-> id, profile |-> p,
   vals |-> [f \in Fields |-> IF Role[f] = "number" THEN Placeholder ELSE Blank],
   lacks |-> OfRole("number"), bare |-> {}]

\* A scan of the directory for each attribute wanted, with an id of its own.
RequestNumbers(p, wanted) ==
  /\ lastId' = lastId + Len(wanted)
  /\ pending' = pending \cup {[id |-> lastId + i, attr |-> wanted[i], profile |-> p] :
                                i \in DOMAIN wanted}
  /\ jobs' = jobs \o [i \in DOMAIN wanted |-> [what |-> "scan", id |-> lastId + i]]

\* The form is replaced, whatever it held; each number asks for a scan.
OpenCreate(p) ==
  /\ Free /\ form.id < MaxForms
  /\ form' = NewForm(p, form.id + 1)
  /\ live' = [t \in Templates |-> [auto |-> TRUE, last |-> Blank]]
  /\ written' = [c \in OfRole("computed") |-> Blank]
  /\ RequestNumbers(p, SetToSeq(OfRole("number")))
  /\ own' = {}
  /\ UNCHANGED <<password, dialog, resps, numbers, sent, bounds, faults>>

\* CREATE: one of the container's profiles, chosen when there are several.
Create == \E p \in Profiles : OpenCreate(p)

\* What the application wrote to a field last: typed again, it is as it was.
LastWritten(f) == IF f \in Templates THEN live[f].last
                  ELSE IF f \in OfRole("computed") THEN written[f] ELSE Blank

\* A key typed into a field, and the recomputation that ends its event.
Type(f, v) ==
  /\ Free /\ form.kind = "create" /\ typed < MaxTyped
  /\ v # form.vals[f]
  /\ typed' = typed + 1
  /\ Settled([form.vals EXCEPT ![f] = v])
  /\ own' = IF v \in {Blank, Placeholder, LastWritten(f)} THEN own \ {f} ELSE own \cup {f}
  /\ UNCHANGED <<password, dialog, flowVars, numbers, sent, secrets, saves, leaves, taken, faults>>

\* The password editor's OK (StageSecret).
StageSecret(f) ==
  /\ Free /\ Role[f] = "secret" /\ form.vals[f] # Sentinel
  /\ form.kind = "edit" \/ (form.kind = "create" /\ form.profile \in Secretive)
  /\ secrets < MaxSecrets /\ secrets' = secrets + 1
  /\ password' = form.id
  /\ form' = [form EXCEPT !.vals[f] = Sentinel]
  /\ UNCHANGED <<live, written, dialog, flowVars, numbers, history, typed, saves, leaves, taken, faults>>

\* Enter on the computed field: it is made anew and is the application's again.
Generate(f) ==
  /\ Free /\ form.kind = "create" /\ Role[f] = "computed"
  /\ IsNumber(form.vals[Source[f]]) /\ form.vals[f] # Made(f, form.vals[Source[f]])
  /\ form' = [form EXCEPT !.vals[f] = Made(f, form.vals[Source[f]])]
  /\ written' = [written EXCEPT ![f] = Made(f, form.vals[Source[f]])]
  /\ own' = own \ {f}
  /\ UNCHANGED <<live, password, dialog, flowVars, numbers, sent, bounds, faults>>

\* Any other event the form pane handles; the timer is one.
FormEvent ==
  /\ \/ form.kind = "create" /\ Settled(form.vals)
     \/ form.kind = "edit" /\ form' = [form EXCEPT !.bare = {}] /\ UNCHANGED <<live, written>>
  /\ UNCHANGED <<password, dialog, flowVars, numbers, history, bounds, faults>>

Rdn == CHOOSE f \in Fields : Role[f] = "rdn"

\* validate: the placeholder is not an integer.
Valid(vals) ==
  /\ vals[Rdn] # Blank
  /\ \A f \in IntegerFields : vals[f] = Blank \/ IsNumber(vals[f])

\* The attributes of the ADD: what is empty is left out and a staged password
\* put in; without a widget to put it in, what masks it is taken out instead.
\* (plan_create, fold_create_password, strip_sentinel_from_attrs)
Secret == <<"password", password>>

Unmasked(vals, given) == {f \in given : vals[f] # Sentinel}

AddAttrs(vals) ==
  LET given == {f \in Fields : vals[f] # Blank}
  IN  CASE password = 0 -> [f \in given |-> vals[f]]
        [] form.profile \in Secretive ->
             [f \in given \cup OfRole("secret") |-> IF Role[f] = "secret" THEN Secret ELSE vals[f]]
        [] OTHER -> [f \in Unmasked(vals, given) |-> vals[f]]

\* SAVE on a new entry (do_create): the plan is made, previewed and, on OK,
\* sent with the companion's before it; the password is used up.
PressSave ==
  /\ Free /\ form.kind = "create" /\ saves < MaxSaves /\ Valid(form.vals)
  /\ saves' = saves + 1
  /\ dialog' = [at |-> IF form.profile \in Companions THEN "atomic" ELSE "add",
                attrs |-> AddAttrs(form.vals)]
  /\ UNCHANGED <<formVars, password, flowVars, numbers, history, typed, secrets, leaves, taken, faults>>

\* The staged password replaces its attribute, whatever form it was staged in.
PasswordMods ==
  IF password # 0 THEN [f \in OfRole("secret") |-> Secret] ELSE NoAttrs

\* What changed in an entry's form: nothing but a number that came unasked.
NumbersPut == {f \in OfRole("number") : form.kind = "edit" /\ form.vals[f] # Blank}

Mods == [f \in NumbersPut \cup DOMAIN PasswordMods |->
           IF f \in NumbersPut THEN form.vals[f] ELSE PasswordMods[f]]

\* SAVE on an entry, and Save in the guard whatever the form is: the change
\* set, with the password, goes to the form's DN (do_save).
SaveAsChange ==
  /\ Free /\ form.kind # "none" /\ saves < MaxSaves
  /\ \A f \in Fields : form.vals[f] # Placeholder
  /\ form.kind = "edit" => password # 0 \/ NumbersPut # {}
  /\ form.kind = "create" => Valid(form.vals)
  /\ saves' = saves + 1
  /\ dialog' = [at    |-> IF form.kind = "edit" THEN "modify" ELSE "stray",
                attrs |-> Mods]
  /\ UNCHANGED <<formVars, password, flowVars, numbers, history, typed, secrets, leaves, taken, faults>>

Confirm ==
  /\ dialog # NoDialog
  /\ dialog' = NoDialog
  /\ password' = 0
  /\ sent' = dialog.attrs
  /\ jobs' = Append(jobs, [what |-> dialog.at,
                           takes |-> {n \in AllNumbers : \E f \in DOMAIN dialog.attrs :
                                        Role[f] = "number" /\ dialog.attrs[f] = Number(n)}])
  /\ UNCHANGED <<formVars, pending, lastId, resps, numbers, own, bounds, faults>>

Cancel ==
  /\ dialog # NoDialog
  /\ dialog' = NoDialog
  /\ UNCHANGED <<formVars, password, flowVars, numbers, history, bounds, faults>>

\* The operator goes to the entry, discarding what the form holds: each field
\* is as it was loaded.
LeaveFor ==
  /\ Free /\ leaves < MaxLeaves
  /\ leaves' = leaves + 1
  /\ form' = [form EXCEPT !.vals = [f \in Fields |-> Blank], !.bare = form.lacks]
  /\ jobs' = Append(jobs, [what |-> "read"])
  /\ own' = {}
  /\ UNCHANGED <<live, written, password, dialog, pending, lastId, resps,
                 numbers, sent, typed, secrets, saves, taken, faults>>
-----------------------------------------------------------------------------
\* The worker: one request to its end before the next.

Done(r) == jobs' = Tail(jobs) /\ resps' = Append(resps, r)

MayFail   == faults < MaxFaults /\ faults' = faults + 1
NoFailure == UNCHANGED faults

\* The scan of an attribute, which may fail or be cut short by a size limit.
WorkScan(j) ==
  /\ j.what = "scan"
  /\ \/ NoFailure /\ Done([what |-> "scan", id |-> j.id, ok |-> TRUE, seen |-> numbers])
     \/ MayFail /\ Done([what |-> "scan", id |-> j.id, ok |-> FALSE, seen |-> {}])
  /\ UNCHANGED numbers

WorkRead(j) ==
  /\ j.what = "read"
  /\ Done([what |-> "read"])
  /\ UNCHANGED <<numbers, faults>>

\* One ADD, or the transaction of two.
WorkAdd(j) ==
  /\ j.what \in {"add", "atomic"}
  /\ \/ /\ NoFailure
        /\ numbers' = numbers \cup j.takes
        /\ Done([what |-> "created", ok |-> TRUE])
     \/ /\ MayFail
        /\ UNCHANGED numbers
        /\ Done([what |-> "created", ok |-> FALSE])

\* A modify of "New <profile>" finds no such entry.
WorkModify(j) ==
  /\ j.what \in {"modify", "stray"}
  /\ \/ /\ j.what = "modify" /\ NoFailure
        /\ numbers' = numbers \cup j.takes
        /\ Done([what |-> "saved", ok |-> TRUE])
     \/ /\ \/ j.what = "modify" /\ MayFail
           \/ j.what = "stray" /\ NoFailure
        /\ UNCHANGED numbers
        /\ Done([what |-> "saved", ok |-> FALSE])

Work ==
  /\ jobs # <<>>
  /\ LET j == Head(jobs) IN WorkScan(j) \/ WorkRead(j) \/ WorkAdd(j) \/ WorkModify(j)
  /\ UNCHANGED <<uiVars, pending, lastId, history, bounds>>

\* Another client takes a number.
OthersTake ==
  /\ taken < MaxTaken
  /\ taken' = taken + 1
  /\ \E n \in (UNION {Ranges[p] : p \in Profiles}) \ numbers : numbers' = numbers \cup {n}
  /\ UNCHANGED <<uiVars, flowVars, history, typed, secrets, saves, leaves, faults>>
-----------------------------------------------------------------------------
\* The pump.

\* next_in_range: one above the highest in the range, its first if there is
\* none, nothing when the range is used up.
NextInRange(seen, range) ==
  LET inside == seen \cap range
      top    == CHOOSE n \in inside : \A m \in inside : m <= n
      low    == CHOOSE n \in range : \A m \in range : n <= m
      next   == IF inside = {} THEN low ELSE top + 1
  IN  IF next \in range THEN Number(next) ELSE Blank

\* apply_alloc_outcome: what has no value or still shows the placeholder gets
\* the number; without one the placeholder goes, and nothing is left in its place.
Takes(f) == form.vals[f] = Placeholder \/ f \in form.bare

\* faulty: a scan that failed leaves the placeholder
AllocatedIfFound(f, n) == IF Takes(f) /\ n # Blank THEN n ELSE form.vals[f]

Allocated(f, n) == IF Takes(f) THEN n ELSE form.vals[f]

StillBare(f, n) ==
  IF n # Blank THEN form.bare \ {f}
  ELSE form.bare \cup {g \in OfRole("number") : g = f /\ form.vals[g] = Placeholder}

PumpScan(r) ==
  /\ r.what = "scan"
  /\ LET mine == {q \in pending : q.id = r.id}
         q    == CHOOSE x \in mine : TRUE
         n    == IF r.ok THEN NextInRange(r.seen, Ranges[q.profile]) ELSE Blank
         vals == [form.vals EXCEPT ![q.attr] = Allocated(q.attr, n)]
     IN  /\ pending' = pending \ mine
         /\ form' = [form EXCEPT !.vals = IF form.kind = "create" THEN Computed(vals, written)
                                          ELSE vals,
                                 !.bare = StillBare(q.attr, n)]
         /\ written' = IF form.kind = "create" THEN Recorded(vals, written) ELSE written
  /\ UNCHANGED <<live, jobs, own>>

\* The entry read may have none of the numbers.
PumpRead(r) ==
  /\ r.what = "read"
  /\ \E lacks \in SUBSET OfRole("number") : form' = EntryForm(form.id + 1, lacks)
  /\ own' = {}
  /\ UNCHANGED <<live, written, pending, jobs>>

\* A created entry is read; one that was refused leaves its form open.
PumpCreated(r) ==
  /\ r.what = "created"
  /\ IF r.ok THEN form' = Closed /\ own' = {} /\ jobs' = Append(jobs, [what |-> "read"])
             ELSE UNCHANGED <<form, own, jobs>>
  /\ UNCHANGED <<live, written, pending>>

PumpSaved(r) ==
  /\ r.what = "saved"
  /\ jobs' = IF r.ok THEN Append(jobs, [what |-> "read"]) ELSE jobs
  /\ UNCHANGED <<formVars, own, pending>>

Pump ==
  /\ resps # <<>>
  /\ LET r == Head(resps) IN PumpScan(r) \/ PumpRead(r) \/ PumpCreated(r) \/ PumpSaved(r)
  /\ resps' = Tail(resps)
  /\ UNCHANGED <<password, dialog, lastId, numbers, sent, bounds, faults>>

Next ==
  \/ Create
  \/ \E f \in Typable : \E v \in {Blank} \cup (IF Role[f] = "number"
                                               THEN {Number(n) : n \in Typed} ELSE Texts) :
       Type(f, v)
  \/ \E f \in Fields : StageSecret(f) \/ Generate(f)
  \/ FormEvent \/ PressSave \/ SaveAsChange \/ Confirm \/ Cancel \/ LeaveFor
  \/ Work \/ Pump \/ OthersTake

Spec == Init /\ [][Next]_vars

\* The worker thread serves and the pump polls, whatever the operator does: what
\* is queued can be served and what is answered polled, so these are WF_vars(Work)
\* and WF_vars(Pump), which TLC would try out to see whether they can happen.
FairWork == <>[](jobs # <<>>) => []<><<Work>>_vars
FairPump == <>[](resps # <<>>) => []<><<Pump>>_vars

FairSpec == Spec /\ FairWork /\ FairPump
-----------------------------------------------------------------------------
TypeOK ==
  /\ form.kind \in {"none", "create", "edit"} /\ form.profile \in Profiles \cup {NoForm}
  /\ form.kind = "create" => form.profile \in Profiles
  /\ DOMAIN form.vals = Fields
  /\ form.bare \subseteq form.lacks /\ form.lacks \subseteq OfRole("number")
  /\ \A f \in form.bare : form.vals[f] = Blank
  /\ password \in 0..form.id
  /\ \A q \in pending : q.id \in 1..lastId /\ q.attr \in Fields
  /\ numbers \subseteq AllNumbers \cup InUse
  /\ own \subseteq Fields

\* What the operator typed is changed by the operator only: no template, no
\* computed value and no number that arrives later replaces it, in whichever
\* order the typing, the scans and the recomputations fall.
OperatorsTextStays ==
  [][form'.id = form.id /\ form'.kind = form.kind /\ leaves' = leaves =>
       Cardinality({f \in own \cap own' : form'.vals[f] # form.vals[f]}) <= typed' - typed]_vars

\* A computed value that is still the application's agrees with the number it
\* is made from, however often that number is typed over (an sambaSID of
\* another uidNumber would be written without a word).
ComputedFollows ==
  form.kind = "create" =>
    \A c \in OfRole("computed") :
      written[c] # Blank /\ form.vals[c] = written[c] /\ IsNumber(form.vals[Source[c]])
        => form.vals[c] = Made(c, form.vals[Source[c]])

\* A field that shows the placeholder is being looked up: its number was asked
\* for and the answer is still to come (AllocFlow::pending, poll).  An answer
\* taken for another request's, or dropped with the form it was meant for,
\* would leave the field waiting for nothing.
PlaceholdersAreAwaited ==
  \A f \in Fields : form.vals[f] = Placeholder =>
    \E q \in pending, s \in ToSet(jobs) \cup ToSet(resps) :
      q.attr = f /\ s.what = "scan" /\ s.id = q.id

\* No field shows the placeholder for ever, whatever becomes of its scan and of
\* the forms opened meanwhile.
AllocationEnds ==
  \A f \in Fields : (form.vals[f] = Placeholder) ~> (form.vals[f] # Placeholder)

\* The placeholder is never written (write_flow.rs:24 "Both save paths check it
\* first, so <allocating...> never reaches the server"): do_create does not, so
\* TLC refutes it for a number attribute with a string syntax.
PlaceholderIsNeverWritten ==
  \A f \in DOMAIN sent : sent[f] # Placeholder

\* The mask of a password is never written as the password (app.rs:1023 "strip
\* it so the ADD never sends ..."): a second save after a refused one does, and
\* TLC finds it.
MaskIsNeverWritten ==
  \A f \in DOMAIN sent : sent[f] # Sentinel
=============================================================================
