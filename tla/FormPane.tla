------------------------------ MODULE FormPane ------------------------------
(***************************************************************************)
(* The form pane and the form it edits: the cells on the screen, rebuilt   *)
(* and filled by render and read back after every event by sync_into_form  *)
(* (src/ui/panes/form.rs, list_model.rs), the fields that come, go and     *)
(* move when the object classes change (workflows/edit_form.rs), and the   *)
(* entries, saves and silent rebases that change the form under the cells  *)
(* (ui/state.rs).                                                          *)
(*                                                                         *)
(* A field's values are a sequence; a text typed empty is no value.  An    *)
(* ordered value is a record of its {n} prefix and its text.  One request  *)
(* is outstanding at a time, and the preview of a save and the Overwrite   *)
(* answer to a conflict are left to EntrySave.                             *)
(***************************************************************************)
EXTENDS Lists

CONSTANTS
  Entries,     \* entries that can be opened
  Labels,      \* attributes, objectClass among them
  OC,          \* objectClass
  Kind,        \* "text", "list", "ordered" or "launch"
  Rank,        \* the attributes in alphabetical order
  Classes,     \* object classes
  Must, May,   \* the attributes of each
  Show,        \* the attributes the profile shows first, each once
  Values,      \* texts of values
  Blank,       \* the empty one
  Trim,        \* each without the blanks around it
  Texts,       \* those that can be typed
  Theirs,      \* those that other clients write
  Stored,      \* the contents of the entries at the start
  None,        \* nothing outstanding (Option::None)
  MaxEdits,    \* bound: edits in cells
  MaxCommits,  \* bound: values chosen in a modal editor
  MaxSaves,    \* bound: saves the operator confirms
  MaxOthers    \* bound: writes of other clients

Kinds == {"text", "list", "ordered", "launch"}

\* What a field's values are, those of objectClass and of other fields edited
\* in a modal editor apart.
Contents(l) == Seq(IF Kind[l] = "ordered" THEN [at : Nat, text : Values] ELSE Values)

ASSUME FormPaneAssumption ==
  /\ OC \in Labels /\ Rank \in Seq(Labels) /\ ToSet(Rank) = Labels /\ IsInjective(Rank)
  /\ Kind \in [Labels -> Kinds] /\ Kind[OC] = "launch"
  /\ Must \in [Classes -> SUBSET (Labels \ {OC})]
  /\ May \in [Classes -> SUBSET (Labels \ {OC})]
  /\ Show \in Seq(Labels) /\ IsInjective(Show)
  /\ Trim \in [Values -> Values] /\ \A t \in Values : Trim[Trim[t]] = Trim[t]
  /\ Blank \in Values /\ Trim[Blank] = Blank
  /\ Texts \subseteq Values \ {Blank} /\ Theirs \subseteq Values
  /\ \A e \in Entries :
       /\ Stored[e] = [l \in Labels |-> Stored[e][l]] /\ ToSet(Stored[e][OC]) \subseteq Classes
       /\ \A l \in Labels : Kind[l] # "launch" => Stored[e][l] \in Contents(l)
  /\ {MaxEdits, MaxCommits, MaxSaves, MaxOthers} \subseteq Nat

VARIABLES
  server,   \* each entry's values and entryCSN
  form,     \* UiState::edit_form
  screen,   \* FormPane: what the cells were built for, and the cells
  due,      \* form_needs_render, and a width the cells were not built for
  out,      \* the request the worker has, or its answer
  touched,  \* history: the fields edited since the form was installed
  rebased,  \* history: a silent rebase changed the form since then
  edits, commits, saves, others

counters == <<edits, commits, saves, others>>
vars     == <<server, form, screen, due, out, touched, rebased, counters>>
-----------------------------------------------------------------------------
\* EditForm.

Strip(l, vs) == IF Kind[l] = "ordered" THEN [i \in DOMAIN vs |-> vs[i].text] ELSE vs

\* ordered.rs reconstruct.
Numbered(l, texts) ==
  IF Kind[l] = "ordered"
  THEN [i \in DOMAIN texts |-> [at |-> i - 1, text |-> texts[i]]] ELSE texts

Allowed(cs) == {OC} \cup UNION {Must[c] \cup May[c] : c \in cs}
Required(cs) == UNION {Must[c] : c \in cs}

\* A text reads as it is trimmed, and one of blanks as no value.
Cleaned(texts) == Kept([i \in DOMAIN texts |-> Trim[texts[i]]], Values \ {Blank})

Single(v) == SubSeq(v, 1, IF v = <<>> THEN 0 ELSE 1)

Current(f, l) ==
  IF l \in f.orphaned THEN <<>>
  ELSE IF Kind[l] = "text" THEN Cleaned(Single(f.vals[l])) ELSE f.vals[l]

SameSet(v, w) == Len(v) = Len(w) /\ ToSet(v) = ToSet(w)

IsDirty(f, l) ==
  IF Kind[l] = "ordered" THEN Strip(l, Current(f, l)) # Strip(l, f.base[l])
                         ELSE ~SameSet(Current(f, l), f.base[l])

DirtyLabels(f) == {l \in ToSet(f.fields) : IsDirty(f, l)}

\* The attributes changeset::diff has a modification for, and their new values.
Differs(f, l) ==
  IF Kind[l] = "ordered" /\ Current(f, l) # <<>> /\ f.base[l] # <<>>
  THEN Current(f, l) # f.base[l] ELSE ~SameSet(Current(f, l), f.base[l])

Plan(f) == [l \in {k \in ToSet(f.fields) : Differs(f, k)} |-> Current(f, l)]

\* build_form_model, build_edit_form: objectClass, then the profile's order.
Loaded(e) ==
  LET ok   == Allowed(ToSet(server[e].vals[OC]))
      must == Required(ToSet(server[e].vals[OC]))
      shown == Kept(Show, ok)
      Rest(S) == Kept(Rank, S \ ToSet(shown))
      all  == shown \o Rest(must) \o Rest(ok \ must)
  IN  [entry |-> e, csn |-> server[e].csn,
       fields |-> <<OC>> \o Kept(all, Labels \ {OC}),
       orphaned |-> {}, vals |-> server[e].vals, base |-> server[e].vals]

Bucket(f, l, must) ==
  IF l \in f.orphaned THEN 2
  ELSE IF l \in must THEN 0
  ELSE IF Current(f, l) # <<>> \/ Kind[l] \in {"launch", "ordered"} THEN 1 ELSE 2

\* order_fields, after the fields of sync_schema_fields.
\* faulty: the fields that left are taken off the form
SyncedDropping(f, cs) ==
  [f EXCEPT !.fields = Kept(Rank, Allowed(ToSet(cs))),
            !.vals = [l \in Labels |-> IF l \in Allowed(ToSet(cs)) THEN @[l] ELSE <<>>]]

SyncSchemaFields(f, cs) ==
  LET ok   == Allowed(ToSet(cs))
      g    == [f EXCEPT !.orphaned = ToSet(f.fields) \ ok]
      all  == ToSet(f.fields) \cup ok
      In(b) == Kept(Rank, {l \in all \ {OC} : Bucket(g, l, Required(ToSet(cs))) = b})
  IN  [g EXCEPT !.fields = <<OC>> \o In(0) \o In(1) \o In(2)]
-----------------------------------------------------------------------------
\* The cells.

\* value_kind: the view a field is shown in.
ValueKind(f, l) ==
  IF Kind[l] = "list" /\ l \in f.orphaned THEN "text" ELSE Kind[l]

\* What a cell shows of its field.
Filled(f, l, kind) ==
  CASE kind = "text"   -> Single(f.vals[l])
    [] kind = "launch" -> <<>>
    [] OTHER           -> Kept(Strip(l, f.vals[l]), {t \in Values : Trim[t] # Blank})

\* render: the cells are built anew for another entry, another sequence of
\* labels, or another width; the kinds are those of the last time.
\* faulty: the sequence of labels is compared by its length
NeedsRebuildByCount(s) ==
  s.entry # form.entry \/ Len(s.labels) # Len(form.fields) \/ "width" \in due

NeedsRebuild(s) ==
  s.entry # form.entry \/ s.labels # form.fields \/ "width" \in due

Rendered(s) ==
  LET built == IF NeedsRebuild(s)
               THEN [entry |-> form.entry, labels |-> form.fields,
                     cells |-> [i \in DOMAIN form.fields |->
                                  [kind |-> ValueKind(form, form.fields[i]), items |-> <<>>]]]
               ELSE s
  IN  [built EXCEPT !.cells =
         [i \in DOMAIN built.cells |->
            [kind |-> built.cells[i].kind,
             items |-> Filled(form, form.fields[i], built.cells[i].kind)]]]

\* What an event finds on the screen.
Seen == IF due = {} THEN screen ELSE Rendered(screen)

\* inline_editable: a single free-text value.
InlineEditable(f, l) == Kind[l] = "text" /\ l \notin f.orphaned

\* What a field of values v has once cell c is read back into it: a text as it
\* was typed, unless the field shows it already.
ToValues(l, v, c) ==
  IF c.kind # "text" THEN Numbered(l, Cleaned(c.items))
  ELSE IF Single(v) = c.items THEN v ELSE c.items

\* sync_into_form: cell i goes into field i.
SyncIntoForm(f, cells) ==
  LET Taken(i) == /\ i \in DOMAIN cells
                  /\ \/ cells[i].kind = "text" /\ InlineEditable(f, f.fields[i])
                     \/ cells[i].kind \in {"list", "ordered"}
  IN  [f EXCEPT !.vals = [l \in Labels |->
         LET at == {i \in DOMAIN f.fields : f.fields[i] = l /\ Taken(i)}
         IN  IF at = {} THEN @[l] ELSE ToValues(l, @[l], cells[CHOOSE i \in at : TRUE])]]

\* handle_event: render if asked for, the event on the cells, and sync.
Event(cells) ==
  /\ screen' = [Seen EXCEPT !.cells = cells]
  /\ form' = SyncIntoForm(form, cells)
  /\ due' = {}

Tick ==
  /\ Event(Seen.cells)
  /\ UNCHANGED <<server, out, touched, rebased, counters>>

Edited(i, items) ==
  /\ Event([Seen.cells EXCEPT ![i].items = items])
  /\ touched' = touched \cup {form.fields[i]}
  /\ edits' = edits + 1
  /\ UNCHANGED <<server, out, rebased, commits, saves, others>>

TypeText(i) ==
  /\ Seen.cells[i].kind = "text" /\ InlineEditable(form, form.fields[i])
  /\ \E t \in {<<>>} \cup {<<x>> : x \in Texts} :
       t # Seen.cells[i].items /\ Edited(i, t)

\* list_model.rs: Enter, a key typed into an item, an item deleted, an item moved.
EditList(i) ==
  LET its == Seen.cells[i].items
  IN  /\ Seen.cells[i].kind \in {"list", "ordered"}
      /\ \/ \E n \in 0..Len(its) : Blank \notin ToSet(its) /\ Edited(i, InsertAt(its, n + 1, Blank))
         \/ \E n \in DOMAIN its, t \in Texts \ ToSet(its) : Edited(i, [its EXCEPT ![n] = t])
         \/ \E n \in DOMAIN its : Edited(i, RemoveAt(its, n))
         \/ \E n \in 1..(Len(its) - 1) :
              Edited(i, [its EXCEPT ![n] = its[n + 1], ![n + 1] = its[n]])

\* apply_commit.
Told == due \cup {"render"}

Committed(l, f) ==
  /\ commits < MaxCommits /\ due = {}
  /\ form' = f
  /\ due' = Told
  /\ touched' = touched \cup {l}
  /\ commits' = commits + 1
  /\ UNCHANGED <<server, screen, out, rebased, edits, saves, others>>

PickClasses ==
  \E S \in (SUBSET Classes) \ {{}} :
    LET cs == SetToSeq(S)
    IN  /\ S # ToSet(form.vals[OC])
        /\ Committed(OC, SyncSchemaFields([form EXCEPT !.vals[OC] = cs], cs))

PickValue ==
  \E l \in ToSet(form.fields) \ {OC}, t \in Texts :
    /\ Kind[l] = "launch" /\ form.vals[l] # <<t>>
    /\ Committed(l, [form EXCEPT !.vals[l] = <<t>>])

\* A name or a number that arrives, and the splitter, make the pane render.
Background ==
  /\ \E w \in {"render", "width"} : w \notin due /\ due' = due \cup {w}
  /\ UNCHANGED <<server, form, screen, out, touched, rebased, counters>>
-----------------------------------------------------------------------------
\* Entries and saves.

Ask(e) == [what |-> "read", entry |-> e]

Save(f) == [what |-> "save", entry |-> f.entry, csn |-> f.csn, plan |-> Plan(f),
            edited |-> touched \cup f.orphaned]

RequestLeaf(e) ==
  /\ out = None /\ DirtyLabels(form) = {}
  /\ out' = Ask(e)
  /\ UNCHANGED <<server, form, screen, due, touched, rebased, counters>>

PressSave ==
  /\ out = None /\ saves < MaxSaves /\ DOMAIN Plan(form) # {}
  /\ out' = Save(form)
  /\ saves' = saves + 1
  /\ UNCHANGED <<server, form, screen, due, touched, rebased, edits, commits, others>>

Stored1(e, new) ==
  [server EXCEPT ![e] = [csn |-> @.csn + 1,
                         vals |-> [l \in Labels |-> IF l \in DOMAIN new THEN new[l] ELSE @.vals[l]]]]

\* run_modify: the assertion of the CSN, then the write.
ServeSave ==
  /\ out # None /\ out.what = "save"
  /\ IF server[out.entry].csn # out.csn
     THEN out' = [what |-> "conflict", entry |-> out.entry] /\ UNCHANGED server
     ELSE \/ /\ server' = Stored1(out.entry, out.plan)
             /\ out' = [what |-> "saved", entry |-> out.entry]
          \/ \* refused, or applied and the answer lost
             /\ server' \in {server, Stored1(out.entry, out.plan)}
             /\ out' = None
  /\ UNCHANGED <<form, screen, due, touched, rebased, counters>>

OthersWrite(e, l) ==
  /\ others < MaxOthers /\ l \in Allowed(ToSet(server[e].vals[OC])) \ {OC}
  /\ \E t \in Theirs : /\ server[e].vals[l] # Numbered(l, <<t>>)
                       /\ server' = Stored1(e, [k \in {l} |-> Numbered(l, <<t>>)])
  /\ others' = others + 1
  /\ UNCHANGED <<form, screen, due, out, touched, rebased, edits, commits, saves>>

\* process_responses: the entry's form replaces the one that is open.
PumpEntry ==
  /\ out # None /\ out.what = "read"
  /\ form' = Loaded(out.entry)
  /\ due' = Told
  /\ touched' = {} /\ rebased' = FALSE
  /\ out' = None
  /\ UNCHANGED <<server, screen, counters>>

PumpSaved ==
  /\ out # None /\ out.what = "saved"
  /\ out' = Ask(out.entry)
  /\ UNCHANGED <<server, form, screen, due, touched, rebased, counters>>

\* rebase_baselines: what the operator did not edit takes the server's values.
Rebased(f, fresh) ==
  [f EXCEPT !.csn = fresh.csn,
            !.vals = [l \in Labels |-> IF l \in DirtyLabels(f) \/ l \notin ToSet(f.fields)
                                       THEN @[l] ELSE fresh.vals[l]],
            !.base = [l \in Labels |-> IF l \in ToSet(f.fields) THEN fresh.vals[l] ELSE @[l]]]

\* resolve_conflict: the pane is not asked to render the form it changes.
PumpConflict ==
  /\ out # None /\ out.what = "conflict"
  /\ LET fresh  == server[out.entry]
         theirs == {l \in ToSet(form.fields) : ~SameSet(fresh.vals[l], form.base[l])}
         f      == Rebased(form, fresh)
     IN  IF DirtyLabels(form) \cap theirs = {}
         THEN /\ form' = f
              /\ out' = IF DOMAIN Plan(f) = {} THEN None ELSE Save(f)
              /\ rebased' = TRUE
         ELSE \* the operator is asked: Reload, or keep editing
              /\ out' \in {Ask(form.entry), None}
              /\ UNCHANGED <<form, rebased>>
  /\ UNCHANGED <<server, screen, due, touched, counters>>

Init ==
  /\ server = [e \in Entries |-> [csn |-> 0, vals |-> Stored[e]]]
  /\ \E e \in Entries : form = Loaded(e)
  /\ screen = [entry |-> None, labels |-> <<>>, cells |-> <<>>]
  /\ due = {"render"} /\ out = None /\ touched = {} /\ rebased = FALSE
  /\ edits = 0 /\ commits = 0 /\ saves = 0 /\ others = 0

Edit(i) == TypeText(i) \/ EditList(i)

EditCell == edits < MaxEdits /\ \E i \in DOMAIN Seen.cells : Edit(i)

Next ==
  \/ Tick
  \/ EditCell
  \/ PickClasses \/ PickValue \/ Background
  \/ \E e \in Entries : RequestLeaf(e)
  \/ PressSave \/ ServeSave
  \/ \E e \in Entries, l \in Labels : OthersWrite(e, l)
  \/ PumpEntry \/ PumpSaved \/ PumpConflict

Spec == Init /\ [][Next]_vars
-----------------------------------------------------------------------------
\* Only what the operator edited, or orphaned by changing the classes, reads as
\* edited: building cells, reading them back, canonical {n} prefixes, fields
\* that move, leave and return never make a form dirty by themselves (the guard
\* would stop the operator, and a save would write what nobody changed).
DirtyIsEdited == ~rebased => DirtyLabels(form) \subseteq touched \cup form.orphaned

\* When no rendering is due, every cell stands at the place of the field it was
\* built for and shows that field's values: a key never lands in another field,
\* of this entry or of the one before it, and what is saved is what is seen.
ShownIsSaved ==
  due = {} /\ ~rebased =>
    /\ screen.entry = form.entry /\ screen.labels = form.fields
    /\ \A i \in DOMAIN screen.cells :
         LET l == form.fields[i] IN
         screen.cells[i].kind \in {"list", "ordered"} \/
           (screen.cells[i].kind = "text" /\ InlineEditable(form, l)) =>
           ToValues(l, form.vals[l], screen.cells[i]) = form.vals[l]

\* A save writes what the operator edited, or orphaned, and nothing else: not
\* what another client changed and a silent rebase folded in.
\* (state.rs:94-96 "this folds in the other client's disjoint change so the
\* resubmit does not revert it")
OnlyEditsAreWritten ==
  out # None /\ out.what = "save" => DOMAIN out.plan \subseteq out.edited
=============================================================================
