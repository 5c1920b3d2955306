# eDAPtor in TLA+

eDAPtor is a terminal LDAP editor: a tree of entries, a form for one of them, and saves that are
conditional on the entry still being the version the form was read from. This directory holds a
formal model of it: TLA+ modules translated from the Rust source, TLC configurations that
model-check them on small instances, and TLAPS proofs of what matters most for every instance.
Paths such as `ui/state.rs` are relative to `src/src/`, paths under `docs/` to `src/docs/src/`.

Modelled are: editing and saving one entry under optimistic concurrency (`EntrySave`) and the change
set it writes (`ChangeSet`); the correlation of requests and answers for every kind of write
(`WriteFlow`); the form on the screen (`FormPane`); choosing values in modal editors (`Picking`);
moving about the tree and the entry list (`Navigation`); new entries (`CreateForm`) and the transaction
that creates two at once (`AtomicCreate`); saves that change group memberships (`MembershipSave`); and the
start: the profiles detected in the directory, the config laid over them, and the numbers the first
entries get from them (`NumberRange`, `ProfileDetection`, `ProfileLoad`).

## 1. The system

Three kinds of actor touch shared state:

* the **UI thread** runs the event loop: keys and dialogs (`ui/app.rs`, `ui/dialog/`), a 20 Hz timer
  that polls answers and posts commands (`ui/pump.rs`), and all of `UiState` (`ui/state.rs`);
* the **LDAP worker thread** (`ldap/worker.rs`) serves a FIFO queue of requests on one connection;
  answers come back on one channel that the timer polls. A few requests are *blocking*: the UI
  thread waits for a reply of its own, behind whatever is queued before it;
* **other LDAP clients** write the same directory at any time.

A modal dialog runs a nested event loop: the timer goes on polling and installing answers under an
open dialog, but a posted command waits until the dialog closes.

### Inventory

| Component | State | Operations | Hard part | What makes it correct | Modelled in |
|---|---|---|---|---|---|
| LDAP worker (`ldap/worker.rs`) | request queue, response channel, connection | search, modify with assertion, add, atomic add, modrdn, structure load | lost answers, transactions, blocking requests behind queued ones | one answer per request, in order; the UI unblocks; a transaction is all or nothing and its diagnosis takes back only its own | the `Work`/`Serve` actions of every module, `AtomicCreate` |
| Read flow (`workflows/read_flow.rs`) | pending ids | request, response | an answer can be for an entry left since | a form that holds edits is not replaced | `EntrySave`, `Navigation` |
| Write flow (`workflows/write_flow.rs`) | next id, pending intents, batches | submit, create, companion, membership batch, follow-ups, `on_response` | several writes per save, any order of verdicts | success iff all landed, silent retry only if none did, always answered | `WriteFlow` |
| Response processing, conflicts (`ui/state.rs`) | form, current and requested leaf, guard target, pending move, last conflict | `process_responses`, `apply_write_outcome`, `resolve_conflict`, `reconcile_selection` | state at the answer differs from state at the request | no lost update, no silent drop, retries repeat what was confirmed | the `Pump` actions of every module |
| Dispatch and dialogs (`ui/app.rs`, `ui/dialog/`) | one open dialog | save, guards, quit, overwrite, reload, create, activate | values read before a dialog and used after it | what was previewed is what is written | every module, for its own flow |
| Event pump (`ui/pump.rs`) | none of its own | tick | one tick reconciles, refreshes and posts | a tick leaves nothing undone | `Navigation.Tick`, `EntrySave` |
| Change set, save planning (`form/changeset.rs`, `form/validate.rs`, `workflows/save.rs`) | none | `diff`, `plan_save`, `prepare_save` | multi-valued and ordered attributes | applied to the baseline it yields the edited values | `ChangeSet`, `FormPane` |
| Edit form, schema sync (`workflows/edit_form.rs`, `form_model.rs`) | values, baseline, CSN, fields | edit, resync of fields on objectClass | fields leave and return with edits in them | only what was edited is dirty | `EntrySave`, `FormPane` |
| Panes (`ui/panes/`) | cells, rows, highlights | render, sync, report, refresh | cells and rows are matched by position to data that moves | what is saved, or opened, is what is seen | `FormPane`, `Navigation` |
| Membership saves (`write_flow.rs`, `save.rs`, `app.rs`) | batch | member and CSN fetches, last-member check, one write per group | non-atomic legs, fetches in several round trips | a required group is never emptied; no update is lost | `MembershipSave`, `WriteFlow` |
| Create workflow, companions (`workflows/create.rs`, `worker.rs`) | create form | defaults, templates, add, atomic add, replay diagnosis | answer of EndTransaction lost, replay of a rolled-back transaction | "nothing written" is true | `CreateForm`, `AtomicCreate`, `WriteFlow` |
| Find, resolve, allocation flows (`leaf_search.rs`, `search_flow.rs`, `resolve_flow.rs`, `alloc_flow.rs`) | latest id, in-flight set, name cache, placeholders | request, response, cache drop | superseded and late answers | what is shown answers the latest question; nothing waits for ever | `Navigation`, `Picking`, `CreateForm` |
| Structure, labels, navigation (`structure.rs`, `labels.rs`) | tree of entries, highlight | build, upsert, remove, reload, branch moves | vanished entries with edits, reload under a form | panes show the structure; highlight and form agree | `Navigation` |
| Staged passwords, samba (`ui/pw_editor.rs`, `samba/`) | `pending_password` | stage, fold into a save, drop | outlives the form it was staged for | written to the entry it was typed for | `CreateForm` (partly) |
| Pickers and editors (`ui/lookup.rs`, `picker.rs`, `multi_picker.rs`, `oc_picker.rs`, `shuttle.rs`, `pick_state.rs`) | rows, choice, staged commit | search, move, pick, OK | answers of another editor, names arriving under a column | nothing lost, duplicated or taken from another editor | `Picking` |
| Defaults, templates, ranges (`config/defaults.rs`, `detect/range.rs`) | latches | follow, fill, allocate | typing against following | what was typed stays | `CreateForm`, `NumberRange` |
| Profile detection (`detect/`) | sample, detected profiles, profiles in effect | sample, infer, merge, assume, validate; allocate from a range | searches that fail or are cut; rules that run one after the other and undo each other | a failed detection keeps nobody out; the config's word stands; no number is given twice | `ProfileLoad`, `ProfileDetection`, `NumberRange` |
| Configuration (`config/`), schema (`schema/`) | static | parse, look up | - | - | not modelled |
| Startup, LDIF, result codes, TLS | - | formatting, connection | I/O | - | not modelled |

`PROJECT.json` lists the same components with their status, and every hazard this code is exposed to
at the line where it bites, with the property that covers it or the module that will.

## 2. Modules

```
ChangeSet ---- EntrySave ---- MCEntrySave        EntrySave_waits, _races, _churn, _v_toctou.cfg
                    \
                     EntrySave_proofs            theorems, those about ChangeSet among them

SavePromise <== WriteFlow ---- MCWriteFlow       WriteFlow.cfg
                    \
                     WriteFlow_proofs            theorems

Lists <- FormPane   ---- MCFormPane              FormPane.cfg
   \  <- Navigation ---- MCNavigation            Navigation.cfg
   \  <- Picking    ---- MCPicking               Picking.cfg
    \
     Lists_proofs <- FormPane_proofs, Navigation_proofs, Picking_proofs, Creation_proofs   theorems
CreateForm     ---- MCCreateForm                 CreateForm.cfg       Creation_proofs
AtomicCreate   ---- MCAtomicCreate               AtomicCreate.cfg     WriteFlow_proofs
MembershipSave ---- MCMembershipSave             MembershipSave.cfg   MembershipSave_proofs

NumberRange <- ProfileDetection <- ProfileLoad ---- MCProfileLoad    ProfileLoad.cfg      Creation_proofs
```

A definition whose comment starts with *faulty* is a plausible bug in the definition after it. It is
in no specification: put in that definition's place, it makes the property named for it in
`PROJECT.json` fail, which shows that the property says something about the code.

### ChangeSet

The pure part: contents are functions from attributes to sets of values. `Diff` translates
`changeset::diff` (whole-value replacement of single-valued and ordered attributes, added and deleted
values otherwise), `Apply`/`Accepted` are what an LDAP server does with a Modify, `Merge` is
`rebase_baselines`: attributes the operator edited keep the edit, the others take the server's
values. Binary values, masking and password modifications are not modelled; values have no order, so
ordered attributes are represented by their treatment (replaced whole) only.

### EntrySave

The UI thread, the flows, the worker, the directory and other clients, for one entry at a time.

| Code | Model |
|---|---|
| `UiState::edit_form` (values, baseline, `baseline_csn`) | `editForm` |
| `current_leaf`, `requested_leaf`, `guard_target`, `pending_nav` | the variables of those names |
| `last_conflict`, `last_write_error`, posted commands | `lastConflict`, `lastError`, `posted` |
| the dialog dispatch is running, with what its closure captured | `dialog` |
| request channel, response channel, reply channel of a blocking request | `jobs`, `resps`, `reply` |
| the directory with `entryCSN` | `srv`, `clock` |
| a key, a choice in a dialog | the actions of `Operator` |
| one polled answer and all that follows from it | the actions of `Pump` |
| `reconcile_selection` of the tick | `ReconcileSelection` |
| a posted command run by dispatch | the actions of `Dispatch` |
| one request served | the actions of `Worker`, `WorkerFault`, `WorkerRereadFault` |

`owed`, `approved` and the fields called history in the comments are auxiliary: nothing in a guard
reads them except through bounds.

Modelling decisions:

* `do_save` is two actions, before and after its confirm dialog (`PressSave`, or the guards, then
  `ConfirmSave`), because the timer runs in between. What the closure computed before is in `dialog`,
  what it reads afterwards is read from the state then.
* A tick handles all polled answers at once; the model handles one per step. The operator can act
  between two of them in the model, which is what a slower network would produce.
* A blocking re-read goes through the same queue; while one is queued or answered but not consumed
  (`Blocked`) the UI thread takes no step.
* A conflict is answered by `RereadFailed`, `ResolveByAsking` or `ResolveByRebasing`, with whatever
  form is open then, as in `resolve_conflict`.
* Two alerts posted in one tick share one SHOW_ERROR command; which of them dispatch shows is left
  open (`ShowConflict` and `ShowError`).
* `Quit` does not stop the worker before it has served what is queued (`Drop` queues a shutdown
  behind it).
* The directory gives every change a new CSN and rejects a Modify that empties an attribute of
  `Must`. A connection failure is an error answer with or without the modification or the rename
  applied (`WorkerFault`).
* Entries are leaves. After a container was renamed the code also reads the structure again, blocking,
  and moves `current_branch` along (`state.rs:709-766`); no module has that.
* The server's part, other clients, and how the toolkit (tvision) delays posted commands under a
  modal dialog are external to the repository; they are modelled as the code relies on them.

### WriteFlow and SavePromise

`WriteFlow` has `next_id`, `pending` and `batches` of the code, the worker's two queues, and one
action per `submit_*` function and per arm of `on_response`. The server's verdict is free: a write can
land, be refused, conflict (if it asserts a CSN), or land with its answer lost. `size`, `todo` and
`told` are history: how many writes a save has, which have not landed, what was reported of it.
`submit_followup` and `submit_followup_create` are part of the action that handles the answer they
follow, as in `apply_write_outcome`.

`SavePromise` is the abstract specification, with no ids, queues or batches: a save's outcome is
decided once; *success* only when every write has landed; *conflict*, the outcome the controller
retries silently, only when none has; *error* at any time. `WriteFlow` implements it
(`KeepsPromise`), with the first report of a save as its outcome.

Answers with an unknown id (`Ignored`) are not modelled: an id is pending from its submission to its
single answer, which `Correlation` states. A conflict on a write that asserts nothing is likewise
unreachable. `Request::Delete` is never submitted by the UI.

### FormPane

The form from the other side: what stands on the screen. The pane keeps one cell per field, matched to
the fields by position; an event renders the cells if that is due, changes one of them, and reads all
of them back (`sync_into_form`).

| Code | Model |
|---|---|
| `UiState::edit_form` with the fields in order, `orphaned`, values and baseline | `form` |
| `FormPane`: `built_dn`, `built_labels`, `kinds`, the views' contents | `screen` |
| `form_needs_render`; a width other than `built_w` | `due` |
| `handle_event` of the timer, of a key in a text cell, of a list editing key | `Tick`, `TypeText`, `EditList` |
| `apply_commit` with schema resync, or with values | `PickClasses`, `PickValue` |
| names and numbers arriving, the splitter | `Background` |
| an entry's answer, a save's, a conflict with its silent rebase | `PumpEntry`, `PumpSaved`, `PumpConflict` |

Values are sequences, because order matters here; an ordered value is its `{n}` and its text. What the
code trims is trimmed: `Trim` says what a text is without the blanks around it, `Current` reads a single
value so, and a list is filled without its blank values and read back trimmed. A list
item never repeats a text that is already in the list. There is one request at a time, no preview and
no Overwrite: `EntrySave` has those. Focus, scrolling and the caret are layout. The read-only
operational attributes and the fields of a profile without schema are left out.

### Picking

A field's modal editor, open while the answers to its searches, the names of its values and an entry
asked for before still arrive. `jobs`/`resps` are the worker's queues, `latest` and `results` the search
flow with the rows all editors share, `inflight` and `cache` the resolve flow, `staged` what OK
commits, `dialog` the editor. `Activate` is ACTIVATE, `Type` a changed search text, `MirrorFocused` the
lookup's highlight, `PickAt` the picker's row, `MoveIn` and `MoveOut` the two-column view of members
and object classes (rows are found again by label, as in `shuttle.rs`), `Ok` is `apply_commit`, by
field position. A candidate is the value stored for it; labels may coincide, and two of the instance's
do.

### Navigation

The tree of containers, the entry list with its incremental find, and the form following the
highlight. All of `UiState` that takes part, and the rows the panes show, are the record `ui`; the
controller's steps are functions from one `ui` to the next, since a tick (`Tick`) runs several of them
in a row: poll, `ReconcileSelection`, `ReconcileBranch`, `RefreshTree`, `RefreshList`. An entry's label
is its version. A dialog (`GUARD_NAV`, the vanished entry) lets ticks go on under it. What a save writes
is left to `EntrySave`; here it changes the label, or is refused. What the tree shows (`TreeOf`) is made
from the containers known (`Containers`, `Branches`), the list from the children that are none; both
filters are `Kept` of `Lists`, which says by places, without recursion, what `Iterator::filter` leaves;
`Picking` filters its columns with it too.

### CreateForm and AtomicCreate

`CreateForm` is a new entry's form from `open_create` to its ADD: numbers scanned for while the
operator types (`pending`, the queues), templates that follow their source until typed over (`live`),
the computed SID (`written`), the staged password and its mask (`password`), the preview (`dialog`).
Every event of the form pane ends in `Settled`. A number that arrives late goes into a field that shows the
placeholder or has no value at all (`Takes`): the number fields an entry lacks (`lacks`) have none until the
cells are read back, an empty one as an empty text (`bare`). `SaveAsChange` is a save of an entry, and the
guard's Save on a new one: both run `do_save`.

`AtomicCreate` is `run_add_atomic` with its diagnosis, one request to the server per step, other clients
in between: the transaction, its commit that is carried out or refused with the answer possibly lost,
the replay outside the transaction that finds the culprit, the deletes that take it back, the message. An add
of the replay whose answer is lost may have landed (`culprit` is then in the directory).

### MembershipSave

`do_combined_save`: the plan, one blocking fetch per group and stage (versions first, then the members
of groups a removal could empty), the check of the last member, the preview, and the legs. The
directory checks the assertion of each leg. Batches are counted as in `WriteFlow`; what the legs do to
the directory, and what is asserted of it, is here.

### NumberRange, ProfileDetection, ProfileLoad

`NumberRange` is rule C: the numbers in use, split into blocks by gaps, the block that holds most of a
profile's own numbers, the next number above it and where the pool ends. `ProfileDetection` is what is
read off a sample: one profile per container and structural class, named after its place, with the
parts its entries show. Of these the model keeps those other parts or a create depend on: the gid rule
and the companion, number ranges, pickers. A dn is a sequence of components, a name a sequence of
words; in the schema of the instance an entry has at most one structural class. What the code loops
over until nothing changes, or block after block, is a recursive function whose steps have names (`Grown`,
`Give`), so that what holds at its end can be proved.

`ProfileLoad` is the program's start, one action per search and what can come of it (answered, cut,
failed, nothing visible, out of time), then one per call of `assemble`: `DetectProfiles`, `Merge`,
`Assume`, `Validate`. A block of the config is a record with what it sets, suppresses and disables. The
blocks are given their detected profiles in two passes, by name and then by place and class (`Named`,
`Placed`, `Handed`); a detected range is something a config cannot spell, as `DetectedRange` is never
written in one. `MaxMishaps` bounds the searches that fail or are cut short.
After that come creates with numbers from the profiles in effect, through `Allocate` as the worker
does; what happens between the scan and the ADD is left to `CreateForm`. Four things are simplified: a
user without a gid rule gets the number of any group there is; the `uid` and the `cn` of an entry are its
leaf; class names, container texts and profile names are words, and what a slug makes of a text is a
constant; and `Validate` looks at the candidates of the widgets only. What `validate` and `resolve_widgets`
also do to a malformed companion or binding (`merge.rs:700-717`, `config/widget.rs:102`: refuse the config's, drop
a detected companion) depends on the config alone, not on what a search missed.

## 3. What the runs check

| Run | Instance | Question |
|---|---|---|
| `waits` | 2 entries, 2 attributes, 2 values, 2 writes by others, 2 saves; 510 764 states | When the operator waits for outstanding work: is another client's write ever overwritten unseen, do edits survive reads, does the guard's Save arrive where it promised? |
| `races` | 1 attribute, 1 write by others, 1 save, up to 2 requests outstanding when the operator acts; 416 200 states | With the operator acting at any time: is every copy of an entry faithful to the version it bears, do form and highlight agree once reads land, does a blocking re-read return? |
| `churn` | a third name for renames, deletes by others, an operation that fails before or after it is applied, a required attribute; 474 197 states | Type correctness; every write is one that was previewed, no confirmed save disappears, and under fairness every one is answered, whatever happens to the entry. |
| `flow` | 2 saves of any kind, up to 3 legs; 54 608 states | Requests, intents, answers and batch counters agree (`Correlation`, `BatchAccounting`); the write flow keeps its promise, says truly what landed, and answers every save. |
| `fields` | 2 entries, 5 attributes (text, list, ordered, two in dialogs), 2 classes, 1 text typed; 553 144 states | Fields move, leave and return under the cells that show them: does only what was edited read as edited (`DirtyIsEdited`), and does each cell show, and write, the field it stands at (`ShownIsSaved`)? |
| `picking` | 4 kinds of editor, 2 opened in turn, 2 values that look the same, 1 text typed, 1 failed search, 1 read; 134 593 states | Does an editor offer its own candidates for its last text, is nothing in both columns, do searches and names settle? |
| `navigation` | 5 names, 1 move, 2 finds, 1 edit, 1 rescan, 1 change by others, 1 failure; 456 161 states | Do the panes show the structure, are hits of this branch and this query, do form and highlight agree once all is answered, does the circle of list and form end? |
| `create` | 2 new entries of 2 profiles, entries with and without a number, 2 keys, 1 save, 1 fault; 444 410 states | Does what was typed stay, does the computed SID follow its number, does every placeholder go away? |
| `atomic` | 3 names, 2 faults, 2 changes by others; 23 592 states | Is the answer of a transaction true, does its replay take back only its own? (Deadlock checking shows that the worker is never stuck before its answer.) |
| `groups` | 2 groups, 2 saves, 2 edits, 1 change by others, 1 fault; 522 503 states | Does a removal that passes its assertion leave a member, does the own leg replace only what it was diffed against, does every batch end? |
| `profiles` | 6 directories, 11 configs, 2 faults, 3 creates; 124 239 states | Does a search that fails ever keep the program from starting (`DetectionNeverStops`), is what the config sets and suppresses in effect after all the rules (`OperatorDecides`), does each block get the profile it names, with what points at it (`MatchesAreFaithful`), is every number new (`NumbersAreFree`)? |
| `v_toctou` | violates `OthersWritesSurvive` | A read of another client's write lands while a save's preview is open: the save asserts the new CSN with modifications diffed against the old values. |


The violation run shows where a doc promises more than the code does; `PROJECT.json` quotes it.

**Known divergences.** More of them came up while modelling. They are not runs of their own; where a
property is named it is stated in the module, and TLC refutes it when it is added to that module's
configuration (with the constants in brackets).

* `EntrySave`: a rename and its follow-up carry no assertion (`RenamesDoNotClobber`); an Overwrite
  cancelled at its preview leaves the new CSN on the form (`OnlyOverwriteClobbers`) and one that goes
  through diffs against the old baseline, so on a multi-valued attribute the other client's values
  stay (`OverwriteWins`); a conflict answered after the operator left the entry resubmits and reports
  nothing (`NoSilentDrop`), edits typed since are resubmitted without a preview (`WritesArePreviewed`),
  the re-read after a save replaces newer edits (`EditsSurviveReads`), and `pending_nav` is one slot
  that an earlier save's answer takes (`GuardMoveCompletes`; all four with `OperatorWaits = FALSE`);
  the CSN a write returns (`new_csn`) is dropped.
* `WriteFlow`: two failing legs of one membership save report one error each (`OneVerdictPerSave`),
  against the comment at `write_flow.rs:815`; and a conflict of a leg is reported, not reconciled
  (`write_flow.rs:820`), although `concepts/optimistic-concurrency.md` says the same logic applies to
  every leg.
* `CreateForm`: `do_create` does not wait for a number being looked up, so one with a string syntax is
  created as its placeholder (`PlaceholderIsNeverWritten`, `IntegerFields = {}`; `write_flow.rs:24` says
  both save paths check); a create refused by the server and saved again writes the mask of the
  password it has used up (`MaskIsNeverWritten`, `MaxSaves = 2`; `app.rs:1022` says it is stripped); a
  discarded form leaves `pending_password` to the next save, of another entry (`app.rs:1094`); an
  answer to an abandoned form's scan fills the next form from the wrong range (`state.rs:449`), or puts a
  number into an existing entry's form whose field has no value (`state.rs:456`), which a save then writes; Save in
  the guard of a new entry is a Modify of an entry that does not exist (`app.rs:273`), and Alt+N opens
  a new form over edits without asking (`app.rs:337`; `usage/crud.md:63-69` says otherwise).
* `Navigation`: a failed read leaves `current_leaf` at an entry whose form never came (`state.rs:387`;
  `PlaceIsKept` names the exception `missed`); a read answered after the rescan that found its entry
  gone puts it back in the tree and on the screen (`HeldFormIsUnsaved`; the comment at `state.rs:1446`);
  and such an answer can put back an entry whose parent is gone too, which is then linked to nothing.
  When the parent is known again, under a container that has other children, nothing rebuilds the tree
  (`Structure::upsert` says nothing changed). So it is with a base that is of no container class and has
  lost its last child: it stays in the tree (`tree.rs:86-88`), and when a save relabels it the tree is not
  told, although `structure.rs:228` says an in-tree node's new label is (`TreeIsCurrent`, in a directory of
  two names, `MaxMoves = 2`). Hence `TreeRooted` in `PanesShowWhatIs` (section 4).
* `Picking`: OK writes by field position into whatever form is open by then (`state.rs:1142`). Of two rows
  that look the same the first is moved, whichever is highlighted (`shuttle.rs:429`).
* `AtomicCreate`: an add of the replay that landed although its answer was lost is not deleted. The message
  says that nothing was written and that adding this entry failed (`worker.rs:730`, `worker.rs:756`), and the
  entry is there. `AtomicAnswerIsTrue` accepts it because the entry is named, as the one to blame.
* `FormPane`: an ordered attribute whose stored prefixes are not 0, 1, 2... is canonicalised by any save
  of the entry although it does not read as dirty (`Differs` against `IsDirty`). A stored value with
  blanks around it reads as edited from the start, because the current value is trimmed and the baseline
  is not (`edit_form.rs:45`, `list_model.rs:79`; `DirtyIsEdited` with such a value in `MCStored`). A silent rebase
  (`state.rs:1052`) is not rendered: at the next event the cells write what they still show back into
  the form, and the resubmission after a second conflict, or a later save, reverts the other client's
  change (`OnlyEditsAreWritten`; the comment at `state.rs:94-96` says it does not).
* `ProfileLoad`, numbers: a config that sets `gidNumber = "{uidNumber}"` itself, or the companion, or
  suppresses both numbers, leaves a range that detection did not unify, and users' and groups' numbers
  can collide (`NumbersAreFree` without its antecedent; `configuration/detection.md:62` says they share
  one space).
* `ProfileLoad`, config: a detected range that is suppressed comes back from the rule that fills gaps
  (`OperatorDecides` names it; `detection.md:121` says suppressing removes the part); a sample cut at
  `SAMPLE_SIZE` or by the server can miss a class and is not `incomplete`, so a config naming its profile
  stops the program (`DetectionNeverStops` names it; `load.rs:299` says such containers still yield their
  profiles); after a search that failed in part, private groups may be assumed that a whole sample
  speaks against (`assume.rs:148` keeps to none only when detection failed as a whole).
* `ProfileDetection`: two profiles can have one name (containers whose texts have the same slugs;
  `names.rs:1-2` says names are lengthened until unique), and a name changes when another container
  appears or fails.
* Documented and not there: deleting an entry (`usage/crud.md`); the worker can, nothing asks it to.

**`OperatorWaits`** is the line in `EntrySave` between what the code guarantees and what it leaves to the
operator. With it (the operator acts only when nothing is outstanding, other clients at any time) all
the safety properties hold, conflicts and silent retries included. Without it `CopiesAreFaithful`,
`FormMatchesItsVersion`, `FormIsCurrentLeaf` and `UiUnblocks` still hold. So `waits` and `churn` say nothing of
an operator who types, leaves or saves again while a read, a save or a conflict is outstanding; the hazards that
are only that are listed in `PROJECT.json` without a property, with the refutation as their note. Nor does
`races` have reads that fail or entries that vanish: what becomes of those is in `navigation` (`missed`).

**Bounds.** In `EntrySave`, two values per attribute distinguish *mine* and *theirs*; a third is used
where an Overwrite must tell both from the original. Two attributes give disjoint and overlapping
changes, two entries give answers that arrive for an entry left since, a third name is what a rename
needs. Two writes by others are needed for a conflict during the resolution of a conflict; two saves
for answers to one arriving in the middle of the other. In `WriteFlow`, two saves share the id space and
the queue, and three legs are the first case with a success, a failure and a late answer. In
`FormPane`, a class is taken away and brought back by two choices, each kind of field occurs, and the
second entry has fields at other places and non-canonical prefixes; what is typed has blanks around it. In `Picking`, two editors are what
it takes for an answer to reach the wrong one, and the second text for one to be overtaken; the two members
to choose from look the same. In
`Navigation`, two finds are needed for a late one, an edit with a move for the guard, a rescan with a
change for a vanished entry, and one name exists only after another client added it below a leaf. In
`CreateForm`, the second form is there for answers meant for the first, the second key for typing over
what follows. In `AtomicCreate`, two faults let the diagnosis fail after the transaction did. In
`MembershipSave`, a second save overlaps the legs of the first. In `ProfileLoad`, samples of two and
a threshold of two make every rule apply and not apply, the small gap and the low end give a second
block and an exhausted pool, three containers cut one directory, and two mishaps let the search and its
fallback fail. `MaxQueue` bounds the requests
outstanding when somebody acts, not the queue.

**Fairness.** Weak fairness of the worker (a thread that serves its queue),
of the timer's steps (polling, reconciling, refreshing), of dispatch (posted commands, and
in `MembershipSave` the fetches that follow one another without the operator), and in `Picking` of
rendering, which every event does. None for the operator, other clients or failures.
Where it would make TLC compute what an action does only to see that it can (`FairTick`, `FairPump`,
`FairRender`, and `FairWork` of `CreateForm`), weak fairness is stated with the condition that enables the action. A silent rebase
has no retry limit in the code: it ends because other clients stop, which `MaxOthers` expresses.
Deadlock checking is off where the operator may quit or stop; in `atomic` it is on.

## 4. What is proved

All theorems are checked by TLAPS, for every value of the constants that satisfies the modules'
assumptions (each named `...Assumption` in the module that declares the constants, and evaluated by
TLC on every run). Where a theorem needs more, its `ASSUME` says so.

| Module | Theorems | Beyond the assumptions |
|---|---|---|
| `EntrySave_proofs` | of `ChangeSet`: `DiffTouchesOnlyEdits`; `ApplyIsMerge` (a diff applied to any content that agrees with the baseline on the edited attributes is accepted and yields the three-way merge), of which `DiffRoundTrip` is the case of the baseline itself; `RebaseKeepsTheChange` (after a silent rebase the diff is the one that was previewed) | |
| | `TypeCorrect`, `CopiesCorrect` (`CopiesAreFaithful`), `FormCorrect` (`FormMatchesItsVersion`) | |
| | `NothingLost` (`NoLostUpdate`), `NothingUnseenIsWritten` (`WritesArePreviewed`), `NothingDropped` (`NoSilentDrop`), `NothingTypedIsLost` (`EditsSurviveReads`), `MovesComplete` (`GuardMoveCompletes`) | the operator waits; the directory starts in obedience to its own schema |
| | `LeafCorrect` (`FormIsCurrentLeaf`) | reads succeed |
| `WriteFlow_proofs` | `FlowTypeCorrect`, `BatchesCorrect` (`BatchAccounting`), `AnswersCorrelate` (`Correlation`), `ReportsAreTrue` (`ReportsNameWhatLanded`), `FlowKeepsPromise` (`KeepsPromise`: the write flow implements `SavePromise`) | |
| | of `AtomicCreate`: `AtomicTypeCorrect`, `AnswersAreTrue` (`AtomicAnswerIsTrue`), `DeletesItsOwn` (`TakesBackItsOwn`) | |
| `MembershipSave_proofs` | `LastMembersStay` (`RemovalsAreChecked`), `OwnLegsReplaceWhatWasShown` (`OwnLegIsOfItsVersion`) | |
| `Picking_proofs` | `AnswersAreTheEditorsOwn` (`OwnAnswers`), `LastTextWins` (`SettledOnLastText`) | |
| | `EachValueOnce` (`NothingTwice`) | the candidates of a binding, and the values of a stored attribute, differ (`ValuesDiffer`) |
| `FormPane_proofs` | `CellsAreTheForm` (`ShownIsSaved`) | |
| | `OnlyEditsAreDirty` (`DirtyIsEdited`) | the values in the directory have no blanks around them, none is empty, and a single-valued attribute has one (`Orderly`) |
| `Creation_proofs` | of `CreateForm`: `ComputedValuesFollow` (`ComputedFollows`), `TypedTextStays` (`OperatorsTextStays`) | |
| | `PlaceholdersAreLookedUp` (`PlaceholdersAreAwaited`) | nobody types the placeholder, and it is no number and nothing made from others (`PlaceholderIsReserved`) |
| | of `ProfileLoad`: `LoadInvariant`, `OperatorsChoice` (`OperatorDecides`), `DetectionsFault` (`DetectionNeverStops`) | |
| | `FreshNumbers` (`NumbersAreFree`) | no entry, and no block's entries, are both user and group (`UsersAreNoGroups`) |
| | `BlocksMatch` (`MatchesAreFaithful`) | while the detected profiles have different names (`NamesDiffer`) |
| `Navigation_proofs` | `NavigationIsTyped`; `PlaceStaysKept` (`PlaceIsKept`); `HitsAreOfTheContainer` (`HitsBelongHere`), `HitsAreOfTheQuery` (`FindSettles`), `ListShowsWhatIs` (`ListIsCurrent`) | |
| | `PanesShowWhatIs` (`PanesAreCurrent`) | what is known hangs together (`TreeRooted`: the base is a container, the parent of a known entry is known) |
| `Lists_proofs` | lemmas only: the elements of a list appended to, joined, or filtered (`KeptFacts`), when two filters leave the same (`KeptSame`), what a recursive function keeps and what flattening yields (`Courses`, `FlatFacts`), and that the places of an order are distinct (`PlacesDiffer`) | |

Each rests on an inductive invariant (those about `ChangeSet` and `Lists` on none). TLC checked the properties,
and the invariants where it can evaluate them, first. What they say, and why the properties
themselves were not enough:

**EntrySave, at any time.** `FormMatchesItsVersion` is not inductive: it says nothing of answers still on
their way, and a read's answer becomes the form. `CopiesAreFaithful` is: CSNs are distinct and at most
the clock (`VersionsDiffer`), and each answer in `resps` and `reply`, and the form unless an Overwrite
changed its CSN, holds the content of the version it names, if that version is still current. The
proof has two parts: whatever a step does to the directory, a current CSN either keeps its content or
is new (`DirStep`), so old copies stay faithful (`FaithfulStep`); and each action that makes a copy
makes it from the entry it read (`FoundFaithful`) or from a faithful copy. It holds without
`OperatorWaits`, so `FormCorrect` is a statement about the code alone.

**EntrySave, a waiting operator.** With `OperatorWaits` at most one thing is under way: a request, an
answer, a dialog or a posted command (`OneThing`). `WaitInv` adds what that one thing must be like.
A save, on its way or answered with a conflict, has the form's own baseline, values and CSN, its change
was previewed, and what is owed to the operator is that save (`SaveOK`); a rename's follow-up has the
modifications that were previewed with it. A silent rebase keeps this: the form's CSN becomes the
re-read entry's, and the change set stays what was previewed by `RebaseKeepsTheChange`, which is why a
resubmission is never empty or invalid. That an attribute the schema requires is not empty at the start is
needed for the last: the rebased form is validated again, with the attributes others wrote in it.
Other clients write at any time.

**EntrySave, an operator who does not wait.** Any number of reads may be outstanding, with saves,
conflicts and rebases between them. `LeafFollows` says that the last read asked for, in the order of
both queues, is of `current_leaf`, and that with none outstanding the open form is. `ReadsSucceed` says
that all names exist, nothing is deleted and nothing fails; without it a read that finds nothing leaves
`current_leaf` at an entry whose form never came (section 3).

**WriteFlow.** Neither `TypeOK` nor `BatchAccounting` is inductive alone: that a counter can be
decremented needs the answered leg to be one of those counted, hence its intent to be pending, hence
ids to be unique over both queues. `FlowInv` is `TypeOK`, `BatchAccounting` and `Correlation`: an id is
pending exactly while its request or its answer is queued, only the legs of one batch share a save,
what may be outstanding of a save depends on the kind of its pending write (`Stages`), and no answer
lies (`Truthful`). Its lemmas follow the shapes the actions have: one write submitted (`AloneStep`),
a batch (`CombinedStep`), a follow-up (`FollowUpStep`), an answer that closes its write
(`CloseStep`), a request served (`ServeStep`). The refinement then needs only what `Justified` says of
the answer polled. `ReportsAreTrue` adds one small invariant (`RenameNamed`).

**AtomicCreate.** `Accounted` says what the worker knows of what it wrote: before the commit nothing of
the request is in the directory; from the replay on, every entry in it that is the worker's is one still
to be taken back, a leftover that will be named, or the culprit: the one whose add landed with its answer lost,
which the property counts as named (section 3). `Disturbed` says what it takes others to
change that: an entry the replay created and that is gone costs them a delete, one that is theirs now a
delete and an add, and a name created twice a delete in between; without it the deletes could not be
told from deletes of other clients' entries.

**MembershipSave.** Versions are fetched before members. Whatever the client knows (`FormFresh`, `ReadsFresh`,
`PlanFresh`, `JobsFresh`: in the form, in answers, in the plan, in the legs under way) it knows at a version no
newer than the server's, and if that version is still current what it knows is so (`Knows`,
`KnowsGroup`). A removal whose assertion holds was therefore checked against the members it changes,
and the own leg replaces the text it was diffed against.

**Picking.** Ids are given out once, and only the newest is accepted. So whatever is on its way under
that id was asked by the editor that is open, for the text it holds; `PickInv` says so of both queues
and of the rows. `NothingTwice` speaks of one editor, but what it shows comes from the form and the rows
and goes back into a form, by position, perhaps into another field of another entry; so `OnceInv` says of
all of them that nothing is in them twice. What is moved is found again by its label, which may name
another row than the one highlighted (`FirstLabel`): the columns stay apart because the rows offered are
filtered by key after every change. Two entries with one stored value (two users of one `uid` in two
containers) would be two equal candidates; the theorem assumes there are none.

**FormPane.** Cells are matched to fields by position, and a form's fields are built from up to three
filtered lists, the profile's, the required and the rest, or the three buckets of a resync. `PaneInv` says
that nothing occurs twice in the result and that the cells stand for those fields, in that order, whenever no
rendering is due; so each cell is read back into its one field (`SyncFacts`), and reading it again changes
nothing (`ReadTwice`). For `DirtyIsEdited` what is shown must also read as what was loaded (`ShownWhole`):
`Typed` says what texts may stand in the directory, the form and the cells, and `Clean` that a field nobody
touched holds what it was loaded with, but for `{n}` prefixes. That is where `Orderly` is needed, because of
the blanks of section 3, and both invariants hold at every state of the run `fields`.

**CreateForm.** A field is the operator's from the moment something is typed that is not empty, not the
placeholder and not what the application itself wrote there last; typing the application's own text back
gives the field back (`LastWritten`). `CreateInv` says that such a field bears neither placeholder nor
latch, that other fields hold what was last written, and that a computed value is its source's. The form of
an entry holds no text of the operator's; a field without a value, which a late number may fill, is never
one of theirs. That
the source of a computed value is not itself computed or secret is an assumption: the code computes a
SID from `uidNumber` or `gidNumber`. `PlaceholdersAreAwaited` is the safety half of `AllocationEnds`: what shows
the placeholder has a scan on its way (no run of its own; TLC found it true of all states of `create`). `AwaitInv` says that pending ids are distinct and each has its request or its
answer in a queue; so an answer settles the field it is for and takes no other field's scan with it, though
answers to a form that was left go on being applied to the one that is open.

**ProfileLoad.** The properties speak of the end, and in between nothing is kept but by what each step did
with what the last one left. `LoadInv` says both halves. Of the sample (`SampleOK`): unless something is known to
be missing, the containers done followed by those still to do are all that hold entries, so marking a
container that failed is what `DetectionNeverStops` rests on. Of the rest (`StepsOK`): `detected`, and at each
phase `profiles`, is the one function of sample and config that `assemble` computes. The properties are then
facts about these functions, and each pass has a relation that says what it may do to one profile: `Given` (a
block is given a profile that fits it and that no other block has), `Trimmed` (`suppress` takes away what it
names of what the config did not set), `Filled` (the assumptions add what is missing).

* `OperatorsChoice`: what a block sets is `own`, which no pass takes away or overwrites; what it suppresses is
  gone after the merge or still pending, and flushed after the assumptions.
* `DetectionsFault`: a program that refuses knows of nothing missing, so it sampled what an undisturbed
  detection samples (`SampledAll`). To the blocks, profiles look alike before and after the patterns
  (`Alike`: names, places and classes are given before the patterns run), so the same ones are in effect, and what
  the config set that points at none of them points at none there either.
* `FreshNumbers`: when a create begins each range is one of the attribute it is for, and one whose numbers a
  companion shares counts users and groups (`InOrder`). The number after a block is none of those the range keeps clear
  of, since the next block is more than a gap away. An entry that is user and group at once is not among
  the groups `range.rs` counts; hence `UsersAreNoGroups`.
* `BlocksMatch`: a block that names a profile gets it in the first pass, before any is given by place; merging
  loses no profile that is not disabled, and sorting the rest loses none and repeats none (`PlacesDiffer`, because
  `Precedes` is a strict total order of names). What pointed at a profile points at its new name if that is the
  only profile of its old name, and `names.rs` does not promise that (section 3).

The recursive functions of this part are reasoned about without an induction theorem. A property is stated as the
set of numbers it holds of: if it holds at the start and each step keeps it, a least number it does not hold of
has one before it that refutes it (`LeastNumber`, `UpTo`). That there is a function with such steps at
all is proved the same way (`Iterated`).

**Navigation.** A find is answered for the container and query it was asked for; while its id is still
the latest the container has not changed, and the query only to the empty one, because moving to
another container and rescanning abandon it and a new query has a new id (`Asked`, `Answers`,
`FindsOK`). The list is made of five parts of the state (`Listed`), and every step either leaves them
alone, marks the list, or rebuilds it (`Moves`).

The tree is not rebuilt whenever something is upserted, only when `Structure::upsert` says that a
container came or went, so the other half of `PanesAreCurrent` needs to know why that is enough. It is
an argument about links: an entry that is known together with its parent is linked under it (`Linked`),
so one that is newly linked was not known before, and its parent was a container before exactly if it
had a child already; the filter by which the tree is made (`TreeOf`) then leaves the same rows (`KeptSame`).
Saves change labels, and the tree shows those of containers; `NavTyped` says that what is highlighted,
opened or asked for is an entry. Two things in the code break the argument: the base is shown whether it
is a container or not, and an entry put back by a late answer may have no parent to be linked
to (section 3). `TreeRooted` says neither is the case: the base is a container and the parent of a known
entry is known. It holds at every state of the run `navigation`, so the run checks `PanesAreCurrent` where
the theorem claims it.

`PlaceIsKept` is a circle of messages: the list asks for the entry highlighted, its answer opens it, what
is opened is revealed, which rebuilds and marks the list, and the marked list highlights what is open. Each
may be overtaken by a click, a find, a rescan or an answer to an older question, so the property, which
speaks of the moment when all is quiet, is far from inductive. `PlaceInv` says who owes what before that.
If a read is outstanding, the last one in the order of queue, worker and pump is of `current_leaf`
(`Awaited`, `Followed`: the argument of `LeafFollows`), and with none the form is, unless a read
failed. Where highlight and open entry disagree one of five things will settle it: the list is marked
(`Moving`), or what it highlights is already right (`Right`), or the pane is about to ask (`Led`,
`AsksToMove`), or a dialog is (`Prompts`, `AsksAboutLeaf`), or a read is outstanding. The proof shows of
each action which of them it uses up and which it leaves behind. TLC checked `PlaceInv` on all states of the run.

**Only model-checked.** Liveness (`UiUnblocks`, `SaveIsAnswered`, `SavesAreAnswered`, `SearchesSettle`,
`NamesSettle`, `FeedbackEnds`, `AllocationEnds`, `SavesEnd`): fairness and ENABLED are out of TLAPS's
reach. `OthersWritesSurvive`, which is refuted. Every other property of the runs is a theorem. The
conditions of the last column are conditions of the theorems only; the runs check the properties on instances that
satisfy them. In `FormPane`,
`OnlyEditsAreWritten` is refuted (section 3), and its two theorems say nothing after a silent rebase.

## 5. Plan

1. **Liveness**: every property of this kind has a safety half, what must still be on its way while the goal is
   not reached. `PlaceholdersAreAwaited`, `Correlation`, `PlaceInv` and `OneThing` are it for four of them;
   for the searches and names of `Picking` and the batches of `MembershipSave` it is not stated.
2. **FormPane**: what remains of `CellsAreTheForm` and `OnlyEditsAreDirty` after a silent rebase.

## 6. Not modelled, and why

About half of the Rust source is tests inside the same files. Of the program itself, the following is
left out.

* Configuration parsing (`config/`), schema lookup (`schema/`) and label templates: static data, pure
  lookups, no state to go wrong between two steps; they appear as constants.
* Of profile detection: labels, name and home templates, login-shell choices, the fields shown and their
  order, the samba pattern, the evidence texts and the `dump` command are data or wording.
* After the rename of a container, the rescan of the structure and the move of the open branch.
* The refusal of a malformed companion or widget binding at the start: it depends on the config alone.
* Drawing, scrolling (`ui/scroll_group.rs`), focus, key bindings, help: layout; no property here is
  about where something is drawn.
* Hashing, SID arithmetic (`uidNumber * 2 + base` can overflow for numbers no directory holds), LDIF
  text, TLS, result-code texts, argument handling and one-shot printing: data or I/O with no protocol.
* `Request::Delete`: the worker has it, the UI never sends it.

Within the modelled modules: requested attribute lists, syntax checks of values other than integers,
secrets staged on an existing entry (only their life across a create is modelled), the audit rows of a
form, failures of the channels themselves (the worker outlives the event loop), and several alerts in
one tick (a tick is one poll). The modules are composed pairwise through the actions they share, not
all at once: each has its own copy of the queues with the requests of its flow.
