------------------------------ MODULE Picking ------------------------------
(***************************************************************************)
(* Choosing the values of a field in a modal editor, while the answers to  *)
(* its searches, the names of the chosen values and the entries asked for  *)
(* before it was opened still arrive: the candidate search                 *)
(* (src/workflows/search_flow.rs), the reverse name resolution             *)
(* (resolve_flow.rs), the editors of src/ui/ (lookup.rs, picker.rs,        *)
(* multi_picker.rs, oc_picker.rs and the two-column shuttle.rs), the       *)
(* selection state of pick_state.rs, and the activation of a field in      *)
(* app.rs with the commit in state.rs.                                     *)
(*                                                                         *)
(* A candidate is the value stored for it; Label says what is shown.  The  *)
(* directory does not change here: what matters is which answer is applied *)
(* to what, and when.                                                      *)
(***************************************************************************)
EXTENDS Lists

CONSTANTS
  Keys,        \* stored values a candidate can have
  NoKey,       \* no value (Option::None)
  Numbers,     \* the keys a lookup accepts: texts with a leading number
  Terms,       \* search texts, none of them a key
  Empty,       \* the empty search text
  Matches,     \* the candidates the server finds for a text
  Label,       \* what a candidate is shown as
  Fields,      \* fields, named apart from their position in a form
  Kind,        \* the editor of each
  Scope,       \* the candidates its binding can find, in the server's order
  Locked,      \* object classes that are structural
  Entries,     \* entries that can be opened
  FieldsOf,    \* the fields of an entry's form, in order
  Stored,      \* the values it holds, by position
  Cap,         \* PICKER_SEARCH_CAP
  MaxAsked,    \* bound: texts typed into editors
  MaxOpened,   \* bound: editors opened
  MaxReads,    \* bound: entries asked for
  MaxFaults,   \* bound: searches the server fails
  MaxQueue     \* bound: requests outstanding when the operator acts

Kinds == {"lookup", "picker", "multi", "oc"}

ASSUME PickingAssumption ==
  /\ IsFiniteSet(Keys) /\ NoKey \notin Keys /\ Numbers \subseteq Keys
  /\ Empty \in Terms /\ Terms \cap Keys = {} /\ NoKey \notin Terms
  /\ Matches \in [Terms \cup Keys -> SUBSET Keys]
  /\ Matches[Empty] = Keys
  /\ DOMAIN Label = Keys
  /\ Kind \in [Fields -> Kinds]
  /\ Scope \in [Fields -> Seq(Keys)]
  /\ Locked \subseteq Keys
  /\ FieldsOf \in [Entries -> Seq(Fields)]
  /\ \A e \in Entries : Stored[e] \in [1..Len(FieldsOf[e]) -> Seq(Keys)]
  /\ Cap \in Nat \ {0}
  /\ {MaxAsked, MaxOpened, MaxReads, MaxFaults, MaxQueue} \subseteq Nat

VARIABLES
  jobs,     \* the worker's request queue, FIFO
  resps,    \* the responses the pump has not polled yet, FIFO
  lastId,   \* SearchFlow::next_id: the last id given to a search
  latest,   \* SearchFlow::latest, 0 for None
  results,  \* UiState::search_results, and (history) the request they answer
  inflight, \* ResolveFlow::inflight: the values being resolved
  cache,    \* UiState::lookup_cache
  form,     \* UiState::edit_form: the entry and its values by position
  staged,   \* UiState::staged_commit
  dialog,   \* the modal editor dispatch is running
  asked, opened, reads, faults

queues   == <<jobs, resps>>
search   == <<lastId, latest, results>>
names    == <<inflight, cache>>
counters == <<asked, opened, reads, faults>>
vars     == <<queues, search, names, form, staged, dialog, counters>>

NoDialog  == [at |-> 0]
NoCommit  == [vals |-> NoKey]
NoRequest == [id |-> 0, field |-> NoKey, term |-> Empty]

Commit(vals) == [vals |-> vals]
IsOpen       == dialog # NoDialog
KeepsUp      == Len(jobs) + Len(resps) <= MaxQueue
FieldAt(i)   == FieldsOf[form.entry][i]
RowKeys(rows) == [i \in DOMAIN rows |-> rows[i].key]
Without(ks, gone) == Kept(ks, Keys \ gone)

Init ==
  /\ jobs = <<>> /\ resps = <<>>
  /\ lastId = 0 /\ latest = 0
  /\ results = [rows |-> <<>>, ask |-> NoRequest]
  /\ inflight = {} /\ cache = [k \in Keys |-> "unknown"]
  /\ \E e \in Entries : form = [entry |-> e, vals |-> Stored[e]]
  /\ staged = NoCommit /\ dialog = NoDialog
  /\ asked = 0 /\ opened = 0 /\ reads = 0 /\ faults = 0
-----------------------------------------------------------------------------
\* SearchFlow and ResolveFlow.

\* The rows the server returns for a text typed into the editor of field f.
Found(f, t) ==
  LET hits == Kept(Scope[f], Matches[t])
  IN  SubSeq(hits, 1, IF Len(hits) < Cap THEN Len(hits) ELSE Cap)

\* submit_search: the newest request is the only one whose answer counts.
Ask(f, t, more) ==
  /\ lastId' = lastId + 1
  /\ latest' = lastId + 1
  /\ jobs' = Append(more, [what |-> "search",
                           ask |-> [id |-> lastId + 1, field |-> f, term |-> t]])
  /\ UNCHANGED results

\* faulty: an answer to an older request replaces the rows too
AcceptsAny(ask) == TRUE

Accepts(ask) == ask.id = latest

\* resolve_member, resolve_lookup: the values not named or being named yet.
Unnamed(ks) == {k \in Keys : k \in ks /\ cache[k] = "unknown" /\ k \notin inflight}

\* One request for each; their order among themselves does not matter.
NameJobs(ks) ==
  LET seq == SetToSeq(ks) IN [i \in DOMAIN seq |-> [what |-> "name", key |-> seq[i]]]

\* The worker answers its oldest request; one that fails is answered too.
\* faulty: a failed search is not answered
ServedSilent(job, ok) ==
  IF ok THEN <<[what |-> job.what, ok |-> TRUE, job |-> job]>> ELSE <<>>

Served(job, ok) == <<[what |-> job.what, ok |-> ok, job |-> job]>>

Work ==
  /\ jobs # <<>>
  /\ \E ok \in BOOLEAN :
       /\ ok \/ (Head(jobs).what # "entry" /\ faults < MaxFaults)
       /\ resps' = resps \o Served(Head(jobs), ok)
       /\ faults' = IF ok THEN faults ELSE faults + 1
  /\ jobs' = Tail(jobs)
  /\ UNCHANGED <<search, names, form, staged, dialog, asked, opened, reads>>
-----------------------------------------------------------------------------
\* The editors.  A row of a list of chosen values is its key and what it shows.

Rows(ks) == [i \in DOMAIN ks |-> [key |-> ks[i], label |-> ks[i]]]

\* A chosen value is shown by name once a search or a resolution named it.
\* (multi_picker.rs sync_results)
Named(sel, rows, c) ==
  [i \in DOMAIN sel |->
     IF sel[i].key \in ToSet(rows) \/ c[sel[i].key] = "name"
     THEN [sel[i] EXCEPT !.label = Label[sel[i].key]] ELSE sel[i]]

\* faulty: what is already chosen is still offered
SyncedUnfiltered(d, rows, c) ==
  [d EXCEPT !.avail = rows, !.sel = Named(d.sel, rows, c)]

\* The editor after REFRESH: it takes over the rows of the shared results.
Synced(d, rows, c) ==
  CASE d.kind \in {"lookup", "picker"} -> [d EXCEPT !.avail = rows]
    [] d.kind = "multi" ->
         [d EXCEPT !.avail = Without(rows, ToSet(RowKeys(d.sel))),
                   !.sel = Named(d.sel, rows, c)]
    [] d.kind = "oc" ->
         [d EXCEPT !.avail = Without(Scope[d.field], ToSet(RowKeys(d.sel)))]

\* What OK would commit.
Staging(d) ==
  CASE d.kind = "lookup" ->
         IF d.text \in Numbers THEN Commit(<<d.text>>) ELSE NoCommit
    [] d.kind = "oc" ->
         Commit(Kept(Scope[d.field], ToSet(RowKeys(d.sel))))
    [] OTHER -> Commit(RowKeys(d.sel))

\* The rows of the single-choice picker (PickState::visible).
Visible(d) ==
  LET sel   == RowKeys(d.sel)
      shown == IF d.text # Empty THEN d.avail \o Without(sel, ToSet(d.avail))
                                 ELSE sel \o Without(d.avail, ToSet(sel))
  IN  shown \o Without(d.saved, ToSet(sel) \cup ToSet(d.avail))

Seeded(i) ==
  LET f   == FieldAt(i)
      ks  == form.vals[i]
      sel == IF Kind[f] = "oc" THEN Kept(Scope[f], ToSet(ks))
                               ELSE ks
      d   == [at |-> i, entry |-> form.entry, field |-> f, kind |-> Kind[f],
              text |-> IF Kind[f] = "lookup" /\ ks # <<>> THEN ks[1] ELSE Empty,
              avail |-> <<>>, sel |-> Rows(sel), saved |-> ks, answered |-> FALSE]
  IN  Synced(d, results.rows, cache)

\* ACTIVATE: the editor shows what the last search of any editor found, and
\* asks for its own candidates.
Activate(i) ==
  LET d == Seeded(i)
      members == IF d.kind = "multi" THEN Unnamed(ToSet(form.vals[i])) ELSE {}
  IN  /\ ~IsOpen /\ opened < MaxOpened /\ KeepsUp
      /\ opened' = opened + 1
      /\ dialog' = d
      /\ staged' = Staging(d)
      /\ IF d.kind = "oc" THEN UNCHANGED <<jobs, search>>
                          ELSE Ask(d.field, Empty, jobs \o NameJobs(members))
      /\ inflight' = inflight \cup members
      /\ UNCHANGED <<resps, cache, form, asked, reads, faults>>

\* A changed text asks the server; in a lookup it is also the value.
Type(t) ==
  LET d == [dialog EXCEPT !.text = t]
  IN  /\ IsOpen /\ asked < MaxAsked /\ KeepsUp
      /\ dialog.kind \in {"lookup", "picker", "multi"}
      /\ t # dialog.text
      /\ t \in Numbers => dialog.kind = "lookup"
      /\ asked' = asked + 1
      /\ dialog' = d
      /\ staged' = IF d.kind = "lookup" THEN Staging(d) ELSE staged
      /\ Ask(d.field, t, jobs)
      /\ UNCHANGED <<resps, names, form, opened, reads, faults>>

Edited(d) ==
  /\ dialog' = d
  /\ staged' = Staging(d)
  /\ UNCHANGED <<queues, search, names, form, counters>>

\* lookup.rs mirror_focused: the row under the highlight becomes the text.
MirrorFocused ==
  /\ IsOpen /\ dialog.kind = "lookup"
  /\ \E k \in ToSet(dialog.avail) \cap Numbers : Edited([dialog EXCEPT !.text = k])

\* picker.rs pick_at: the row picked replaces the choice.
PickAt ==
  /\ IsOpen /\ dialog.kind = "picker"
  /\ \E k \in ToSet(Visible(dialog)) :
       Edited([dialog EXCEPT !.sel = Rows(<<k>>)])

\* Where a column's highlighted row is found again: by what it shows.
ByLabel(labels, i) == CHOOSE j \in DOMAIN labels :
                        labels[j] = labels[i] /\ \A l \in 1..(j - 1) : labels[l] # labels[i]

\* shuttle.rs move_in_highlighted, and the owner's answer to the change.
MoveIn ==
  /\ IsOpen /\ dialog.kind \in {"multi", "oc"}
  /\ \E i \in DOMAIN dialog.avail :
       LET shown == [j \in DOMAIN dialog.avail |-> Label[dialog.avail[j]]]
           k     == dialog.avail[ByLabel(shown, i)]
       IN  /\ k \notin ToSet(RowKeys(dialog.sel))
           /\ Edited(Synced([dialog EXCEPT !.sel = Append(@, [key |-> k, label |-> Label[k]])],
                            results.rows, cache))

\* An object class that is structural and was on the entry stays.
IsLocked(d, k) == d.kind = "oc" /\ k \in Locked /\ k \in ToSet(d.saved)

\* shuttle.rs move_out_highlighted.
MoveOut ==
  /\ IsOpen /\ dialog.kind \in {"multi", "oc"}
  /\ \E i \in DOMAIN dialog.sel :
       LET shown == [j \in DOMAIN dialog.sel |-> dialog.sel[j].label]
           j     == ByLabel(shown, i)
       IN  /\ ~IsLocked(dialog, dialog.sel[j].key)
           /\ Edited(Synced([dialog EXCEPT !.sel = RemoveAt(@, j)],
                            results.rows, cache))

\* The editor closes.  apply_commit writes by position into whatever form is
\* open by then.
Ok ==
  /\ IsOpen
  /\ dialog.kind = "lookup" => staged # NoCommit
  /\ dialog' = NoDialog /\ staged' = NoCommit
  /\ form' = IF staged # NoCommit /\ dialog.at \in DOMAIN form.vals
             THEN [form EXCEPT !.vals[dialog.at] = staged.vals] ELSE form
  /\ UNCHANGED <<queues, search, names, counters>>

Cancel ==
  /\ IsOpen
  /\ dialog' = NoDialog /\ staged' = NoCommit
  /\ UNCHANGED <<queues, search, names, form, counters>>
-----------------------------------------------------------------------------
\* The form around the editors.

\* The form pane names the values of its lookup fields when it renders.
Unresolved ==
  LET n == Len(form.vals)
  IN  Unnamed({form.vals[i][1] : i \in {j \in 1..n :
               Kind[FieldAt(j)] = "lookup" /\ form.vals[j] # <<>>}})

ToRender == ~IsOpen /\ Unresolved # {}

Render ==
  /\ ToRender
  /\ jobs' = jobs \o NameJobs(Unresolved)
  /\ inflight' = inflight \cup Unresolved
  /\ UNCHANGED <<resps, search, cache, form, staged, dialog, counters>>

\* The operator moves to an entry; the form that is open is clean.
RequestLeaf(e) ==
  /\ ~IsOpen /\ reads < MaxReads /\ KeepsUp
  /\ form.vals = Stored[form.entry]
  /\ reads' = reads + 1
  /\ jobs' = Append(jobs, [what |-> "entry", entry |-> e])
  /\ UNCHANGED <<resps, search, names, form, staged, dialog, asked, opened, faults>>

\* The reload drops the names once the requests before it are answered.
Reload ==
  /\ ~IsOpen /\ jobs = <<>>
  /\ cache' = [k \in Keys |-> "unknown"]
  /\ UNCHANGED <<queues, search, inflight, form, staged, dialog, counters>>
-----------------------------------------------------------------------------
\* The pump: one response, then REFRESH if it changed anything.

Refreshed(d, rows, c) == IF d = NoDialog THEN d ELSE Synced(d, rows, c)

PumpSearch(r) ==
  /\ r.what = "search"
  /\ IF Accepts(r.job.ask)
     THEN LET rows == IF r.ok THEN Found(r.job.ask.field, r.job.ask.term) ELSE <<>>
              d    == Refreshed(dialog, rows, cache)
          IN  /\ results' = [rows |-> rows, ask |-> r.job.ask]
              /\ dialog' = IF IsOpen THEN [d EXCEPT !.answered = TRUE] ELSE d
     ELSE UNCHANGED <<results, dialog>>
  /\ UNCHANGED <<lastId, latest, names, form, staged>>

\* faulty: only a name found ends the resolution
StillPending(r) == IF r.ok THEN inflight \ {r.job.key} ELSE inflight

Pending(r) == inflight \ {r.job.key}

PumpName(r) ==
  /\ r.what = "name"
  /\ inflight' = Pending(r)
  /\ cache' = [cache EXCEPT ![r.job.key] = IF r.ok THEN "name" ELSE "none"]
  /\ dialog' = Refreshed(dialog, results.rows, cache')
  /\ UNCHANGED <<search, form, staged>>

PumpEntry(r) ==
  /\ r.what = "entry"
  /\ form' = [entry |-> r.job.entry, vals |-> Stored[r.job.entry]]
  /\ dialog' = Refreshed(dialog, results.rows, cache)
  /\ UNCHANGED <<search, names, staged>>

Pump ==
  /\ resps # <<>>
  /\ LET r == Head(resps) IN PumpSearch(r) \/ PumpName(r) \/ PumpEntry(r)
  /\ resps' = Tail(resps)
  /\ UNCHANGED <<jobs, counters>>

Edit == MirrorFocused \/ PickAt \/ MoveIn \/ MoveOut

Next ==
  \/ \E i \in DOMAIN form.vals : Activate(i)
  \/ \E t \in Terms \cup Numbers : Type(t)
  \/ Edit \/ Ok \/ Cancel
  \/ Render
  \/ \E e \in Entries : RequestLeaf(e)
  \/ Reload
  \/ Work \/ Pump

Spec == Init /\ [][Next]_vars

\* The worker thread and the pump run by themselves, and the form pane renders
\* on every pass of the event loop; the operator may stop at any time.  An answer
\* can always be polled, and names to render are always asked for: the last two are
\* WF_vars(Pump) and WF_vars(Render), stated with what enables the actions, which
\* spares TLC from computing what they do to see whether they can.
FairPump   == <>[](resps # <<>>) => []<><<Pump>>_vars
FairRender == <>[]ToRender => []<><<Render>>_vars

FairSpec == Spec /\ WF_vars(Work) /\ FairPump /\ FairRender
-----------------------------------------------------------------------------
TypeOK ==
  /\ lastId \in Nat /\ latest \in 0..lastId
  /\ ToSet(results.rows) \subseteq Keys
  /\ inflight \subseteq Keys
  /\ cache \in [Keys -> {"unknown", "name", "none"}]
  /\ form.entry \in Entries
  /\ form.vals \in [1..Len(FieldsOf[form.entry]) -> Seq(Keys)]
  /\ IsOpen => dialog.kind = Kind[dialog.field]

\* Once an editor has heard from the server, the rows it offers were found for
\* its own field: an answer to the editor closed before it, landing late, never
\* brings that field's candidates into this one (SearchFlow::on_response).
OwnAnswers ==
  IsOpen /\ dialog.kind # "oc" /\ dialog.answered => results.ask.field = dialog.field

\* When no answer to the last text typed is on its way, the rows are the answer
\* to that text, whatever was typed before it and however the answers and the
\* failures fell.
SettledOnLastText ==
  LET onItsWay == \/ \E i \in DOMAIN jobs : jobs[i].what = "search" /\ jobs[i].ask.id = latest
                  \/ \E i \in DOMAIN resps : resps[i].what = "search" /\ resps[i].job.ask.id = latest
  IN  ~onItsWay => results.ask.id = latest

\* A value is in one column only and in it once, through searches, names that
\* arrive and moves (a second copy would be written to the entry).
NothingTwice ==
  IsOpen /\ dialog.kind \in {"multi", "oc"} => IsInjective(RowKeys(dialog.sel) \o dialog.avail)

\* Every search is answered in the rows or overtaken by a newer one, also when
\* the server fails it.
SearchesSettle ==
  \A n \in 1..(MaxAsked + MaxOpened) :
    (latest = n) ~> (latest # n \/ results.ask.id = n)

\* A value being named ends up named or known to have no name: a failed
\* resolution does not keep it pending, which would block every later attempt.
NamesSettle == \A k \in Keys : (k \in inflight) ~> (k \notin inflight)

=============================================================================
