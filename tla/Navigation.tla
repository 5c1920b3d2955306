----------------------------- MODULE Navigation -----------------------------
(***************************************************************************)
(* Moving about the directory: the tree of containers, the entry list with *)
(* its incremental find, and the entry form that follows the highlight.    *)
(* The cached structure is src/workflows/structure.rs, the rows labels.rs, *)
(* the find leaf_search.rs; the decisions are in src/ui/state.rs, the      *)
(* panes that draw and report in panes/leaf.rs and panes/tree.rs, the      *)
(* dialogs in app.rs, and the timer tick in pump.rs.                       *)
(*                                                                         *)
(* Other clients add, change and delete entries meanwhile.  What an entry  *)
(* is labelled with is its version: 0 when it does not exist, 1 or 2.      *)
(***************************************************************************)
EXTENDS Lists

CONSTANTS
  DNs,         \* distinguished names
  NoDN,        \* Option::None
  Base,        \* UiState::base_dn
  Parent,      \* the parent of each other DN
  Container,   \* the entries whose objectClass makes them containers
  Order,       \* the order of the scan and of the labels
  Terms,       \* find queries
  Empty,       \* the empty query
  Matches,     \* the entries, by version, whose label contains a query
  Initial,     \* what the directory holds at first
  Others,      \* the entries other clients add, change and delete
  MaxMoves,    \* bound: highlights moved, in the list or the tree
  MaxFinds,    \* bound: queries typed
  MaxEdits,    \* bound: edits
  MaxReloads,  \* bound: rescans
  MaxChanges,  \* bound: changes by other clients
  MaxFaults,   \* bound: requests the server fails
  MaxQueue     \* bound: requests outstanding when the operator or others act

Versions == 0..2

ASSUME NavigationAssumption ==
  /\ NoDN \notin DNs /\ Base \in DNs /\ Container \subseteq DNs
  /\ Parent \in [DNs \ {Base} -> DNs] /\ \A d \in DNs \ {Base} : Parent[d] # d
  /\ Order \in Seq(DNs) /\ IsInjective(Order) /\ ToSet(Order) = DNs
  /\ Empty \in Terms
  /\ Matches \in [Terms -> SUBSET (DNs \X Versions)]
  /\ Initial \in [DNs -> Versions] /\ Initial[Base] # 0
  /\ \A d \in DNs \ {Base} : Initial[d] # 0 => Initial[Parent[d]] # 0
  /\ Others \subseteq DNs \ {Base}
  /\ {MaxMoves, MaxFinds, MaxEdits, MaxReloads, MaxChanges, MaxFaults, MaxQueue} \subseteq Nat

VARIABLES
  dir,     \* the directory: the version of each entry
  jobs,    \* the worker's request queue, FIFO
  resps,   \* the responses the pump has not polled yet, FIFO
  ui,      \* UiState and what the two panes hold
  posted,  \* GUARD_NAV is posted and not yet dispatched
  dialog,  \* the modal dispatch is running
  missed,  \* history: the entries the last read of which failed
  moves, finds, edits, reloads, changes, faults

counters == <<moves, finds, edits, reloads, changes, faults>>
vars     == <<dir, jobs, resps, ui, posted, dialog, missed, counters>>

NoForm   == [entry |-> NoDN, dirty |-> FALSE]
NoHits   == [dns |-> {}, branch |-> NoDN, term |-> Empty]
NoTarget == [kind |-> "none", dn |-> NoDN]
NoDialog == [kind |-> "none"]

Target(kind, dn) == [kind |-> kind, dn |-> dn]
KeepsUp          == Len(jobs) + Len(resps) <= MaxQueue
Idle             == dialog = NoDialog /\ ~posted
IndexOf(seq, x)  == CHOOSE i \in DOMAIN seq : seq[i] = x
Dirty(s)         == s.form.dirty
-----------------------------------------------------------------------------
\* The structure (structure.rs): the version known of each entry, 0 when it is
\* not known, and the children linked under it, in the order they were met.

ChildrenIn(known) ==
  [b \in DNs |-> Kept(Order, {d \in DNs \ {Base} : /\ Parent[d] = b
                                                   /\ known[b] # 0 /\ known[d] # 0})]

IsContainer(s, d) == s.kids[d] # <<>> \/ d \in Container

\* One entry read from the server is put into the structure; the tree is
\* rebuilt when that changes a container, or makes its parent one.
\* faulty: a parent that became a container is overlooked
UpsertHidden(s, d, v) ==
  LET known  == s.ver[d] # 0
      linked == d # Base /\ s.ver[Parent[d]] # 0
      kids   == IF linked /\ d \notin ToSet(s.kids[Parent[d]])
                THEN [s.kids EXCEPT ![Parent[d]] = Append(@, d)] ELSE s.kids
  IN  [s EXCEPT !.ver[d] = v, !.kids = kids, !.listDirty = TRUE,
                !.treeDirty = @ \/ (IsContainer(s, d) /\ s.ver[d] # v)]

Upsert(s, d, v) ==
  LET linked == d # Base /\ s.ver[Parent[d]] # 0
      kids   == IF linked /\ d \notin ToSet(s.kids[Parent[d]])
                THEN [s.kids EXCEPT ![Parent[d]] = Append(@, d)] ELSE s.kids
      grown  == linked /\ s.kids[Parent[d]] = <<>> /\ kids[Parent[d]] # <<>>
  IN  [s EXCEPT !.ver[d] = v, !.kids = kids, !.listDirty = TRUE,
                !.treeDirty = @ \/ grown \/ (IsContainer(s, d) /\ s.ver[d] # v)]

\* A row shows an entry: its label, and whether it is marked as a container.
Row(s, d) == [dn |-> d, ver |-> s.ver[d], marked |-> IsContainer(s, d)]

\* The rows of the entry list (compute_rows, compute_rows_for_dns), of what
\* they are made from.
Listed(s) == [branch |-> s.branch, query |-> s.query, hits |-> s.hits,
              ver |-> s.ver, kids |-> s.kids]

RowsOf(l) ==
  LET shown == {d \in DNs : l.query = Empty \/ <<d, l.ver[d]>> \in Matches[l.query]}
      known == {d \in DNs : l.ver[d] # 0}
      self  == IF l.branch \in shown \cap known THEN <<l.branch>> ELSE <<>>
      below == IF l.query # Empty /\ l.hits # NoHits
               THEN Kept(Order, l.hits.dns \cap known)
               ELSE Kept(l.kids[l.branch], shown)
      rows  == self \o below
  IN  [i \in DOMAIN rows |-> Row(l, rows[i])]

LeafRows(s) == RowsOf(Listed(s))

\* The rows of the tree, in pre-order (build_branch_nodes), of what they are
\* made from: the containers, how they are labelled and what is under them.
Containers(s) == {d \in DNs : d = Base \/ IsContainer(s, d)}

Branches(s) ==
  [ver  |-> [d \in Containers(s) |-> s.ver[d]],
   subs |-> [d \in DNs |-> Kept(s.kids[d], {k \in DNs : IsContainer(s, k)})]]

TreeOf(b) ==
  LET below[d \in DNs] ==
        <<[dn |-> d, ver |-> b.ver[d]]>> \o
        LET subs == b.subs[d] IN FlattenSeq([i \in DOMAIN subs |-> below[subs[i]]])
  IN  below[Base]

TreeRows(s) == TreeOf(Branches(s))

RowDns(rows) == [i \in DOMAIN rows |-> rows[i].dn]
-----------------------------------------------------------------------------
\* The controller's steps, each from one UiState to the next; .sent is what
\* it hands to the worker.

Reread(s, d) ==
  [s EXCEPT !.leaf = d, !.sent = Append(@, [what |-> "read", dn |-> d])]

\* faulty: the find under way is not abandoned
CommitBranchOnly(s, d) ==
  [s EXCEPT !.branch = d, !.listDirty = TRUE, !.query = Empty, !.hits = NoHits]

CommitBranch(s, d) ==
  [s EXCEPT !.branch = d, !.listDirty = TRUE,
            !.query = Empty, !.hits = NoHits, !.latest = 0]

FindJob(s, t) == [what |-> "find", id |-> s.lastId + 1, branch |-> s.branch, term |-> t]

\* faulty: what is recorded as the latest find is the one before
SetLeafSearchLate(s, t) ==
  LET q == [s EXCEPT !.query = t, !.listDirty = TRUE]
  IN  IF t = Empty THEN [q EXCEPT !.hits = NoHits]
      ELSE [q EXCEPT !.lastId = @ + 1, !.latest = s.lastId,
                     !.sent = Append(@, FindJob(s, t))]

SetLeafSearch(s, t) ==
  LET q == [s EXCEPT !.query = t, !.listDirty = TRUE]
  IN  IF t = Empty THEN [q EXCEPT !.hits = NoHits]
      ELSE [q EXCEPT !.lastId = @ + 1, !.latest = s.lastId + 1,
                     !.sent = Append(@, FindJob(s, t))]

\* The selection the pane asked for.  Unsaved edits are asked about first.
ReconcileSelection(s) ==
  LET c == [s EXCEPT !.wantLeaf = NoDN]
  IN  CASE s.wantLeaf \in {NoDN, s.leaf} -> c
        [] OTHER -> IF Dirty(s)
                    THEN [c EXCEPT !.guard = Target("leaf", s.wantLeaf), !.post = TRUE]
                    ELSE Reread(c, s.wantLeaf)

ReconcileBranch(s) ==
  LET c == [s EXCEPT !.wantBranch = NoDN]
  IN  CASE s.wantBranch \in {NoDN, s.branch} -> c
        [] OTHER -> IF Dirty(s)
                    THEN [c EXCEPT !.guard = Target("branch", s.wantBranch), !.post = TRUE]
                    ELSE CommitBranch(c, s.wantBranch)

NoteEntryVanished(s) ==
  IF Dirty(s) THEN [s EXCEPT !.guard = Target("vanished", s.leaf), !.listDirty = TRUE]
  ELSE [s EXCEPT !.form = NoForm, !.leaf = NoDN, !.listDirty = TRUE]

\* The scan of the whole tree, taken as one reading.
LoadStructure == dir

AdoptStructure(s, known) ==
  LET n == [s EXCEPT !.ver = known, !.kids = ChildrenIn(known)]
      b == IF known[s.branch] = 0 THEN [n EXCEPT !.branch = Base] ELSE n
      f == IF s.leaf # NoDN /\ known[s.leaf] = 0 THEN NoteEntryVanished(b) ELSE b
  IN  [f EXCEPT !.query = Empty, !.hits = NoHits, !.latest = 0,
                !.listDirty = TRUE, !.treeDirty = TRUE]

\* Where the highlight of the entry list belongs, and whether the form is to
\* follow it there: only when no unsaved edit is at stake.
LeafHighlightPlan(s) ==
  LET dns   == RowDns(LeafRows(s))
      other == Kept(dns, DNs \ {s.branch})
  IN  CASE s.leaf # NoDN /\ s.leaf \in ToSet(dns) -> [move |-> "pin", dn |-> s.leaf]
        [] OTHER ->
             IF other = <<>> THEN [move |-> "clear", dn |-> NoDN]
             ELSE [move |-> IF Dirty(s) \/ (s.leaf = NoDN /\ s.form # NoForm)
                            THEN "pin" ELSE "follow", dn |-> other[1]]
-----------------------------------------------------------------------------
\* The panes.

\* LeafPane::repopulate: the list shows the rows there are now; what it does
\* to its highlight is not reported as a move of the operator.
Repopulate(s) ==
  LET rows == LeafRows(s)
      plan == LeafHighlightPlan(s)
      at   == IF rows = <<>> THEN 0
              ELSE IF plan.dn \in ToSet(RowDns(rows)) THEN IndexOf(RowDns(rows), plan.dn) ELSE 1
  IN  [s EXCEPT !.list = [rows |-> rows, row |-> at], !.listDirty = FALSE,
                !.wantLeaf = IF plan.move = "follow" THEN plan.dn ELSE @]

\* The tree's highlight goes to the branch; it never moves the form.
BranchHighlightPlan(s) ==
  IF s.branch \in ToSet(RowDns(TreeRows(s))) THEN [move |-> "pin", dn |-> s.branch]
                                             ELSE [move |-> "clear", dn |-> NoDN]

\* TreePane::rebuild and apply_highlight_plan.
RebuildTree(s) ==
  LET rows == TreeRows(s)
      plan == BranchHighlightPlan(s)
      last == IF s.tree.row > Len(rows) THEN Len(rows) ELSE s.tree.row
  IN  [s EXCEPT !.tree = [rows |-> rows,
                          row  |-> IF plan.move = "pin" THEN IndexOf(RowDns(rows), plan.dn)
                                   ELSE last],
                !.treeDirty = FALSE]

\* REFRESH, broadcast by the pump to both panes.
RefreshTree(s) == IF s.treeDirty THEN RebuildTree(s) ELSE s
RefreshList(s) == IF s.listDirty THEN Repopulate(s) ELSE s

\* A handler ends: what it sent joins the queue, what it posted waits.
Step(s) ==
  /\ ui' = [s EXCEPT !.sent = <<>>, !.post = FALSE]
  /\ jobs' = jobs \o s.sent
  /\ posted' = (posted \/ s.post)

Init ==
  /\ dir = Initial
  /\ jobs = <<>> /\ resps = <<>> /\ posted = FALSE /\ dialog = NoDialog /\ missed = {}
  /\ ui = LET s == [ver |-> Initial, kids |-> ChildrenIn(Initial), branch |-> Base,
                    leaf |-> NoDN, form |-> NoForm, query |-> Empty, hits |-> NoHits,
                    lastId |-> 0, latest |-> 0, wantLeaf |-> NoDN, wantBranch |-> NoDN,
                    guard |-> NoTarget, nav |-> NoDN, listDirty |-> TRUE,
                    treeDirty |-> TRUE, list |-> [rows |-> <<>>, row |-> 0],
                    tree |-> [rows |-> <<>>, row |-> 1], sent |-> <<>>, post |-> FALSE]
          IN  RefreshList(RefreshTree(s))
  /\ moves = 0 /\ finds = 0 /\ edits = 0 /\ reloads = 0 /\ changes = 0 /\ faults = 0
-----------------------------------------------------------------------------
\* The operator, who acts when no dialog is open or about to be: a posted
\* command is dispatched before the next key is read.

\* The highlight of the list moves to row i of what the list shows; the entry
\* asked for is the one at that place in the rows there are now
\* (report_selection).  One pane is moved between two ticks, 50 ms apart.
MoveRow(i) ==
  /\ Idle /\ KeepsUp /\ moves < MaxMoves /\ ui.wantBranch = NoDN
  /\ i \in DOMAIN ui.list.rows /\ i # ui.list.row
  /\ moves' = moves + 1
  /\ LET rows == LeafRows(ui)
     IN  ui' = [ui EXCEPT !.list.row = i,
                          !.wantLeaf = IF i \in DOMAIN rows THEN rows[i].dn ELSE @]
  /\ UNCHANGED <<dir, jobs, resps, posted, dialog, missed, finds, edits, reloads, changes, faults>>

MoveBranch(i) ==
  /\ Idle /\ KeepsUp /\ moves < MaxMoves /\ ui.wantLeaf = NoDN
  /\ i \in DOMAIN ui.tree.rows /\ i # ui.tree.row
  /\ moves' = moves + 1
  /\ \E d \in DNs : /\ d = ui.tree.rows[i].dn
                   /\ ui' = [ui EXCEPT !.tree.row = i, !.wantBranch = d]
  /\ UNCHANGED <<dir, jobs, resps, posted, dialog, missed, finds, edits, reloads, changes, faults>>

TypeFind(t) ==
  /\ Idle /\ KeepsUp /\ finds < MaxFinds /\ t # ui.query
  /\ finds' = finds + 1
  /\ Step(Repopulate(SetLeafSearch(ui, t)))
  /\ UNCHANGED <<dir, resps, dialog, missed, moves, edits, reloads, changes, faults>>

EditForm ==
  /\ Idle /\ edits < MaxEdits /\ ui.form # NoForm
  /\ edits' = edits + 1
  /\ ui' = [ui EXCEPT !.form.dirty = TRUE]
  /\ UNCHANGED <<dir, jobs, resps, posted, dialog, missed, moves, finds, reloads, changes, faults>>

\* The rescan waits for the requests before it; an entry found to be gone with
\* unsaved edits on it is asked about.
Reload ==
  /\ Idle /\ reloads < MaxReloads /\ jobs = <<>>
  /\ reloads' = reloads + 1
  /\ ui' = AdoptStructure(ui, LoadStructure)
  /\ dialog' = IF ui'.guard.kind = "vanished" THEN [kind |-> "vanished", target |-> ui'.guard]
               ELSE NoDialog
  /\ UNCHANGED <<dir, jobs, resps, posted, missed, moves, finds, edits, changes, faults>>

\* GUARD_NAV is dispatched.
RunGuard ==
  /\ dialog = NoDialog /\ posted
  /\ posted' = FALSE
  /\ dialog' = [kind |-> "guard", target |-> ui.guard]
  /\ UNCHANGED <<dir, jobs, resps, ui, missed, counters>>

Decided(s) ==
  /\ dialog' = NoDialog
  /\ Step([s EXCEPT !.guard = NoTarget])
  /\ UNCHANGED <<dir, resps, missed, counters>>

\* The save is handed to the worker; what becomes of it, EntrySave says.
GuardSave ==
  /\ dialog.kind = "guard" /\ Dirty(ui)
  /\ LET to == dialog.target
         s  == [ui EXCEPT !.nav = IF to.kind = "leaf" THEN to.dn ELSE NoDN,
                          !.sent = Append(@, [what |-> "save", dn |-> ui.form.entry])]
     IN  Decided(IF to.kind = "branch" THEN CommitBranch(s, to.dn) ELSE s)

\* The save had nothing to write, was not valid, or its preview was cancelled.
GuardSaveCancelled ==
  /\ dialog.kind = "guard"
  /\ Decided(IF dialog.target.kind = "branch" THEN [ui EXCEPT !.treeDirty = TRUE]
             ELSE [ui EXCEPT !.listDirty = TRUE, !.nav = NoDN])

GuardDiscard ==
  /\ dialog.kind = "guard"
  /\ LET s  == [ui EXCEPT !.form.dirty = FALSE]
         to == dialog.target
     IN  Decided(CASE to.kind = "leaf" -> Reread(s, to.dn)
                   [] to.kind = "branch" -> CommitBranch(s, to.dn)
                   [] OTHER -> s)

\* faulty: the list is not told to put its highlight back
GuardStaySilent ==
  /\ dialog.kind = "guard"
  /\ Decided(IF dialog.target.kind = "branch" THEN [ui EXCEPT !.treeDirty = TRUE] ELSE ui)

GuardStay ==
  /\ dialog.kind = "guard"
  /\ Decided(IF dialog.target.kind = "branch" THEN [ui EXCEPT !.treeDirty = TRUE]
             ELSE [ui EXCEPT !.listDirty = TRUE])

VanishedKeep ==
  /\ dialog.kind = "vanished"
  /\ Decided(ui)

VanishedDiscard ==
  /\ dialog.kind = "vanished"
  /\ Decided([ui EXCEPT !.form = NoForm, !.leaf = NoDN, !.listDirty = TRUE])

VanishedRecreate ==
  /\ dialog.kind = "vanished"
  /\ Decided([ui EXCEPT !.sent = Append(@, [what |-> "create", dn |-> dialog.target.dn])])
-----------------------------------------------------------------------------
\* The worker and the directory.

Below(b) == {d \in DNs \ {Base} : Parent[d] = b /\ dir[d] # 0}

Changed(v) == 3 - v

Answer(r) == jobs' = Tail(jobs) /\ resps' = Append(resps, r)

WorkRead(j) ==
  /\ j.what = "read"
  /\ Answer([what |-> "read", ok |-> dir[j.dn] # 0, dn |-> j.dn, ver |-> dir[j.dn]])
  /\ UNCHANGED <<dir, faults>>

WorkFind(j) ==
  /\ j.what = "find"
  /\ \E ok \in BOOLEAN :
       /\ ok \/ faults < MaxFaults
       /\ faults' = IF ok THEN faults ELSE faults + 1
       /\ Answer([what |-> "find", ok |-> ok /\ dir[j.branch] # 0, id |-> j.id,
                  ask |-> j,
                  hits |-> {d \in Below(j.branch) : <<d, dir[d]>> \in Matches[j.term]},
                  vers |-> dir])
  /\ UNCHANGED dir

WorkSave(j) ==
  /\ j.what = "save"
  /\ \E ok \in BOOLEAN :
       /\ IF ok THEN dir[j.dn] # 0 ELSE dir[j.dn] = 0 \/ faults < MaxFaults
       /\ faults' = IF ok \/ dir[j.dn] = 0 THEN faults ELSE faults + 1
       /\ dir' = IF ok THEN [dir EXCEPT ![j.dn] = Changed(@)] ELSE dir
       /\ Answer([what |-> "save", ok |-> ok, dn |-> j.dn])

WorkCreate(j) ==
  /\ j.what = "create"
  /\ LET ok == dir[j.dn] = 0 /\ dir[Parent[j.dn]] # 0
     IN  /\ dir' = IF ok THEN [dir EXCEPT ![j.dn] = 1] ELSE dir
         /\ Answer([what |-> "create", ok |-> ok, dn |-> j.dn])
  /\ UNCHANGED faults

Work ==
  /\ jobs # <<>>
  /\ LET j == Head(jobs) IN WorkRead(j) \/ WorkFind(j) \/ WorkSave(j) \/ WorkCreate(j)
  /\ UNCHANGED <<ui, posted, dialog, missed, moves, finds, edits, reloads, changes>>

\* Another client adds, changes or deletes an entry.
OthersChange(d) ==
  /\ KeepsUp /\ changes < MaxChanges
  /\ dir[Parent[d]] # 0
  /\ changes' = changes + 1
  /\ \E v \in Versions \ {dir[d]} :
       /\ v = 0 => Below(d) = {}
       /\ dir' = [dir EXCEPT ![d] = v]
  /\ UNCHANGED <<jobs, resps, ui, posted, dialog, missed, moves, finds, edits, reloads, faults>>
-----------------------------------------------------------------------------
\* The pump.

\* faulty: an entry that cannot be read is asked for again
OnReadRetry(s, r) ==
  IF r.ok THEN [Upsert(s, r.dn, r.ver) EXCEPT !.form = [entry |-> r.dn, dirty |-> FALSE]]
  ELSE Reread(s, r.dn)

OnRead(s, r) ==
  IF r.ok THEN [Upsert(s, r.dn, r.ver) EXCEPT !.form = [entry |-> r.dn, dirty |-> FALSE]]
  ELSE s

AcceptsFind(s, id) == id = s.latest

\* Every hit is put into the structure, in the order of the answer; all are
\* entries of the container the find was asked of.
UpsertHits(s, r) ==
  LET b   == r.ask.branch
      new == IF s.ver[b] = 0 THEN <<>> ELSE Kept(Order, r.hits \ ToSet(s.kids[b]))
  IN  [s EXCEPT !.ver = [d \in DNs |-> IF d \in r.hits THEN r.vers[d] ELSE @[d]],
                !.kids[b] = @ \o new,
                !.treeDirty = \/ s.treeDirty
                              \/ s.kids[b] = <<>> /\ new # <<>>
                              \/ \E d \in r.hits : IsContainer(s, d) /\ s.ver[d] # r.vers[d]]

OnFind(s, r) ==
  CASE ~AcceptsFind(s, r.id) -> s
    [] OTHER ->
         IF r.ok
         THEN [UpsertHits(s, r) EXCEPT
                 !.hits = [dns |-> r.hits, branch |-> r.ask.branch, term |-> r.ask.term],
                 !.listDirty = TRUE]
         ELSE [s EXCEPT !.hits = NoHits, !.listDirty = TRUE]

OnSaved(s, r) ==
  IF r.ok THEN Reread([s EXCEPT !.nav = NoDN], IF s.nav # NoDN THEN s.nav ELSE r.dn) ELSE s

OnCreated(s, r) ==
  IF r.ok THEN Reread([s EXCEPT !.form = NoForm], r.dn) ELSE s

Polled(s, r) ==
  CASE r.what = "read"   -> OnRead(s, r)
    [] r.what = "find"   -> OnFind(s, r)
    [] r.what = "save"   -> OnSaved(s, r)
    [] r.what = "create" -> OnCreated(s, r)

\* A tick: a response if there is one, then the selections, then REFRESH;
\* a tick with nothing to do does nothing.
Due == resps # <<>> \/ ui.listDirty \/ ui.treeDirty \/ {ui.wantLeaf, ui.wantBranch} # {NoDN}

Tick ==
  /\ Due
  /\ \E polled \in {IF resps = <<>> THEN ui ELSE Polled(ui, Head(resps))} :
       \E selected \in {ReconcileSelection(polled)} :
       \E branched \in {ReconcileBranch(selected)} :
       \E rebuilt \in {RefreshTree(branched)} :
       \E listed \in {RefreshList(rebuilt)} : Step(listed)
  /\ resps' = IF resps = <<>> THEN <<>> ELSE Tail(resps)
  /\ missed' = IF resps # <<>> /\ Head(resps).what = "read"
               THEN IF Head(resps).ok THEN missed \ {Head(resps).dn}
                    ELSE missed \cup {Head(resps).dn}
               ELSE missed
  /\ UNCHANGED <<dir, dialog, counters>>

Decide == \/ GuardSave \/ GuardSaveCancelled \/ GuardDiscard \/ GuardStay
          \/ VanishedKeep \/ VanishedDiscard \/ VanishedRecreate

Next ==
  \/ \E i \in 1..(Len(Order) + 1) : MoveRow(i) \/ MoveBranch(i)
  \/ \E t \in Terms : TypeFind(t)
  \/ EditForm \/ Reload \/ RunGuard \/ Decide
  \/ Work \/ Tick
  \/ \E d \in Others : OthersChange(d)

Spec == Init /\ [][Next]_vars

\* The worker thread serves, the timer fires and a posted command is
\* dispatched, whatever the operator does; nobody else has to act.  For the tick
\* this is WF_vars(Tick), which changes something whenever it is due; stated
\* with Due, it spares TLC from computing a tick to see whether there is one.
FairTick == <>[]Due => []<><<Tick>>_vars
FairSpec == Spec /\ WF_vars(Work) /\ FairTick /\ WF_vars(RunGuard)
-----------------------------------------------------------------------------
Quiet ==
  /\ jobs = <<>> /\ resps = <<>> /\ Idle
  /\ ui.wantLeaf = NoDN /\ ui.wantBranch = NoDN /\ ~ui.listDirty /\ ~ui.treeDirty

\* The two panes show the structure as it is whenever neither was told to
\* rebuild: no answer, save or rescan changes a container, or makes one, and
\* forgets to say so (Structure::upsert's result, tree_dirty, list_dirty).
ListIsCurrent == ~ui.listDirty => ui.list.rows = LeafRows(ui)

\* structure.rs:228 "Returns `true` when the tree pane must rebuild: a container
\* appeared or disappeared, or an in-tree (container) node's label attrs changed."
TreeIsCurrent == ~ui.treeDirty => ui.tree.rows = TreeRows(ui)

PanesAreCurrent == ListIsCurrent /\ TreeIsCurrent

\* The entries of one container are never listed as hits under another, however
\* late a find is answered (commit_branch, LeafSearchFlow::cancel).
HitsBelongHere ==
  ui.hits # NoHits => ui.hits.branch = ui.branch /\ \A d \in ui.hits.dns : Parent[d] = ui.branch

\* When no answer to the last query is on its way, the hits listed are those of
\* the query shown, not of one typed before it.
FindSettles ==
  LET onItsWay == \/ \E i \in DOMAIN jobs : jobs[i].what = "find" /\ jobs[i].id = ui.latest
                  \/ \E i \in DOMAIN resps : resps[i].what = "find" /\ resps[i].id = ui.latest
  IN  ui.query # Empty /\ ui.hits # NoHits /\ ~onItsWay => ui.hits.term = ui.query

\* The form shows an entry that is not open, or known to be gone.
IsHeld == ui.form # NoForm /\ (ui.leaf = NoDN \/ ui.ver[ui.leaf] = 0)

\* Once nothing is outstanding, the form, the entry that counts as open and the
\* highlight of the list agree, unless that entry could not be read.
PlaceIsKept ==
  Quiet /\ ui.leaf \notin missed =>
    LET dns == RowDns(ui.list.rows)
    IN  /\ ui.leaf # NoDN => ui.form.entry = ui.leaf
        /\ ui.leaf \in ToSet(dns) /\ ui.nav = NoDN => dns[ui.list.row] = ui.leaf
        /\ ~Dirty(ui) /\ ui.leaf \notin ToSet(dns) /\ ~IsHeld => ToSet(dns) \subseteq {ui.branch}

\* The form follows the list and the list is rebuilt by what the form reads:
\* that circle ends.
FeedbackEnds == <>[](Quiet \/ dialog # NoDialog)

\* A form held with no entry open holds unsaved work (state.rs:1446 "a create or
\* a dirty vanished-entry form the guard is still holding").  The answer to a
\* read sent before the rescan that found the entry gone makes it untrue.
HeldFormIsUnsaved == ui.form # NoForm /\ ui.leaf = NoDN => Dirty(ui)
=============================================================================
