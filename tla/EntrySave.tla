----------------------------- MODULE EntrySave -----------------------------
(***************************************************************************)
(* Editing and saving one entry at a time while other clients write the    *)
(* same directory: the operator and the UI thread (src/ui/state.rs,        *)
(* src/ui/app.rs, src/ui/pump.rs), the flows that correlate requests and   *)
(* responses (src/workflows/read_flow.rs, write_flow.rs), the LDAP worker  *)
(* thread with its FIFO queue (src/ldap/worker.rs), and the directory.     *)
(*                                                                         *)
(* A form remembers the values and the entryCSN it was read with; a save   *)
(* diffs against the values and asserts the CSN.  A failed assertion       *)
(* (rc 122) is answered by a re-read and either a silent rebase or a       *)
(* question.  Membership (combined) saves, creates and the staged password *)
(* are not in this module; forms here have neither.                        *)
(*                                                                         *)
(* A definition marked "faulty" is not in Next: it is a plausible bug in   *)
(* the one after it, kept to show that a property notices it.              *)
(***************************************************************************)
EXTENDS ChangeSet, Naturals, Sequences

CONSTANTS
  DNs,                \* entry names
  NoDN,               \* the absent name (Option::None)
  Present,            \* the names that exist at the start
  InitCsn,            \* the CSN each was last written with
  InitClock,          \* the last CSN issued before the start
  InitVal,            \* the attributes they have
  Renames,            \* pairs <<d, e>>: editing d's naming attribute can name it e
  Must,               \* attributes the schema requires
  Writable,           \* the value sets the operator and other clients write
  AssertionSupported, \* the server advertises the Assertion control
  OperatorWaits,      \* the operator acts only when nothing is outstanding
  OthersDelete,       \* other clients may delete entries
  MaxOthers,          \* bound: writes by other clients
  MaxSaves,           \* bound: saves the operator confirms
  MaxQueue,           \* bound: requests outstanding when the operator acts
  MaxFaults           \* bound: operations the server or the connection fails

ASSUME EntrySaveAssumption ==
  /\ NoDN \notin DNs
  /\ Present \subseteq DNs
  /\ InitClock \in Nat
  /\ InitCsn \in [Present -> 1..InitClock]
  /\ \A d, e \in Present : InitCsn[d] = InitCsn[e] => d = e
  /\ InitVal \in Content
  /\ Renames \subseteq DNs \X DNs
  /\ Must \subseteq Attrs
  /\ Writable \subseteq SUBSET Values
  /\ AssertionSupported \in BOOLEAN
  /\ OperatorWaits \in BOOLEAN
  /\ OthersDelete \in BOOLEAN
  /\ MaxOthers \in Nat /\ MaxSaves \in Nat /\ MaxQueue \in Nat /\ MaxFaults \in Nat

VARIABLES
  srv,           \* the directory: each name's entry; csn 0 where there is none
  clock,         \* the last CSN the server issued
  jobs,          \* the worker's request queue, FIFO
  resps,         \* the responses the pump has not polled yet, FIFO
  reply,         \* the answer to a blocking request, at most one
  editForm,      \* UiState::edit_form
  currentLeaf,   \* UiState::current_leaf
  requestedLeaf, \* UiState::requested_leaf
  guardTarget,   \* UiState::guard_target
  pendingNav,    \* UiState::pending_nav
  lastConflict,  \* UiState::last_conflict
  lastError,     \* UiState::last_write_error is set
  posted,        \* commands posted to dispatch and not yet run
  dialog,        \* the modal dialog dispatch is running
  done,          \* the event loop has ended
  others,        \* writes other clients made
  saves,         \* saves the operator confirmed
  faults,        \* operations that failed for reasons of their own
  owed,          \* history: the confirmed saves whose outcome was not yet reported
  approved       \* history: the changes the operator saw in a preview and confirmed

dirVars    == <<srv, clock, others, faults>>
workerVars == <<jobs, resps, reply>>
navVars    == <<currentLeaf, requestedLeaf, guardTarget, pendingNav>>
alertVars  == <<lastConflict, lastError, posted>>
histVars   == <<saves, owed, approved>>
vars == <<dirVars, workerVars, editForm, navVars, alertVars, dialog, done, histVars>>

Names == DNs \cup {NoDN}

(***************************************************************************)
(* A SavePlan.  seen, want and forced are history: what the operator had   *)
(* been shown, the values on the form, and whether the form had adopted a  *)
(* newer CSN without the values it stands for (force_overwrite).           *)
(***************************************************************************)
Plan == [dn : Names, name : Names, mods : SUBSET ModOps,
         seen : Content, want : Content, forced : BOOLEAN]

NoPlan == [dn |-> NoDN, name |-> NoDN, mods |-> {}, seen |-> Empty, want |-> Empty,
           forced |-> FALSE]

(***************************************************************************)
(* A request with the intent its id maps to in the flow's pending table.   *)
(* csn 0 means no assertion.  save, nav and asked are history: which       *)
(* confirmed save it serves, where the guard's Save promised to go, and    *)
(* whether it was confirmed from the conflict dialog's Overwrite.          *)
(***************************************************************************)
Job == [op : {"read", "modify", "modrdn", "reread"}, dn : Names, csn : Nat, quit : BOOLEAN,
        save : Nat, nav : Names, asked : BOOLEAN, plan : Plan]

Response == [kind : {"entry", "ok", "conflict", "error"}, job : Job, csn : Nat, val : Content]

Entry == [csn : Nat, val : Content]

(***************************************************************************)
(* An EditForm.  seen, forced and typed are history: the values the        *)
(* operator was last shown and did not change, whether an Overwrite moved  *)
(* the CSN without the values, and whether something was edited since the  *)
(* last save.                                                              *)
(***************************************************************************)
Form == [dn : Names, name : Names, csn : Nat, base : Content, val : Content,
         seen : Content, forced : BOOLEAN, typed : BOOLEAN]

NoForm == [dn |-> NoDN, name |-> NoDN, csn |-> 0, base |-> Empty, val |-> Empty,
           seen |-> Empty, forced |-> FALSE, typed |-> FALSE]

Dialog == [kind : {"none", "guard", "quitguard", "confirm", "conflict", "error"}, dn : Names,
           csn : Nat, quit : BOOLEAN, nav : Names, guarded : BOOLEAN, asked : BOOLEAN,
           plan : Plan]

Closed == [kind |-> "none", dn |-> NoDN, csn |-> 0, quit |-> FALSE, nav |-> NoDN,
           guarded |-> FALSE, asked |-> FALSE, plan |-> NoPlan]

Prompt == [dn : Names, quit : BOOLEAN, csn : Nat]

NoPrompt == [dn |-> NoDN, quit |-> FALSE, csn |-> 0]

TypeOK ==
  /\ srv \in [DNs -> Entry]
  /\ clock \in Nat
  /\ jobs \in Seq(Job)
  /\ resps \in Seq(Response)
  /\ reply \in Seq(Response)
  /\ editForm \in Form
  /\ currentLeaf \in Names
  /\ requestedLeaf \in Names
  /\ guardTarget \in Names
  /\ pendingNav \in Names
  /\ lastConflict \in Prompt
  /\ lastError \in BOOLEAN
  /\ posted \subseteq {"GUARD_NAV", "SHOW_ERROR", "QUIT"}
  /\ dialog \in Dialog
  /\ done \in BOOLEAN
  /\ others \in Nat /\ saves \in Nat /\ faults \in Nat
  /\ owed \subseteq 1..saves
  /\ approved \subseteq [dn : Names, name : Names, mods : SUBSET ModOps]

Init ==
  /\ srv = [d \in DNs |-> IF d \in Present THEN [csn |-> InitCsn[d], val |-> InitVal]
                                           ELSE [csn |-> 0, val |-> Empty]]
  /\ clock = InitClock
  /\ jobs = <<>> /\ resps = <<>> /\ reply = <<>>
  /\ editForm = NoForm
  /\ currentLeaf = NoDN /\ requestedLeaf = NoDN /\ guardTarget = NoDN /\ pendingNav = NoDN
  /\ lastConflict = NoPrompt /\ lastError = FALSE /\ posted = {}
  /\ dialog = Closed /\ done = FALSE
  /\ others = 0 /\ saves = 0 /\ faults = 0 /\ owed = {}
  /\ approved = {}

-----------------------------------------------------------------------------
(***************************************************************************)
(* The form.                                                               *)
(***************************************************************************)
Loaded(d, e) == [dn |-> d, name |-> d, csn |-> e.csn, base |-> e.val, val |-> e.val,
                 seen |-> e.val, forced |-> FALSE, typed |-> FALSE]

IsOpen(f)  == f.dn # NoDN
IsDirty(f) == f.val # f.base \/ f.name # f.dn

Discarded(f) == [f EXCEPT !.val = f.base, !.name = f.dn, !.seen = f.base, !.typed = FALSE]

(***************************************************************************)
(* WriteFlow::prepare: validate, then diff against the form's baseline.    *)
(***************************************************************************)
Prepared(f) ==
  IF ~IsOpen(f)                       THEN "noform"
  ELSE IF \E a \in Must : f.val[a] = {} THEN "invalid"
  ELSE IF ~IsDirty(f)                 THEN "nochanges"
  ELSE "ready"

PlanOf(f) == [dn |-> f.dn, name |-> f.name, mods |-> Diff(f.base, f.val),
              seen |-> f.seen, want |-> f.val, forced |-> f.forced]

Preview(p) == [dn |-> p.dn, name |-> p.name, mods |-> p.mods]

(***************************************************************************)
(* Requests.                                                               *)
(***************************************************************************)
ReadJob(d) == [op |-> "read", dn |-> d, csn |-> 0, quit |-> FALSE, save |-> 0,
               nav |-> NoDN, asked |-> FALSE, plan |-> NoPlan]

\* WriteFlow::submit: a rename goes first and carries no assertion.
SaveJob(p, csn, quit, save, nav, asked) ==
  [op |-> IF p.name = p.dn THEN "modify" ELSE "modrdn", dn |-> p.dn,
   csn |-> IF p.name = p.dn THEN csn ELSE 0, quit |-> quit, save |-> save,
   nav |-> nav, asked |-> asked, plan |-> p]

\* faulty: the follow-up writes the whole form, not the previewed change
FollowupWhole(j) == [j EXCEPT !.op = "modify", !.dn = j.plan.name, !.csn = 0,
                               !.plan.mods = Diff(Empty, j.plan.want)]

\* WriteFlow::submit_followup: the modifications after a rename, unasserted.
FollowupJob(j) == [j EXCEPT !.op = "modify", !.dn = j.plan.name, !.csn = 0]

RereadJob(j) == [j EXCEPT !.op = "reread", !.csn = 0]

Submit(j) == jobs' = Append(jobs, j)

\* faulty: a read that does not move the current leaf
ReadOnly(d) == Submit(ReadJob(d)) /\ UNCHANGED currentLeaf

\* UiState::reread
Reread(d) == Submit(ReadJob(d)) /\ currentLeaf' = d

BaselineCsn(f) == IF AssertionSupported THEN f.csn ELSE 0

(***************************************************************************)
(* The UI thread is blocked between a blocking request and its answer.     *)
(***************************************************************************)
Blocked == reply # <<>> \/ \E i \in 1..Len(jobs) : jobs[i].op = "reread"

Running == ~done /\ ~Blocked

Outstanding == Len(jobs) + Len(resps)

Quiet == jobs = <<>> /\ resps = <<>> /\ posted = {} /\ requestedLeaf = NoDN

OperatorReady ==
  /\ Running
  /\ dialog = Closed
  /\ Outstanding < MaxQueue
  /\ OperatorWaits => Quiet

-----------------------------------------------------------------------------
(***************************************************************************)
(* The operator at the panes.                                              *)
(***************************************************************************)
EditField(a, vs) ==
  /\ OperatorReady /\ IsOpen(editForm)
  /\ editForm.val[a] # vs
  /\ editForm' = [editForm EXCEPT !.val[a] = vs, !.typed = TRUE]
  /\ UNCHANGED <<dirVars, workerVars, navVars, alertVars, dialog, done, histVars>>

\* Editing the naming attribute: the save will be a rename.
EditName(e) ==
  /\ OperatorReady /\ IsOpen(editForm)
  /\ editForm.name # e
  /\ e = editForm.dn \/ <<editForm.dn, e>> \in Renames
  /\ editForm' = [editForm EXCEPT !.name = e, !.typed = TRUE]
  /\ UNCHANGED <<dirVars, workerVars, navVars, alertVars, dialog, done, histVars>>

\* UiState::request_leaf: a pane reports the highlighted row.
RequestLeaf(d) ==
  /\ OperatorReady
  /\ requestedLeaf' = d
  /\ UNCHANGED <<dirVars, workerVars, editForm, currentLeaf, guardTarget, pendingNav,
                 alertVars, dialog, done, histVars>>

(***************************************************************************)
(* do_save up to the preview, on form f: what cannot or need not be saved  *)
(* returns NotSubmitted, which a guard's Save answers by giving up the     *)
(* move (apply_cancelled_guard_save).                                      *)
(***************************************************************************)
DoSave(f, nav, quit, guarded, asked) ==
  LET outcome == Prepared(f)
      givenUp == guarded /\ outcome \in {"noform", "nochanges"}
  IN  /\ dialog' = CASE outcome = "ready" ->
                          [Closed EXCEPT !.kind = "confirm", !.nav = nav, !.quit = quit,
                                         !.guarded = guarded, !.asked = asked,
                                         !.plan = PlanOf(f)]
                     [] outcome = "invalid" ->
                          [Closed EXCEPT !.kind = "error", !.guarded = guarded]
                     [] OTHER -> Closed
      /\ guardTarget' = IF givenUp \/ outcome = "nochanges" THEN NoDN ELSE guardTarget
      /\ pendingNav' = IF givenUp THEN NoDN ELSE pendingNav

\* dispatch SAVE
PressSave ==
  /\ OperatorReady /\ IsOpen(editForm) /\ saves < MaxSaves
  /\ DoSave(editForm, NoDN, FALSE, FALSE, FALSE)
  /\ UNCHANGED <<dirVars, workerVars, editForm, currentLeaf, requestedLeaf, alertVars,
                 done, histVars>>

\* dispatch REQUEST_QUIT
RequestQuit ==
  /\ OperatorReady
  /\ IF IsDirty(editForm)
     THEN dialog' = [Closed EXCEPT !.kind = "quitguard"] /\ UNCHANGED done
     ELSE done' = TRUE /\ UNCHANGED dialog
  /\ UNCHANGED <<dirVars, workerVars, editForm, navVars, alertVars, histVars>>

(***************************************************************************)
(* The operator at a dialog.  The pump keeps draining while one is open.   *)
(***************************************************************************)
Answering(kind) == Running /\ dialog.kind = kind

\* the rest of do_save: the plan made BEFORE the preview, the CSN read AFTER it
ConfirmSave ==
  /\ Answering("confirm") /\ saves < MaxSaves
  /\ Submit(SaveJob(dialog.plan, BaselineCsn(editForm), dialog.quit, saves + 1, dialog.nav,
                    dialog.asked))
  /\ pendingNav' = dialog.nav
  /\ guardTarget' = NoDN
  /\ dialog' = Closed
  /\ editForm' = [editForm EXCEPT !.typed = FALSE]
  /\ saves' = saves + 1
  /\ owed' = owed \cup {saves + 1}
  /\ approved' = approved \cup {Preview(dialog.plan)}
  /\ UNCHANGED <<dirVars, resps, reply, currentLeaf, requestedLeaf, alertVars, done>>

\* a declined preview, or an acknowledged error: under a guard's Save the move is off
Dismiss ==
  /\ Answering("confirm") \/ Answering("error")
  /\ dialog' = Closed
  /\ guardTarget' = IF dialog.guarded THEN NoDN ELSE guardTarget
  /\ pendingNav' = IF dialog.guarded THEN NoDN ELSE pendingNav
  /\ UNCHANGED <<dirVars, workerVars, editForm, currentLeaf, requestedLeaf, alertVars,
                 done, histVars>>

\* dispatch GUARD_NAV, GuardDecision::Save
GuardSave ==
  /\ Answering("guard") /\ saves < MaxSaves
  /\ DoSave(editForm, dialog.nav, FALSE, TRUE, FALSE)
  /\ UNCHANGED <<dirVars, workerVars, editForm, currentLeaf, requestedLeaf, alertVars,
                 done, histVars>>

GuardDiscard ==
  /\ Answering("guard")
  /\ editForm' = Discarded(editForm)
  /\ IF dialog.nav # NoDN THEN Reread(dialog.nav) ELSE UNCHANGED <<jobs, currentLeaf>>
  /\ guardTarget' = NoDN
  /\ dialog' = Closed
  /\ UNCHANGED <<dirVars, resps, reply, requestedLeaf, pendingNav, alertVars, done, histVars>>

GuardStay ==
  /\ Answering("guard")
  /\ guardTarget' = NoDN
  /\ dialog' = Closed
  /\ UNCHANGED <<dirVars, workerVars, editForm, currentLeaf, requestedLeaf, pendingNav,
                 alertVars, done, histVars>>

QuitSave ==
  /\ Answering("quitguard") /\ saves < MaxSaves
  /\ DoSave(editForm, NoDN, TRUE, FALSE, FALSE)
  /\ UNCHANGED <<dirVars, workerVars, editForm, currentLeaf, requestedLeaf, alertVars,
                 done, histVars>>

QuitDiscard ==
  /\ Answering("quitguard")
  /\ done' = TRUE
  /\ dialog' = Closed
  /\ UNCHANGED <<dirVars, workerVars, editForm, navVars, alertVars, histVars>>

QuitStay ==
  /\ Answering("quitguard")
  /\ dialog' = Closed
  /\ UNCHANGED <<dirVars, workerVars, editForm, navVars, alertVars, done, histVars>>

\* force_overwrite: adopt the CSN the re-read learned, keep the old baseline
ConflictOverwrite ==
  /\ Answering("conflict") /\ saves < MaxSaves
  /\ LET f == IF IsOpen(editForm)
              THEN [editForm EXCEPT !.csn = dialog.csn, !.forced = TRUE] ELSE editForm
     IN  editForm' = f /\ DoSave(f, NoDN, dialog.quit, FALSE, TRUE)
  /\ UNCHANGED <<dirVars, workerVars, currentLeaf, requestedLeaf, alertVars, done, histVars>>

ConflictReload ==
  /\ Answering("conflict")
  /\ editForm' = NoForm
  /\ Reread(dialog.dn)
  /\ dialog' = Closed
  /\ UNCHANGED <<dirVars, resps, reply, requestedLeaf, guardTarget, pendingNav, alertVars,
                 done, histVars>>

ConflictKeep ==
  /\ Answering("conflict")
  /\ dialog' = Closed
  /\ UNCHANGED <<dirVars, workerVars, editForm, navVars, alertVars, done, histVars>>

-----------------------------------------------------------------------------
(***************************************************************************)
(* The pump tick: responses in order, then the requested leaf.             *)
(***************************************************************************)
Polling(kind) == Running /\ resps # <<>> /\ Head(resps).kind = kind

Report(j) == owed' = owed \ {j.save}

\* process_responses, ReadOutcome::Form: the fresh form replaces whatever is open
PumpEntry ==
  /\ Polling("entry")
  /\ LET r == Head(resps) IN editForm' = Loaded(r.job.dn, [csn |-> r.csn, val |-> r.val])
  /\ resps' = Tail(resps)
  /\ UNCHANGED <<dirVars, jobs, reply, navVars, alertVars, dialog, done, histVars>>

\* process_responses, ReadOutcome::Error: the status line only
PumpReadError ==
  /\ Polling("error") /\ Head(resps).job.op = "read"
  /\ resps' = Tail(resps)
  /\ UNCHANGED <<dirVars, jobs, reply, editForm, navVars, alertVars, dialog, done, histVars>>

NeedsFollowup(j) == j.op = "modrdn" /\ j.plan.mods # {}

\* WriteOutcome::NeedFollowupModify
PumpRenamed ==
  /\ Polling("ok") /\ NeedsFollowup(Head(resps).job)
  /\ resps' = Tail(resps)
  /\ Submit(FollowupJob(Head(resps).job))
  /\ UNCHANGED <<dirVars, reply, editForm, navVars, alertVars, dialog, done, histVars>>

\* faulty: reports the new RDN in place of a DN
SavedRdn(j) == IF j.op = "modrdn" THEN <<j.plan.name>> ELSE j.dn

SavedDN(j) == IF j.op = "modrdn" THEN j.plan.name ELSE j.dn

NextLeaf(j) == IF pendingNav # NoDN THEN pendingNav ELSE SavedDN(j)

\* WriteOutcome::Saved: quit, or go where the guard was asked to, or re-read.  Entries
\* here are leaves: the rescan after the rename of a container is left out.
PumpSaved ==
  /\ Polling("ok") /\ ~NeedsFollowup(Head(resps).job)
  /\ LET j == Head(resps).job
     IN  IF j.quit
         THEN /\ posted' = posted \cup {"QUIT"}
              /\ UNCHANGED <<jobs, currentLeaf, pendingNav>>
         ELSE /\ Reread(NextLeaf(j))
              /\ pendingNav' = NoDN
              /\ UNCHANGED posted
  /\ resps' = Tail(resps)
  /\ Report(Head(resps).job)
  /\ UNCHANGED <<dirVars, reply, editForm, requestedLeaf, guardTarget, lastConflict, lastError,
                 dialog, done, saves, approved>>

\* faulty: an error answer shows nothing
WriteErrorIgnored ==
  /\ Polling("error") /\ Head(resps).job.op # "read"
  /\ resps' = Tail(resps)
  /\ UNCHANGED <<dirVars, jobs, reply, editForm, navVars, alertVars, dialog, done, histVars>>

\* WriteOutcome::Error
PumpWriteError ==
  /\ Polling("error") /\ Head(resps).job.op # "read"
  /\ resps' = Tail(resps)
  /\ lastError' = TRUE
  /\ posted' = posted \cup {"SHOW_ERROR"}
  /\ Report(Head(resps).job)
  /\ UNCHANGED <<dirVars, jobs, reply, editForm, navVars, lastConflict, dialog, done,
                 saves, approved>>

\* WriteOutcome::Conflict: block on a fresh read of the entry
PumpConflict ==
  /\ Polling("conflict")
  /\ resps' = Tail(resps)
  /\ Submit(RereadJob(Head(resps).job))
  /\ UNCHANGED <<dirVars, reply, editForm, navVars, alertVars, dialog, done, histVars>>

(***************************************************************************)
(* resolve_conflict.  The form it works on is the one open NOW.            *)
(***************************************************************************)
ChangedByOthers(f, val) == {a \in Attrs : val[a] # f.base[a]}

\* faulty: every conflict is rebased silently
OverlapIgnored(f, d, val) == FALSE

Overlap(f, d, val) ==
  /\ IsOpen(f)
  /\ \/ Dirty(f.base, f.val) \cap ChangedByOthers(f, val) # {}
     \/ f.name # f.dn /\ d # f.dn

\* faulty: the rebase takes the CSN and leaves the values
CsnAdopted(f, d, csn, val) == [f EXCEPT !.csn = csn]

\* rebase_baselines and the adopted CSN; the naming attribute is a field like any other
Rebased(f, d, csn, val) ==
  IF IsOpen(f)
  THEN [f EXCEPT !.csn = csn, !.base = val, !.val = Merge(f.base, f.val, val),
                 !.seen = [a \in Attrs |-> IF a \in Dirty(f.base, f.val) THEN f.seen[a]
                                                                      ELSE val[a]],
                 !.name = IF f.name = f.dn THEN d ELSE f.name, !.forced = FALSE]
  ELSE f

RereadFailed ==
  /\ ~done /\ reply # <<>> /\ Head(reply).kind = "error"
  /\ reply' = <<>>
  /\ lastError' = TRUE
  /\ posted' = posted \cup {"SHOW_ERROR"}
  /\ Report(Head(reply).job)
  /\ UNCHANGED <<dirVars, jobs, resps, editForm, navVars, lastConflict, dialog, done,
                 saves, approved>>

\* faulty: the question waits until no dialog is open
AskBetweenDialogs ==
  /\ ~done /\ reply # <<>> /\ Head(reply).kind = "entry" /\ dialog = Closed
  /\ LET r == Head(reply)
     IN  /\ Overlap(editForm, r.job.dn, r.val)
         /\ lastConflict' = [dn |-> r.job.dn, quit |-> r.job.quit, csn |-> r.csn]
  /\ reply' = <<>>
  /\ posted' = posted \cup {"SHOW_ERROR"}
  /\ Report(Head(reply).job)
  /\ UNCHANGED <<dirVars, jobs, resps, editForm, navVars, lastError, dialog, done,
                 saves, approved>>

ResolveByAsking ==
  /\ ~done /\ reply # <<>> /\ Head(reply).kind = "entry"
  /\ LET r == Head(reply)
     IN  /\ Overlap(editForm, r.job.dn, r.val)
         /\ lastConflict' = [dn |-> r.job.dn, quit |-> r.job.quit, csn |-> r.csn]
  /\ reply' = <<>>
  /\ posted' = posted \cup {"SHOW_ERROR"}
  /\ Report(Head(reply).job)
  /\ UNCHANGED <<dirVars, jobs, resps, editForm, navVars, lastError, dialog, done,
                 saves, approved>>

\* faulty: the rebase forgets to resubmit
RebasedNotResubmitted ==
  /\ ~done /\ reply # <<>> /\ Head(reply).kind = "entry"
  /\ LET r == Head(reply)
     IN  /\ ~Overlap(editForm, r.job.dn, r.val)
         /\ editForm' = Rebased(editForm, r.job.dn, r.csn, r.val)
  /\ reply' = <<>>
  /\ UNCHANGED <<dirVars, jobs, resps, navVars, alertVars, dialog, done, histVars>>

\* resubmit_save: prepared again from the rebased form, no preview
ResolveByRebasing ==
  /\ ~done /\ reply # <<>> /\ Head(reply).kind = "entry"
  /\ LET r == Head(reply)
         f == Rebased(editForm, r.job.dn, r.csn, r.val)
     IN  /\ ~Overlap(editForm, r.job.dn, r.val)
         /\ editForm' = f
         /\ IF Prepared(f) = "ready"
            THEN Submit(SaveJob(PlanOf(f), BaselineCsn(f), r.job.quit, r.job.save,
                        r.job.nav, FALSE))
            ELSE UNCHANGED jobs
  /\ reply' = <<>>
  /\ UNCHANGED <<dirVars, resps, navVars, alertVars, dialog, done, histVars>>

\* faulty: the selection loads without asking about edits
ReconcileUnguarded ==
  /\ Running /\ requestedLeaf # NoDN
  /\ requestedLeaf' = NoDN
  /\ IF requestedLeaf = currentLeaf THEN UNCHANGED <<jobs, currentLeaf>> ELSE Reread(requestedLeaf)
  /\ UNCHANGED <<dirVars, resps, reply, editForm, guardTarget, pendingNav, alertVars, dialog,
                 done, histVars>>

\* UiState::reconcile_selection
ReconcileSelection ==
  /\ Running /\ requestedLeaf # NoDN
  /\ requestedLeaf' = NoDN
  /\ CASE requestedLeaf = currentLeaf ->
            UNCHANGED <<jobs, currentLeaf, guardTarget, posted>>
       [] requestedLeaf # currentLeaf /\ IsDirty(editForm) ->
            /\ guardTarget' = requestedLeaf
            /\ posted' = posted \cup {"GUARD_NAV"}
            /\ UNCHANGED <<jobs, currentLeaf>>
       [] OTHER ->
            /\ Reread(requestedLeaf)
            /\ UNCHANGED <<guardTarget, posted>>
  /\ UNCHANGED <<dirVars, resps, reply, editForm, pendingNav, lastConflict, lastError, dialog,
                 done, histVars>>

(***************************************************************************)
(* Posted commands run when no dialog is open.                             *)
(***************************************************************************)
Dispatching(cmd) == Running /\ dialog = Closed /\ cmd \in posted

RunGuard ==
  /\ Dispatching("GUARD_NAV")
  /\ posted' = posted \ {"GUARD_NAV"}
  /\ dialog' = [Closed EXCEPT !.kind = "guard", !.nav = guardTarget]
  /\ UNCHANGED <<dirVars, workerVars, editForm, navVars, lastConflict, lastError, done, histVars>>

\* SHOW_ERROR: a conflict takes precedence; a plain error found in the same tick stays unshown,
\* one found in another tick has a SHOW_ERROR of its own
ShowConflict ==
  /\ Dispatching("SHOW_ERROR") /\ lastConflict.dn # NoDN
  /\ posted' \in {posted \ {"SHOW_ERROR"}} \cup (IF lastError THEN {posted} ELSE {})
  /\ lastConflict' = NoPrompt
  /\ dialog' = [Closed EXCEPT !.kind = "conflict", !.dn = lastConflict.dn,
                              !.csn = lastConflict.csn, !.quit = lastConflict.quit]
  /\ UNCHANGED <<dirVars, workerVars, editForm, navVars, lastError, done, histVars>>

ShowError ==
  /\ Dispatching("SHOW_ERROR") /\ lastConflict.dn = NoDN
  /\ posted' = posted \ {"SHOW_ERROR"}
  /\ lastError' = FALSE
  /\ dialog' = IF lastError THEN [Closed EXCEPT !.kind = "error"] ELSE Closed
  /\ UNCHANGED <<dirVars, workerVars, editForm, navVars, lastConflict, done, histVars>>

Quit ==
  /\ Dispatching("QUIT")
  /\ posted' = posted \ {"QUIT"}
  /\ done' = TRUE
  /\ UNCHANGED <<dirVars, workerVars, editForm, navVars, lastConflict, lastError, dialog, histVars>>

-----------------------------------------------------------------------------
(***************************************************************************)
(* The worker thread: one request at a time, in order.  It outlives the    *)
(* event loop: the handle's Drop queues Shutdown behind what is there.     *)
(***************************************************************************)
Exists(d) == d \in DNs /\ srv[d].csn # 0

Serving(op) == jobs # <<>> /\ Head(jobs).op = op

Found(d) == IF d \in DNs THEN srv'[d] ELSE [csn |-> 0, val |-> Empty]

AnswerOf(kind, d) ==
  [kind |-> kind, job |-> Head(jobs), csn |-> Found(d).csn, val |-> Found(d).val]

Answer(kind, d) == resps' = Append(resps, AnswerOf(kind, d))

Unwritten == UNCHANGED <<srv, clock, others, faults>>

Served ==
  /\ jobs' = Tail(jobs)
  /\ UNCHANGED <<editForm, navVars, alertVars, dialog, done, histVars>>

WorkerRead ==
  /\ Serving("read")
  /\ Unwritten
  /\ LET d == Head(jobs).dn IN Answer(IF Exists(d) THEN "entry" ELSE "error", d)
  /\ Served /\ UNCHANGED reply

\* the blocking read goes to the caller's own channel
WorkerReread ==
  /\ Serving("reread")
  /\ Unwritten
  /\ LET d == Head(jobs).dn IN reply' = <<AnswerOf(IF Exists(d) THEN "entry" ELSE "error", d)>>
  /\ Served /\ UNCHANGED resps

\* run_modify, by the server's verdict: 32 noSuchObject, 122 assertionFailed, 16/20, 65, 0
ModifyVerdict(j) ==
  IF ~Exists(j.dn)                               THEN "error"
  ELSE IF j.csn # 0 /\ j.csn # srv[j.dn].csn     THEN "conflict"
  ELSE IF ~Accepted(j.plan.mods, srv[j.dn].val)  THEN "error"
  ELSE IF \E a \in Must : Apply(j.plan.mods, srv[j.dn].val)[a] = {} THEN "error"
  ELSE "ok"

Stored(d, val) ==
  /\ srv' = [srv EXCEPT ![d] = [csn |-> clock + 1, val |-> val]]
  /\ clock' = clock + 1
  /\ UNCHANGED <<others, faults>>

WorkerModify ==
  /\ Serving("modify")
  /\ LET j == Head(jobs)
     IN  /\ IF ModifyVerdict(j) = "ok"
            THEN Stored(j.dn, Apply(j.plan.mods, srv[j.dn].val))
            ELSE Unwritten
         /\ Answer(ModifyVerdict(j), j.dn)
  /\ Served /\ UNCHANGED reply

\* run_modrdn: never asserted; 32 noSuchObject, 68 entryAlreadyExists, 0
WorkerModrdn ==
  /\ Serving("modrdn")
  /\ LET j == Head(jobs)
         ok == Exists(j.dn) /\ ~Exists(j.plan.name)
     IN  /\ IF ok
            THEN /\ srv' = [srv EXCEPT ![j.dn] = [csn |-> 0, val |-> Empty],
                                       ![j.plan.name] = [csn |-> clock + 1, val |-> srv[j.dn].val]]
                 /\ clock' = clock + 1
                 /\ UNCHANGED <<others, faults>>
            ELSE Unwritten
         /\ Answer(IF ok THEN "ok" ELSE "error", j.plan.name)
  /\ Served /\ UNCHANGED reply

\* refused for a reason of the server's own, or the connection broke: before or after the
\* modification or the rename applied
WorkerFault ==
  /\ jobs # <<>> /\ Head(jobs).op # "reread" /\ faults < MaxFaults
  /\ faults' = faults + 1
  /\ LET j == Head(jobs)
     IN  /\ \/ UNCHANGED <<srv, clock>>
            \/ /\ j.op = "modify" /\ ModifyVerdict(j) = "ok"
               /\ srv' = [srv EXCEPT ![j.dn] = [csn |-> clock + 1,
                                               val |-> Apply(j.plan.mods, srv[j.dn].val)]]
               /\ clock' = clock + 1
            \/ /\ j.op = "modrdn" /\ Exists(j.dn) /\ ~Exists(j.plan.name)
               /\ srv' = [srv EXCEPT ![j.dn] = [csn |-> 0, val |-> Empty],
                                     ![j.plan.name] = [csn |-> clock + 1, val |-> srv[j.dn].val]]
               /\ clock' = clock + 1
         /\ Answer("error", j.dn)
  /\ UNCHANGED others
  /\ Served /\ UNCHANGED reply

\* the blocking re-read fails: the caller gets no entry
WorkerRereadFault ==
  /\ Serving("reread") /\ faults < MaxFaults
  /\ faults' = faults + 1
  /\ reply' = <<[kind |-> "error", job |-> Head(jobs), csn |-> 0, val |-> Empty]>>
  /\ UNCHANGED <<srv, clock, others, resps>>
  /\ Served

(***************************************************************************)
(* Other clients of the directory.                                         *)
(***************************************************************************)
OtherWrite(d, a, vs) ==
  /\ others < MaxOthers
  /\ Exists(d) /\ srv[d].val[a] # vs
  /\ a \in Must => vs # {}
  /\ srv' = [srv EXCEPT ![d] = [csn |-> clock + 1, val |-> [srv[d].val EXCEPT ![a] = vs]]]
  /\ clock' = clock + 1
  /\ others' = others + 1
  /\ UNCHANGED <<faults, workerVars, editForm, navVars, alertVars, dialog, done, histVars>>

OtherDelete(d) ==
  /\ OthersDelete /\ others < MaxOthers
  /\ Exists(d)
  /\ srv' = [srv EXCEPT ![d] = [csn |-> 0, val |-> Empty]]
  /\ others' = others + 1
  /\ UNCHANGED <<clock, faults, workerVars, editForm, navVars, alertVars, dialog, done, histVars>>

-----------------------------------------------------------------------------
Worker == WorkerRead \/ WorkerReread \/ WorkerModify \/ WorkerModrdn

Pump ==
  \/ PumpEntry \/ PumpReadError \/ PumpRenamed \/ PumpSaved \/ PumpWriteError \/ PumpConflict
  \/ RereadFailed \/ ResolveByAsking \/ ResolveByRebasing

Dispatch == RunGuard \/ ShowConflict \/ ShowError \/ Quit

Operator ==
  \/ \E a \in Attrs, vs \in Writable : EditField(a, vs)
  \/ \E d \in DNs : EditName(d) \/ RequestLeaf(d)
  \/ PressSave \/ RequestQuit \/ ConfirmSave \/ Dismiss
  \/ GuardSave \/ GuardDiscard \/ GuardStay \/ QuitSave \/ QuitDiscard \/ QuitStay
  \/ ConflictOverwrite \/ ConflictReload \/ ConflictKeep

Others ==
  \E d \in DNs : OtherDelete(d) \/ \E a \in Attrs, vs \in Writable : OtherWrite(d, a, vs)

Next == Operator \/ Pump \/ ReconcileSelection \/ Dispatch \/ Worker
        \/ WorkerFault \/ WorkerRereadFault \/ Others

Spec == Init /\ [][Next]_vars

(***************************************************************************)
(* The worker thread keeps serving, the pump's timer keeps firing, posted  *)
(* commands are dispatched.  Nothing obliges the operator, other clients   *)
(* or a failure to act.                                                    *)
(***************************************************************************)
FairSpec ==
  Spec /\ WF_vars(Worker) /\ WF_vars(Pump) /\ WF_vars(ReconcileSelection) /\ WF_vars(Dispatch)

-----------------------------------------------------------------------------
(***************************************************************************)
(* Properties.                                                             *)
(***************************************************************************)
WouldApply(j) == j.op = "modify" /\ ModifyVerdict(j) = "ok"

SawCurrent(j) == \A m \in j.plan.mods : j.plan.seen[m.attr] = srv[j.dn].val[m.attr]

(***************************************************************************)
(* A save that would now be accepted changes only attributes whose values  *)
(* on the server are still the ones the operator was shown: another        *)
(* client's write is never clobbered unless the operator said Overwrite.   *)
(* (Assertion in run_modify, baseline_csn in do_save and resubmit_save.)   *)
(* The modifications that follow a rename are outside it: they carry no    *)
(* assertion.  The cells of the screen, which are read back into the form, *)
(* are in FormPane.                                                        *)
(***************************************************************************)
NoLostUpdate ==
  AssertionSupported =>
    \A i \in 1..Len(jobs) :
      /\ WouldApply(jobs[i])
      /\ jobs[i].dn = jobs[i].plan.dn
      /\ ~jobs[i].plan.forced
      => SawCurrent(jobs[i])

(***************************************************************************)
(* If the CSN on the form is the entry's current one, so that a save now   *)
(* would be accepted, then the form's baseline is the entry's content -    *)
(* through reads, conflicts, silent rebases and answers for other entries. *)
(* Overwrite alone adopts a CSN without its values.                        *)
(***************************************************************************)
FormMatchesItsVersion ==
  /\ IsOpen(editForm) /\ Exists(editForm.dn)
  /\ editForm.csn = srv[editForm.dn].csn
  /\ ~editForm.forced
  => editForm.base = srv[editForm.dn].val

(***************************************************************************)
(* Why that holds: a CSN names one version of one entry, and every copy of *)
(* an entry on its way to the form, or in it, is that version's content.   *)
(* This is the inductive invariant.                                        *)
(***************************************************************************)
VersionsDiffer ==
  /\ \A d \in DNs : srv[d].csn <= clock
  /\ \A d, e \in DNs : srv[d].csn = srv[e].csn /\ srv[d].csn # 0 => d = e

Faithful(csn, val) ==
  /\ csn <= clock
  /\ \A d \in DNs : srv[d].csn = csn /\ csn # 0 => srv[d].val = val

FaithfulAnswers(s) == \A i \in 1..Len(s) : s[i].kind = "entry" => Faithful(s[i].csn, s[i].val)

FaithfulForm == ~editForm.forced => Faithful(editForm.csn, editForm.base)

CopiesAreFaithful ==
  VersionsDiffer /\ FaithfulAnswers(resps) /\ FaithfulAnswers(reply) /\ FaithfulForm

InFlight(s) ==
  \/ \E i \in 1..Len(jobs)  : jobs[i].save = s
  \/ \E i \in 1..Len(resps) : resps[i].job.save = s
  \/ \E i \in 1..Len(reply) : reply[i].job.save = s

(***************************************************************************)
(* A confirmed save whose outcome the operator has not been told is still  *)
(* somewhere between the UI and the worker: no path drops it silently.     *)
(***************************************************************************)
NoSilentDrop == \A s \in owed : InFlight(s)

(***************************************************************************)
(* Every write in the queue makes exactly a change the operator saw in an  *)
(* LDIF preview and confirmed, the silent resubmission of a rebased save   *)
(* included.                                                               *)
(***************************************************************************)
WritesArePreviewed ==
  \A i \in 1..Len(jobs) :
    jobs[i].op \in {"modify", "modrdn"} => Preview(jobs[i].plan) \in approved

(***************************************************************************)
(* When no read is outstanding the open form is the current leaf's: the    *)
(* form, the highlight and the next save speak of the same entry.          *)
(***************************************************************************)
FormIsCurrentLeaf ==
  /\ IsOpen(editForm)
  /\ \A i \in 1..Len(jobs)  : jobs[i].op # "read"
  /\ \A i \in 1..Len(resps) : resps[i].job.op # "read"
  => editForm.dn = currentLeaf

(***************************************************************************)
(* A read's answer never replaces edits typed since the last save: the     *)
(* dirty guard is the only way out of an edited form.                      *)
(***************************************************************************)
EditsSurviveReads == [][PumpEntry => ~(editForm.typed /\ IsDirty(editForm))]_vars

(***************************************************************************)
(* The guard's Save completes the move it interrupted: when a save made    *)
(* for a move lands, the pane goes to that move's target - also after a    *)
(* conflict that was rebased silently in between.                          *)
(***************************************************************************)
GuardMoveCompletes ==
  [][PumpSaved /\ Head(resps).job.nav # NoDN => currentLeaf' = Head(resps).job.nav]_vars

(***************************************************************************)
(* Every confirmed save gets an answer: saved, an error or a question.     *)
(***************************************************************************)
SaveIsAnswered == \A s \in 1..MaxSaves : s \in owed ~> s \notin owed \/ done

(***************************************************************************)
(* The UI thread never stays blocked on the worker.                        *)
(***************************************************************************)
UiUnblocks == Blocked ~> ~Blocked

-----------------------------------------------------------------------------
(***************************************************************************)
(* What the documentation or a comment says and the code does not do.      *)
(***************************************************************************)
Clobbers(j) == WouldApply(j) /\ ~SawCurrent(j)

(***************************************************************************)
(* "The other client's write is never clobbered" (docs/src/concepts/       *)
(* optimistic-concurrency.md:42): a save that would be accepted now        *)
(* replaces no values but those the operator was shown or put there        *)
(* before, Overwrite apart.                                                *)
(***************************************************************************)
PutThere(a) == {m.values : m \in {n \in UNION {c.mods : c \in approved} : n.attr = a}}

OthersWritesSurvive ==
  \A i \in 1..Len(jobs) :
    /\ WouldApply(jobs[i])
    /\ jobs[i].plan.name = jobs[i].plan.dn
    /\ ~jobs[i].plan.forced
    => \A m \in jobs[i].plan.mods :
         srv[jobs[i].dn].val[m.attr] \in {jobs[i].plan.seen[m.attr]} \cup PutThere(m.attr)

(***************************************************************************)
(* "making every save (and delete) conditional on the entry still being    *)
(* the version you started from" (docs/src/concepts/                       *)
(* optimistic-concurrency.md:6): the modifications that follow a rename    *)
(* also change only what the operator was shown.                           *)
(***************************************************************************)
RenamesDoNotClobber == \A i \in 1..Len(jobs) : jobs[i].plan.name # jobs[i].plan.dn => ~Clobbers(jobs[i])

(***************************************************************************)
(* "you choose which" of the two versions wins: only a save confirmed from *)
(* the conflict dialog's Overwrite may clobber, not one pressed later on   *)
(* the form an Overwrite was cancelled on.                                 *)
(***************************************************************************)
OnlyOverwriteClobbers ==
  \A i \in 1..Len(jobs) :
    jobs[i].plan.name = jobs[i].plan.dn /\ ~jobs[i].asked => ~Clobbers(jobs[i])

(***************************************************************************)
(* "keeping our values, which now win" (force_overwrite): an Overwrite the *)
(* server serves while the entry is still at the version the dialog was    *)
(* about leaves the operator's values there.                               *)
(***************************************************************************)
Overwriting(j) == j.asked /\ j.op = "modify" /\ Exists(j.dn) /\ j.csn = srv[j.dn].csn

OverwriteWins ==
  [][LET j == Head(jobs)
     IN  WorkerModify /\ Overwriting(j)
           => \A a \in Dirty(j.plan.seen, j.plan.want) : srv'[j.dn].val[a] = j.plan.want[a]]_vars
=============================================================================
