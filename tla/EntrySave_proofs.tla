------------------------- MODULE EntrySave_proofs -------------------------
(***************************************************************************)
(* Theorems about EntrySave and the change sets it is built on, for every  *)
(* set of entries, attributes and values, every initial directory and      *)
(* every bound.                                                            *)
(***************************************************************************)
EXTENDS EntrySave, TLAPS

(***************************************************************************)
(* Change sets: their types.                                               *)
(***************************************************************************)
LEMMA EmptyType == Empty \in Content
  BY DEF Empty, Content

LEMMA DiffType ==
  ASSUME NEW base \in Content, NEW edited \in Content
  PROVE  Diff(base, edited) \in SUBSET ModOps
<1>1. \A a \in Attrs : AttrMods(a, base[a], edited[a]) \subseteq ModOps
  BY DEF AttrMods, WholeMods, PartMods, Mod, ModOps, Content
<1>2. QED
  BY <1>1 DEF Diff

LEMMA ApplyType ==
  ASSUME NEW mods \in SUBSET ModOps, NEW content \in Content
  PROVE  Apply(mods, content) \in Content
  BY DEF Apply, Removed, Added, Content

LEMMA MergeType ==
  ASSUME NEW base \in Content, NEW edited \in Content, NEW current \in Content
  PROVE  Merge(base, edited, current) \in Content
  BY DEF Merge, Content

(***************************************************************************)
(* The operations of a diff on one attribute are those of AttrMods.        *)
(***************************************************************************)
LEMMA DiffOnAttr ==
  ASSUME NEW base \in Content, NEW edited \in Content, NEW a \in Attrs, NEW m
  PROVE  m \in Diff(base, edited) /\ m.attr = a <=> m \in AttrMods(a, base[a], edited[a])
<1>1. \A b \in Attrs : \A n \in AttrMods(b, base[b], edited[b]) : n.attr = b
  BY DEF AttrMods, WholeMods, PartMods, Mod
<1>2. QED
  BY <1>1 DEF Diff

(***************************************************************************)
(* A save changes only what was edited: every operation of a change set is *)
(* on an attribute whose edited values differ from the baseline            *)
(* (changeset::diff).                                                      *)
(***************************************************************************)
THEOREM DiffTouchesOnlyEdits ==
  ASSUME NEW base \in Content, NEW edited \in Content, NEW m \in Diff(base, edited)
  PROVE  m.attr \in Dirty(base, edited)
<1>1. PICK a \in Attrs : m \in AttrMods(a, base[a], edited[a])
  BY DEF Diff
<1>2. m.attr = a
  BY <1>1 DEF AttrMods, WholeMods, PartMods, Mod
<1>3. edited[a] # base[a]
  BY <1>1 DEF AttrMods
<1>4. QED
  BY <1>2, <1>3 DEF Dirty

(***************************************************************************)
(* What the operations of one attribute do to the values they were made    *)
(* from: the server accepts them, and they leave the edited values.        *)
(***************************************************************************)
LEMMA AttrModsAccepted ==
  ASSUME NEW a \in Attrs, NEW old \in SUBSET Values, NEW new \in SUBSET Values,
         NEW m \in AttrMods(a, old, new)
  PROVE  m.attr = a /\ OpAccepted(m, old)
<1>1. CASE old = {} \/ new = {}
  BY <1>1 DEF AttrMods, WholeMods, Mod, OpAccepted
<1>2. CASE ~(old = {} \/ new = {}) /\ (a \in Ordered \/ (IsSingle(old) /\ IsSingle(new)))
  BY <1>2 DEF AttrMods, Mod, OpAccepted
<1>3. CASE ~(old = {} \/ new = {}) /\ ~(a \in Ordered \/ (IsSingle(old) /\ IsSingle(new)))
  <2>1. m \in PartMods(a, old, new)
    BY <1>3 DEF AttrMods
  <2>2. CASE m = Mod(a, "delete", old \ new)
    BY <1>3, <2>2 DEF Mod, OpAccepted
  <2>3. CASE m = Mod(a, "add", new \ old)
    BY <2>3 DEF Mod, OpAccepted
  <2>4. QED
    BY <2>1, <2>2, <2>3 DEF PartMods
<1>4. QED
  BY <1>1, <1>2, <1>3

LEMMA AttrModsResult ==
  ASSUME NEW a \in Attrs, NEW old \in SUBSET Values, NEW new \in SUBSET Values, old # new,
         NEW mods,
         \A m : m \in mods /\ m.attr = a <=> m \in AttrMods(a, old, new)
  PROVE  (old \ Removed(mods, a, old)) \cup Added(mods, a) = new
<1> DEFINE ops == AttrMods(a, old, new)
<1>1. Removed(mods, a, old) =
        {v \in old : \E m \in ops : \/ m.kind = "replace"
                                    \/ m.kind = "delete" /\ (m.values = {} \/ v \in m.values)}
  BY DEF Removed
<1>2. Added(mods, a) = {v \in Values : \E m \in ops : m.kind # "delete" /\ v \in m.values}
  BY DEF Added
<1>3. CASE new = {}
  <2>1. ops = {Mod(a, "delete", {})}
    BY <1>3 DEF AttrMods, WholeMods
  <2>2. Removed(mods, a, old) = old /\ Added(mods, a) = {}
    BY <1>1, <1>2, <2>1 DEF Mod
  <2>3. QED
    BY <1>3, <2>2
<1>4. CASE new # {} /\ old = {}
  <2>1. ops = {Mod(a, "add", new)}
    BY <1>4 DEF AttrMods, WholeMods
  <2>2. Added(mods, a) = new
    BY <1>2, <2>1 DEF Mod
  <2>3. QED
    BY <1>4, <2>2
<1>5. CASE new # {} /\ old # {} /\ (a \in Ordered \/ (IsSingle(old) /\ IsSingle(new)))
  <2>1. ops = {Mod(a, "replace", new)}
    BY <1>5 DEF AttrMods
  <2>2. Removed(mods, a, old) = old /\ Added(mods, a) = new
    BY <1>1, <1>2, <2>1 DEF Mod
  <2>3. QED
    BY <2>2
<1>6. CASE new # {} /\ old # {} /\ ~(a \in Ordered \/ (IsSingle(old) /\ IsSingle(new)))
  <2>1. ops = PartMods(a, old, new)
    BY <1>6 DEF AttrMods
  <2> DEFINE del == Mod(a, "delete", old \ new)
             add == Mod(a, "add", new \ old)
  <2>2. \A m : m \in ops <=> \/ old \ new # {} /\ m = del
                             \/ new \ old # {} /\ m = add
    BY <2>1 DEF PartMods, Mod
  <2>3. /\ del.kind = "delete" /\ del.values = old \ new
        /\ add.kind = "add" /\ add.values = new \ old
    BY DEF Mod
  <2> HIDE DEF ops, del, add
  <2>4. ASSUME NEW v \in old PROVE v \in Removed(mods, a, old) <=> v \notin new
    <3>1. v \in Removed(mods, a, old) => v \notin new
      BY <1>1, <2>2, <2>3
    <3>2. ASSUME v \notin new PROVE v \in Removed(mods, a, old)
      <4>1. del \in ops /\ v \in del.values
        BY <2>2, <2>3, <3>2
      <4>2. QED
        BY <1>1, <2>3, <4>1
    <3>3. QED
      BY <3>1, <3>2
  <2>5. ASSUME NEW v \in Values PROVE v \in Added(mods, a) <=> v \in new \ old
    <3>1. v \in Added(mods, a) => v \in new \ old
      BY <1>2, <2>2, <2>3
    <3>2. ASSUME v \in new \ old PROVE v \in Added(mods, a)
      <4>1. add \in ops /\ v \in add.values
        BY <2>2, <2>3, <3>2
      <4>2. QED
        BY <1>2, <2>3, <4>1
    <3>3. QED
      BY <3>1, <3>2
  <2>6. Removed(mods, a, old) \subseteq old /\ Added(mods, a) \subseteq Values
    BY DEF Removed, Added
  <2>7. QED
    BY <2>4, <2>5, <2>6
<1>7. QED
  BY <1>3, <1>4, <1>5, <1>6

(***************************************************************************)
(* A change set made against one version and applied to another is the     *)
(* three-way merge of the two, provided the other version agrees with the  *)
(* first on every edited attribute: the server accepts every operation,    *)
(* the edited attributes get the edited values and no other attribute      *)
(* changes.  This is what the assertion and the overlap test buy.          *)
(***************************************************************************)
THEOREM ApplyIsMerge ==
  ASSUME NEW base \in Content, NEW edited \in Content, NEW current \in Content,
         \A a \in Dirty(base, edited) : current[a] = base[a]
  PROVE  /\ Accepted(Diff(base, edited), current)
         /\ Apply(Diff(base, edited), current) = Merge(base, edited, current)
<1> DEFINE mods == Diff(base, edited)
<1>1. Accepted(mods, current)
  <2> SUFFICES ASSUME NEW m \in mods PROVE OpAccepted(m, current[m.attr])
    BY DEF Accepted
  <2>1. PICK a \in Attrs : m \in AttrMods(a, base[a], edited[a])
    BY DEF Diff
  <2>2. base[a] \in SUBSET Values /\ edited[a] \in SUBSET Values
    BY DEF Content
  <2>3. m.attr = a /\ OpAccepted(m, base[a])
    BY <2>1, <2>2, AttrModsAccepted
  <2>4. current[a] = base[a]
    BY <2>3, DiffTouchesOnlyEdits
  <2>5. QED
    BY <2>3, <2>4
<1>2. \A a \in Attrs : (current[a] \ Removed(mods, a, current[a])) \cup Added(mods, a)
                         = Merge(base, edited, current)[a]
  <2> SUFFICES ASSUME NEW a \in Attrs
               PROVE  (current[a] \ Removed(mods, a, current[a])) \cup Added(mods, a)
                        = Merge(base, edited, current)[a]
    OBVIOUS
  <2>1. base[a] \in SUBSET Values /\ edited[a] \in SUBSET Values /\ current[a] \in SUBSET Values
    BY DEF Content
  <2>2. CASE a \in Dirty(base, edited)
    <3>1. Merge(base, edited, current)[a] = edited[a]
      BY <2>2 DEF Merge
    <3>2. base[a] # edited[a] /\ current[a] = base[a]
      BY <2>2 DEF Dirty
    <3>3. \A m : m \in mods /\ m.attr = a <=> m \in AttrMods(a, base[a], edited[a])
      BY DiffOnAttr
    <3>4. (base[a] \ Removed(mods, a, base[a])) \cup Added(mods, a) = edited[a]
      <4> HIDE DEF mods
      <4>1. ASSUME NEW old \in SUBSET Values, NEW new \in SUBSET Values, old # new,
                   \A m : m \in mods /\ m.attr = a <=> m \in AttrMods(a, old, new)
            PROVE  (old \ Removed(mods, a, old)) \cup Added(mods, a) = new
        BY <4>1, AttrModsResult, Zenon
      <4>2. QED
        BY <2>1, <3>2, <3>3, <4>1, Zenon
    <3>5. QED
      BY <3>1, <3>2, <3>4
  <2>3. CASE a \notin Dirty(base, edited)
    <3>1. \A m \in mods : m.attr # a
      BY <2>3, DiffTouchesOnlyEdits
    <3>2. Removed(mods, a, current[a]) = {} /\ Added(mods, a) = {}
      BY <3>1 DEF Removed, Added
    <3>3. Merge(base, edited, current)[a] = current[a]
      BY <2>3 DEF Merge
    <3>4. QED
      BY <3>2, <3>3
  <2>4. QED
    BY <2>2, <2>3
<1>3. QED
  BY <1>1, <1>2 DEF Apply, Merge

(***************************************************************************)
(* The round trip: the diff of an edit against the values it was read      *)
(* with, applied to those values, gives exactly the edited entry.          *)
(***************************************************************************)
THEOREM DiffRoundTrip ==
  ASSUME NEW base \in Content, NEW edited \in Content
  PROVE  /\ Accepted(Diff(base, edited), base)
         /\ Apply(Diff(base, edited), base) = edited
<1>1. Apply(Diff(base, edited), base) = Merge(base, edited, base)
  BY ApplyIsMerge
<1>2. Merge(base, edited, base) = edited
  BY DEF Merge, Dirty, Content
<1>3. QED
  BY <1>1, <1>2, ApplyIsMerge

(***************************************************************************)
(* A silent rebase (rebase_baselines) onto a version that changed none of  *)
(* the edited attributes keeps the change the operator confirmed: the      *)
(* rebased form's change set is the same one.                              *)
(***************************************************************************)
THEOREM RebaseKeepsTheChange ==
  ASSUME NEW base \in Content, NEW edited \in Content, NEW current \in Content,
         \A a \in Dirty(base, edited) : current[a] = base[a]
  PROVE  Diff(current, Merge(base, edited, current)) = Diff(base, edited)
<1>1. ASSUME NEW a \in Attrs
      PROVE  \/ /\ a \in Dirty(base, edited) /\ current[a] = base[a]
                /\ Merge(base, edited, current)[a] = edited[a]
             \/ /\ a \notin Dirty(base, edited) /\ edited[a] = base[a]
                /\ Merge(base, edited, current)[a] = current[a]
  BY DEF Merge, Dirty
<1>2. ASSUME NEW a \in Attrs
      PROVE  AttrMods(a, current[a], Merge(base, edited, current)[a])
               = AttrMods(a, base[a], edited[a])
  <2>1. CASE current[a] = base[a] /\ Merge(base, edited, current)[a] = edited[a]
    BY <2>1
  <2>2. CASE Merge(base, edited, current)[a] = current[a] /\ edited[a] = base[a]
    BY <2>2 DEF AttrMods
  <2>3. QED
    BY <1>1, <2>1, <2>2
<1>3. Diff(current, Merge(base, edited, current)) = Diff(base, edited)
  BY <1>2 DEF Diff
<1>4. Dirty(current, Merge(base, edited, current)) = Dirty(base, edited)
  BY <1>1 DEF Dirty
<1>5. QED
  BY <1>3, <1>4

-----------------------------------------------------------------------------
(***************************************************************************)
(* Types of the records the actions build.                                 *)
(***************************************************************************)
LEMMA NamesFacts == NoDN \in Names /\ DNs \subseteq Names
  BY DEF Names

LEMMA AbsentType ==
  /\ NoForm \in Form
  /\ NoPlan \in Plan
  /\ NoPrompt \in Prompt
  /\ Closed \in Dialog
  BY EmptyType, NamesFacts DEF NoForm, Form, NoPlan, Plan, NoPrompt, Prompt, Closed, Dialog

LEMMA LoadedType ==
  ASSUME NEW d \in Names, NEW c \in Nat, NEW v \in Content
  PROVE  Loaded(d, [csn |-> c, val |-> v]) \in Form
  BY DEF Loaded, Form

LEMMA PlanOfType ==
  ASSUME NEW f \in Form
  PROVE  PlanOf(f) \in Plan
<1>1. Diff(f.base, f.val) \in SUBSET ModOps
  BY DiffType DEF Form
<1>2. QED
  BY <1>1 DEF PlanOf, Plan, Form

LEMMA SaveJobType ==
  ASSUME NEW p \in Plan, NEW c \in Nat, NEW q \in BOOLEAN, NEW s \in Nat, NEW n \in Names,
         NEW k \in BOOLEAN
  PROVE  SaveJob(p, c, q, s, n, k) \in Job
  BY DEF SaveJob, Job, Plan

LEMMA ReadJobType ==
  ASSUME NEW d \in Names
  PROVE  ReadJob(d) \in Job
  BY AbsentType, NamesFacts DEF ReadJob, Job

LEMMA FollowupType ==
  ASSUME NEW j \in Job
  PROVE  FollowupJob(j) \in Job /\ RereadJob(j) \in Job
  BY DEF FollowupJob, RereadJob, Job, Plan

LEMMA RebasedType ==
  ASSUME NEW f \in Form, NEW d \in Names, NEW c \in Nat, NEW v \in Content
  PROVE  Rebased(f, d, c, v) \in Form
<1>1. Merge(f.base, f.val, v) \in Content
  BY MergeType DEF Form
<1>2. [a \in Attrs |-> IF a \in Dirty(f.base, f.val) THEN f.seen[a] ELSE v[a]] \in Content
  BY DEF Form, Content
<1>3. QED
  BY <1>1, <1>2 DEF Rebased, Form

LEMMA BaselineCsnType ==
  ASSUME NEW f \in Form
  PROVE  BaselineCsn(f) \in Nat
  BY DEF BaselineCsn, Form

(***************************************************************************)
(* do_save up to the preview.                                              *)
(***************************************************************************)
LEMMA DoSaveType ==
  ASSUME TypeOK, NEW f \in Form, NEW n \in Names, NEW q \in BOOLEAN, NEW g \in BOOLEAN,
         NEW k \in BOOLEAN, DoSave(f, n, q, g, k)
  PROVE  dialog' \in Dialog /\ guardTarget' \in Names /\ pendingNav' \in Names
<1>1. /\ Closed \in Dialog
      /\ [Closed EXCEPT !.kind = "confirm", !.nav = n, !.quit = q, !.guarded = g, !.asked = k,
                        !.plan = PlanOf(f)] \in Dialog
      /\ [Closed EXCEPT !.kind = "error", !.guarded = g] \in Dialog
  BY AbsentType, PlanOfType DEF Dialog
<1>2. dialog' \in Dialog
  BY <1>1 DEF DoSave
<1>3. guardTarget' \in Names /\ pendingNav' \in Names
  BY NamesFacts DEF DoSave, TypeOK
<1>4. QED
  BY <1>2, <1>3

LEMMA SubmitType ==
  ASSUME TypeOK, NEW j \in Job, Submit(j)
  PROVE  jobs' \in Seq(Job)
  BY DEF Submit, TypeOK

LEMMA RereadType ==
  ASSUME TypeOK, NEW d \in Names, Reread(d)
  PROVE  jobs' \in Seq(Job) /\ currentLeaf' \in Names
<1>1. ReadJob(d) \in Job
  BY ReadJobType
<1>2. QED
  BY <1>1, SubmitType DEF Reread

LEMMA ReplyType ==
  /\ <<>> \in Seq(Response)
  /\ \A r \in Response : <<r>> \in Seq(Response)
  OBVIOUS

LEMMA ReportType ==
  ASSUME TypeOK, NEW j, Report(j)
  PROVE  owed' \subseteq 1..saves
  BY DEF Report, TypeOK

(***************************************************************************)
(* The response the pump takes from the queue.                             *)
(***************************************************************************)
LEMMA PollType ==
  ASSUME TypeOK, NEW k, Polling(k), resps' = Tail(resps)
  PROVE  Head(resps) \in Response /\ resps' \in Seq(Response)
  BY DEF Polling, TypeOK

(***************************************************************************)
(* A worker's step: the job it takes and the answer it makes.              *)
(***************************************************************************)
LEMMA AnswerOfType ==
  ASSUME TypeOK, jobs # <<>>, srv' \in [DNs -> Entry], NEW d,
         NEW k \in {"entry", "ok", "conflict", "error"}
  PROVE  AnswerOf(k, d) \in Response
<1>1. Found(d) \in Entry
  BY EmptyType DEF Found, Entry
<1>2. Head(jobs) \in Job
  BY DEF TypeOK
<1>3. QED
  BY <1>1, <1>2 DEF AnswerOf, Response, Entry

LEMMA ServeType ==
  ASSUME TypeOK, jobs # <<>>
  PROVE  Head(jobs) \in Job /\ Tail(jobs) \in Seq(Job)
  BY DEF TypeOK

LEMMA AnswerType ==
  ASSUME TypeOK, jobs # <<>>, srv' \in [DNs -> Entry], NEW d,
         NEW k \in {"entry", "ok", "conflict", "error"}, Answer(k, d)
  PROVE  resps' \in Seq(Response)
<1>1. AnswerOf(k, d) \in Response
  BY AnswerOfType
<1>2. QED
  BY <1>1 DEF Answer, TypeOK

LEMMA UpdateType ==
  ASSUME NEW s \in [DNs -> Entry], NEW d, NEW e \in Entry
  PROVE  [s EXCEPT ![d] = e] \in [DNs -> Entry]
  OBVIOUS

LEMMA StoredType ==
  ASSUME TypeOK, NEW d, NEW v \in Content, Stored(d, v)
  PROVE  srv' \in [DNs -> Entry] /\ clock' \in Nat /\ others' = others /\ faults' = faults
<1> DEFINE e == [csn |-> clock + 1, val |-> v]
<1>1. e \in Entry
  BY DEF TypeOK, Entry
<1>2. srv' = [srv EXCEPT ![d] = e] /\ clock' = clock + 1 /\ UNCHANGED <<others, faults>>
  BY DEF Stored
<1> HIDE DEF e
<1>3. QED
  BY <1>1, <1>2, UpdateType DEF TypeOK

(***************************************************************************)
(* Type correctness is inductive: one step per action.                     *)
(***************************************************************************)
LEMMA TypeStep ==
  ASSUME TypeOK, [Next]_vars
  PROVE  TypeOK'
<1> USE EntrySaveAssumption, NamesFacts
<1> USE DEF dirVars, workerVars, navVars, alertVars, histVars
<1>1. ASSUME NEW a \in Attrs, NEW vs \in Writable, EditField(a, vs) PROVE TypeOK'
  <2>1. [editForm EXCEPT !.val[a] = vs, !.typed = TRUE] \in Form
    BY DEF TypeOK, Form, Content
  <2>2. QED
    BY <1>1, <2>1 DEF EditField, TypeOK
<1>2. ASSUME NEW d \in DNs, EditName(d) PROVE TypeOK'
  <2>1. [editForm EXCEPT !.name = d, !.typed = TRUE] \in Form
    BY DEF TypeOK, Form
  <2>2. QED
    BY <1>2, <2>1 DEF EditName, TypeOK
<1>3. ASSUME NEW d \in DNs, RequestLeaf(d) PROVE TypeOK'
  BY <1>3 DEF RequestLeaf, TypeOK
<1>4. CASE PressSave
  <2>1. dialog' \in Dialog /\ guardTarget' \in Names /\ pendingNav' \in Names
    BY <1>4, DoSaveType DEF PressSave, TypeOK
  <2>2. QED
    BY <1>4, <2>1 DEF PressSave, TypeOK
<1>5. CASE RequestQuit
  <2>1. [Closed EXCEPT !.kind = "quitguard"] \in Dialog
    BY AbsentType DEF Dialog
  <2>2. QED
    BY <1>5, <2>1 DEF RequestQuit, TypeOK
<1>6. CASE ConfirmSave
  <2>1. SaveJob(dialog.plan, BaselineCsn(editForm), dialog.quit, saves + 1, dialog.nav,
                dialog.asked) \in Job
    <3>1. /\ dialog.plan \in Plan /\ dialog.quit \in BOOLEAN /\ saves + 1 \in Nat
          /\ dialog.nav \in Names /\ dialog.asked \in BOOLEAN /\ editForm \in Form
      BY DEF TypeOK, Dialog
    <3>2. QED
      BY <3>1, SaveJobType, BaselineCsnType
  <2>2. [editForm EXCEPT !.typed = FALSE] \in Form
    BY DEF TypeOK, Form
  <2>3. Preview(dialog.plan) \in [dn : Names, name : Names, mods : SUBSET ModOps]
    BY DEF Preview, TypeOK, Dialog, Plan
  <2>4. jobs' \in Seq(Job)
    BY <1>6, <2>1 DEF ConfirmSave, Submit, TypeOK
  <2>5. saves' \in Nat /\ owed' \subseteq 1..saves'
    BY <1>6 DEF ConfirmSave, TypeOK
  <2>6. pendingNav' \in Names /\ dialog' \in Dialog
    BY <1>6, AbsentType DEF ConfirmSave, TypeOK, Dialog
  <2>7. QED
    BY <1>6, <2>2, <2>3, <2>4, <2>5, <2>6 DEF ConfirmSave, TypeOK
<1>7. CASE Dismiss
  BY <1>7, AbsentType DEF Dismiss, TypeOK
<1>8. CASE GuardSave
  <2>1. dialog' \in Dialog /\ guardTarget' \in Names /\ pendingNav' \in Names
    BY <1>8, DoSaveType DEF GuardSave, TypeOK, Dialog
  <2>2. QED
    BY <1>8, <2>1 DEF GuardSave, TypeOK
<1>9. CASE GuardDiscard
  <2>1. Discarded(editForm) \in Form
    BY DEF Discarded, TypeOK, Form
  <2>2. jobs' \in Seq(Job) /\ currentLeaf' \in Names
    <3>1. dialog.nav \in Names /\ jobs \in Seq(Job) /\ currentLeaf \in Names
      BY DEF TypeOK, Dialog
    <3>2. CASE Reread(dialog.nav)
      BY <3>1, <3>2, RereadType
    <3>3. CASE UNCHANGED <<jobs, currentLeaf>>
      BY <3>1, <3>3
    <3>4. QED
      BY <1>9, <3>2, <3>3 DEF GuardDiscard
  <2>3. QED
    BY <1>9, <2>1, <2>2, AbsentType DEF GuardDiscard, TypeOK
<1>10. CASE GuardStay
  BY <1>10, AbsentType DEF GuardStay, TypeOK
<1>11. CASE QuitSave
  <2>1. dialog' \in Dialog /\ guardTarget' \in Names /\ pendingNav' \in Names
    BY <1>11, DoSaveType DEF QuitSave, TypeOK
  <2>2. QED
    BY <1>11, <2>1 DEF QuitSave, TypeOK
<1>12. CASE QuitDiscard
  BY <1>12, AbsentType DEF QuitDiscard, TypeOK
<1>13. CASE QuitStay
  BY <1>13, AbsentType DEF QuitStay, TypeOK
<1>14. CASE ConflictOverwrite
  <2> DEFINE f == IF IsOpen(editForm) THEN [editForm EXCEPT !.csn = dialog.csn, !.forced = TRUE]
                                      ELSE editForm
  <2>1. f \in Form
    BY DEF TypeOK, Form, Dialog
  <2>2. editForm' = f /\ DoSave(f, NoDN, dialog.quit, FALSE, TRUE)
    BY <1>14 DEF ConflictOverwrite
  <2> HIDE DEF f
  <2>3. dialog' \in Dialog /\ guardTarget' \in Names /\ pendingNav' \in Names
    <3>1. dialog.quit \in BOOLEAN
      BY DEF TypeOK, Dialog
    <3>2. QED
      BY <2>1, <2>2, <3>1, NamesFacts, DoSaveType
  <2>4. QED
    BY <1>14, <2>1, <2>2, <2>3 DEF ConflictOverwrite, TypeOK
<1>15. CASE ConflictReload
  <2>1. jobs' \in Seq(Job) /\ currentLeaf' \in Names
    <3>1. dialog.dn \in Names
      BY DEF TypeOK, Dialog
    <3>2. QED
      BY <1>15, <3>1, RereadType DEF ConflictReload
  <2>2. QED
    BY <1>15, <2>1, AbsentType DEF ConflictReload, TypeOK
<1>16. CASE ConflictKeep
  BY <1>16, AbsentType DEF ConflictKeep, TypeOK
<1>17. CASE PumpEntry
  <2>1. Head(resps) \in Response /\ resps' \in Seq(Response)
    BY <1>17 DEF PumpEntry, Polling, TypeOK
  <2>2. editForm' \in Form
    BY <1>17, <2>1, LoadedType DEF PumpEntry, Response, Job
  <2>3. QED
    BY <1>17, <2>1, <2>2 DEF PumpEntry, TypeOK
<1>18. CASE PumpReadError
  BY <1>18 DEF PumpReadError, Polling, TypeOK
<1>19. CASE PumpRenamed
  <2>1. Head(resps) \in Response /\ resps' \in Seq(Response)
    BY <1>19 DEF PumpRenamed, Polling, TypeOK
  <2>2. jobs' \in Seq(Job)
    BY <1>19, <2>1, FollowupType DEF PumpRenamed, Submit, Response, TypeOK
  <2>3. QED
    BY <1>19, <2>1, <2>2 DEF PumpRenamed, TypeOK
<1>20. CASE PumpSaved
  <2>1. Head(resps) \in Response /\ resps' \in Seq(Response)
    BY <1>20 DEF PumpSaved, Polling, TypeOK
  <2>2. NextLeaf(Head(resps).job) \in Names
    BY <2>1 DEF NextLeaf, SavedDN, TypeOK, Response, Job, Plan
  <2>3. jobs' \in Seq(Job) /\ currentLeaf' \in Names /\ pendingNav' \in Names
    <3>1. CASE Head(resps).job.quit
      BY <1>20, <3>1 DEF PumpSaved, TypeOK
    <3>2. CASE ~Head(resps).job.quit
      <4>1. Reread(NextLeaf(Head(resps).job)) /\ pendingNav' = NoDN
        BY <1>20, <3>2 DEF PumpSaved
      <4>2. QED
        BY <2>2, <4>1, NamesFacts, RereadType
    <3>3. QED
      BY <3>1, <3>2
  <2>4. posted' \subseteq {"GUARD_NAV", "SHOW_ERROR", "QUIT"} /\ owed' \subseteq 1..saves
    BY <1>20 DEF PumpSaved, Report, TypeOK
  <2>5. QED
    BY <1>20, <2>1, <2>3, <2>4 DEF PumpSaved, TypeOK
<1>21. CASE PumpWriteError
  <2>1. resps' \in Seq(Response)
    BY <1>21 DEF PumpWriteError, Polling, TypeOK
  <2>2. QED
    BY <1>21, <2>1 DEF PumpWriteError, Report, TypeOK
<1>22. CASE PumpConflict
  <2>1. Head(resps) \in Response /\ resps' \in Seq(Response)
    BY <1>22 DEF PumpConflict, Polling, TypeOK
  <2>2. jobs' \in Seq(Job)
    BY <1>22, <2>1, FollowupType DEF PumpConflict, Submit, Response, TypeOK
  <2>3. QED
    BY <1>22, <2>1, <2>2 DEF PumpConflict, TypeOK
<1>23. CASE RereadFailed
  <2>1. reply' \in Seq(Response) /\ owed' \subseteq 1..saves
    BY <1>23, ReplyType, ReportType DEF RereadFailed
  <2>2. posted' \subseteq {"GUARD_NAV", "SHOW_ERROR", "QUIT"} /\ lastError' \in BOOLEAN
    BY <1>23 DEF RereadFailed, TypeOK
  <2>3. QED
    BY <1>23, <2>1, <2>2 DEF RereadFailed, TypeOK
<1>24. CASE ResolveByAsking
  <2>1. Head(reply) \in Response
    BY <1>24 DEF ResolveByAsking, TypeOK
  <2>2. lastConflict' \in Prompt
    BY <1>24, <2>1 DEF ResolveByAsking, Prompt, Response, Job
  <2>3. reply' \in Seq(Response) /\ owed' \subseteq 1..saves
    BY <1>24, ReplyType, ReportType DEF ResolveByAsking
  <2>4. posted' \subseteq {"GUARD_NAV", "SHOW_ERROR", "QUIT"}
    BY <1>24 DEF ResolveByAsking, TypeOK
  <2>5. QED
    BY <1>24, <2>2, <2>3, <2>4 DEF ResolveByAsking, TypeOK
<1>25. CASE ResolveByRebasing
  <2> DEFINE r == Head(reply)
             f == Rebased(editForm, r.job.dn, r.csn, r.val)
  <2>1. r \in Response
    BY <1>25 DEF ResolveByRebasing, TypeOK
  <2>2. f \in Form
    BY <2>1, RebasedType DEF TypeOK, Response, Job
  <2>3. SaveJob(PlanOf(f), BaselineCsn(f), r.job.quit, r.job.save, r.job.nav, FALSE) \in Job
    <3>1. r.job.quit \in BOOLEAN /\ r.job.save \in Nat /\ r.job.nav \in Names
      BY <2>1 DEF Response, Job
    <3> HIDE DEF f, r
    <3>2. PlanOf(f) \in Plan /\ BaselineCsn(f) \in Nat
      BY <2>2, PlanOfType, BaselineCsnType
    <3>3. QED
      BY <3>1, <3>2, SaveJobType
  <2> DEFINE k == SaveJob(PlanOf(f), BaselineCsn(f), r.job.quit, r.job.save, r.job.nav, FALSE)
  <2>4. /\ editForm' = f
        /\ Submit(k) \/ jobs' = jobs
        /\ reply' = <<>>
        /\ UNCHANGED <<dirVars, resps, navVars, alertVars, dialog, done, histVars>>
    BY <1>25 DEF ResolveByRebasing
  <2> HIDE DEF f, k, r
  <2>5. jobs' \in Seq(Job)
    <3>1. jobs \in Seq(Job)
      BY DEF TypeOK
    <3>2. k \in Job
      BY <2>3 DEF k
    <3>3. QED
      BY <2>4, <3>1, <3>2, SubmitType
  <2>6. QED
    BY <2>2, <2>4, <2>5 DEF TypeOK
<1>26. CASE ReconcileSelection
  <2>1. jobs' \in Seq(Job) /\ currentLeaf' \in Names
    <3>1. jobs \in Seq(Job) /\ currentLeaf \in Names /\ requestedLeaf \in Names
      BY DEF TypeOK
    <3>2. CASE Reread(requestedLeaf)
      BY <3>1, <3>2, RereadType
    <3>3. CASE UNCHANGED <<jobs, currentLeaf>>
      BY <3>1, <3>3
    <3>4. QED
      BY <1>26, <3>2, <3>3 DEF ReconcileSelection
  <2>2. guardTarget' \in Names /\ posted' \subseteq {"GUARD_NAV", "SHOW_ERROR", "QUIT"}
    BY <1>26 DEF ReconcileSelection, TypeOK
  <2>3. QED
    BY <1>26, <2>1, <2>2 DEF ReconcileSelection, TypeOK
<1>27. CASE RunGuard
  <2>1. [Closed EXCEPT !.kind = "guard", !.nav = guardTarget] \in Dialog
    BY AbsentType DEF Dialog, TypeOK
  <2>2. QED
    BY <1>27, <2>1 DEF RunGuard, TypeOK
<1>28. CASE ShowConflict
  <2>1. dialog' \in Dialog
    BY <1>28, AbsentType DEF ShowConflict, Dialog, TypeOK, Prompt
  <2>2. QED
    BY <1>28, <2>1, AbsentType DEF ShowConflict, TypeOK
<1>29. CASE ShowError
  <2>1. dialog' \in Dialog
    BY <1>29, AbsentType DEF ShowError, Dialog
  <2>2. QED
    BY <1>29, <2>1 DEF ShowError, TypeOK
<1>30. CASE Quit
  BY <1>30 DEF Quit, TypeOK

<1>31. CASE WorkerRead
  <2>1. jobs' \in Seq(Job) /\ resps' \in Seq(Response)
    BY <1>31, ServeType, AnswerOfType DEF WorkerRead, Serving, Served, Answer, Unwritten, TypeOK
  <2>2. QED
    BY <1>31, <2>1 DEF WorkerRead, Served, Unwritten, TypeOK
<1>32. CASE WorkerReread
  <2>1. jobs' \in Seq(Job) /\ reply' \in Seq(Response)
    BY <1>32, ServeType, AnswerOfType DEF WorkerReread, Serving, Served, Unwritten, TypeOK
  <2>2. QED
    BY <1>32, <2>1 DEF WorkerReread, Served, Unwritten, TypeOK
<1>33. CASE WorkerModify
  <2> DEFINE j == Head(jobs)
  <2>1. j \in Job /\ Tail(jobs) \in Seq(Job)
    BY <1>33, ServeType DEF WorkerModify, Serving
  <2>2. srv' \in [DNs -> Entry] /\ clock' \in Nat /\ others' = others /\ faults' = faults
    <3>1. CASE ModifyVerdict(j) = "ok"
      <4>1. Stored(j.dn, Apply(j.plan.mods, srv[j.dn].val)) /\ Exists(j.dn)
        BY <1>33, <3>1 DEF WorkerModify, ModifyVerdict
      <4>2. Apply(j.plan.mods, srv[j.dn].val) \in Content
        BY <2>1, <4>1, ApplyType DEF Exists, TypeOK, Entry, Job, Plan
      <4>3. QED
        BY <4>1, <4>2, StoredType
    <3>2. CASE ModifyVerdict(j) # "ok"
      BY <1>33, <3>2 DEF WorkerModify, Unwritten, TypeOK
    <3>3. QED
      BY <3>1, <3>2
  <2>3. ModifyVerdict(j) \in {"entry", "ok", "conflict", "error"}
    BY DEF ModifyVerdict
  <2>4. resps' \in Seq(Response)
    BY <1>33, <2>2, <2>3, AnswerType DEF WorkerModify, Serving
  <2>5. QED
    BY <1>33, <2>1, <2>2, <2>4 DEF WorkerModify, Served, TypeOK
<1>34. CASE WorkerModrdn
  <2> DEFINE j == Head(jobs)
             ok == Exists(j.dn) /\ ~Exists(j.plan.name)
  <2>1. j \in Job /\ Tail(jobs) \in Seq(Job)
    BY <1>34, ServeType DEF WorkerModrdn, Serving
  <2>2. srv' \in [DNs -> Entry] /\ clock' \in Nat /\ others' = others /\ faults' = faults
    <3>1. CASE ok
      <4>1. srv[j.dn] \in Entry
        BY <3>1 DEF Exists, TypeOK
      <4>2. /\ [csn |-> 0, val |-> Empty] \in Entry
            /\ [csn |-> clock + 1, val |-> srv[j.dn].val] \in Entry
        BY <4>1, EmptyType DEF Entry, TypeOK
      <4> DEFINE gone == [csn |-> 0, val |-> Empty]
                 moved == [csn |-> clock + 1, val |-> srv[j.dn].val]
                 half == [srv EXCEPT ![j.dn] = gone]
      <4>3. srv' = [half EXCEPT ![j.plan.name] = moved] /\ clock' = clock + 1
            /\ UNCHANGED <<others, faults>>
        BY <1>34, <3>1 DEF WorkerModrdn
      <4>4. half \in [DNs -> Entry]
        BY <4>2, UpdateType DEF TypeOK
      <4> HIDE DEF gone, moved, half
      <4>5. [half EXCEPT ![j.plan.name] = moved] \in [DNs -> Entry]
        BY <4>2, <4>4, UpdateType DEF moved
      <4>6. QED
        BY <4>3, <4>5 DEF TypeOK
    <3>2. CASE ~ok
      BY <1>34, <3>2 DEF WorkerModrdn, Unwritten, TypeOK
    <3>3. QED
      BY <3>1, <3>2
  <2>3. (IF ok THEN "ok" ELSE "error") \in {"entry", "ok", "conflict", "error"}
    OBVIOUS
  <2>4. resps' \in Seq(Response)
    BY <1>34, <2>2, <2>3, AnswerType DEF WorkerModrdn, Serving
  <2>5. QED
    BY <1>34, <2>1, <2>2, <2>4 DEF WorkerModrdn, Served, TypeOK
<1>35. CASE WorkerFault
  <2> DEFINE j == Head(jobs)
  <2>1. j \in Job /\ Tail(jobs) \in Seq(Job)
    BY <1>35, ServeType DEF WorkerFault
  <2>2. srv' \in [DNs -> Entry] /\ clock' \in Nat
    <3>1. CASE UNCHANGED <<srv, clock>>
      BY <3>1 DEF TypeOK
    <3>2. ASSUME ModifyVerdict(j) = "ok",
                 srv' = [srv EXCEPT ![j.dn] = [csn |-> clock + 1,
                                              val |-> Apply(j.plan.mods, srv[j.dn].val)]],
                 clock' = clock + 1
          PROVE  srv' \in [DNs -> Entry] /\ clock' \in Nat
      <4>1. Exists(j.dn)
        BY <3>2 DEF ModifyVerdict
      <4>2. Apply(j.plan.mods, srv[j.dn].val) \in Content
        BY <2>1, <4>1, ApplyType DEF Exists, TypeOK, Entry, Job, Plan
      <4>3. [csn |-> clock + 1, val |-> Apply(j.plan.mods, srv[j.dn].val)] \in Entry
        BY <4>2 DEF Entry, TypeOK
      <4>4. srv' \in [DNs -> Entry]
        BY <3>2, <4>3, UpdateType DEF TypeOK
      <4>5. QED
        BY <3>2, <4>4 DEF TypeOK
    <3> DEFINE gone == [csn |-> 0, val |-> Empty]
               moved == [csn |-> clock + 1, val |-> srv[j.dn].val]
               half == [srv EXCEPT ![j.dn] = gone]
    <3>3. ASSUME Exists(j.dn), srv' = [half EXCEPT ![j.plan.name] = moved], clock' = clock + 1
          PROVE  srv' \in [DNs -> Entry] /\ clock' \in Nat
      <4>1. gone \in Entry /\ moved \in Entry
        BY <3>3, EmptyType DEF Exists, TypeOK, Entry
      <4>2. half \in [DNs -> Entry]
        BY <4>1, UpdateType DEF TypeOK
      <4> HIDE DEF gone, moved, half
      <4>3. [half EXCEPT ![j.plan.name] = moved] \in [DNs -> Entry]
        BY <4>1, <4>2, UpdateType
      <4>4. QED
        BY <3>3, <4>3 DEF TypeOK
    <3>4. QED
      BY <1>35, <3>1, <3>2, <3>3 DEF WorkerFault
  <2>3. resps' \in Seq(Response)
    BY <1>35, <2>2, AnswerType DEF WorkerFault
  <2>4. faults' = faults + 1 /\ others' = others /\ reply' = reply /\ Served
    BY <1>35 DEF WorkerFault
  <2>5. QED
    BY <2>1, <2>2, <2>3, <2>4 DEF Served, TypeOK
<1>36. CASE WorkerRereadFault
  <2>1. Head(jobs) \in Job /\ Tail(jobs) \in Seq(Job)
    BY <1>36, ServeType DEF WorkerRereadFault, Serving
  <2>2. [kind |-> "error", job |-> Head(jobs), csn |-> 0, val |-> Empty] \in Response
    BY <2>1, EmptyType DEF Response
  <2>3. reply' \in Seq(Response)
    BY <1>36, <2>2, ReplyType DEF WorkerRereadFault
  <2>4. QED
    BY <1>36, <2>1, <2>3 DEF WorkerRereadFault, Served, TypeOK
<1>37. ASSUME NEW d \in DNs, NEW a \in Attrs, NEW vs \in Writable, OtherWrite(d, a, vs)
       PROVE  TypeOK'
  <2>1. [srv[d].val EXCEPT ![a] = vs] \in Content
    BY DEF TypeOK, Entry, Content
  <2>2. [csn |-> clock + 1, val |-> [srv[d].val EXCEPT ![a] = vs]] \in Entry
    BY <2>1 DEF TypeOK, Entry
  <2>3. srv' \in [DNs -> Entry] /\ clock' \in Nat /\ others' \in Nat
    BY <1>37, <2>2 DEF OtherWrite, TypeOK
  <2>4. QED
    BY <1>37, <2>3 DEF OtherWrite, TypeOK
<1>38. ASSUME NEW d \in DNs, OtherDelete(d) PROVE TypeOK'
  <2>1. [csn |-> 0, val |-> Empty] \in Entry
    BY EmptyType DEF Entry
  <2>2. srv' \in [DNs -> Entry] /\ others' \in Nat
    BY <1>38, <2>1 DEF OtherDelete, TypeOK
  <2>3. QED
    BY <1>38, <2>2 DEF OtherDelete, TypeOK
<1>39. CASE UNCHANGED vars
  BY <1>39 DEF vars, TypeOK
<1>40. QED
  BY <1>1, <1>2, <1>3, <1>4, <1>5, <1>6, <1>7, <1>8, <1>9, <1>10, <1>11, <1>12, <1>13, <1>14,
     <1>15, <1>16, <1>17, <1>18, <1>19, <1>20, <1>21, <1>22, <1>23, <1>24, <1>25, <1>26, <1>27,
     <1>28, <1>29, <1>30, <1>31, <1>32, <1>33, <1>34, <1>35, <1>36, <1>37, <1>38, <1>39
     DEF Next, Operator, Pump, Dispatch, Worker, Others

LEMMA TypeInit == Init => TypeOK
<1> SUFFICES ASSUME Init PROVE TypeOK
  OBVIOUS
<1>1. srv \in [DNs -> Entry]
  BY EntrySaveAssumption, EmptyType DEF Init, Entry
<1>2. /\ jobs \in Seq(Job) /\ resps \in Seq(Response) /\ reply \in Seq(Response)
      /\ editForm \in Form /\ lastConflict \in Prompt /\ dialog \in Dialog
  BY AbsentType DEF Init
<1>3. clock \in Nat
  BY EntrySaveAssumption DEF Init
<1>4. QED
  BY <1>1, <1>2, <1>3, NamesFacts DEF Init, TypeOK

(***************************************************************************)
(* Every reachable state is well typed: no request, response, form or      *)
(* dialog is built from a missing entry, and the bounds on numbers of      *)
(* saves and CSNs are respected.                                           *)
(***************************************************************************)
THEOREM TypeCorrect == Spec => []TypeOK
<1>1. Init => TypeOK
  BY TypeInit
<1>2. TypeOK /\ [Next]_vars => TypeOK'
  BY TypeStep
<1>3. QED
  BY <1>1, <1>2, PTL DEF Spec

-----------------------------------------------------------------------------
(***************************************************************************)
(* Versions.  A step of the directory leaves an entry as it is, removes    *)
(* it, or writes one entry under a CSN never issued before.                *)
(***************************************************************************)
DirStep ==
  /\ clock' \in {clock, clock + 1}
  /\ \A d \in DNs : \/ srv'[d] = srv[d]
                    \/ srv'[d].csn = 0
                    \/ clock' = clock + 1 /\ srv'[d].csn = clock + 1
  /\ \A d, e \in DNs : srv'[d].csn = clock + 1 /\ srv'[e].csn = clock + 1 => d = e

LEMMA DirUnchanged ==
  ASSUME TypeOK, VersionsDiffer, UNCHANGED <<srv, clock>>
  PROVE  DirStep
<1>1. \A d \in DNs : srv[d].csn \in Nat /\ srv[d].csn <= clock
  BY DEF TypeOK, Entry, VersionsDiffer
<1>2. clock \in Nat
  BY DEF TypeOK
<1>3. QED
  BY <1>1, <1>2 DEF DirStep

LEMMA DirWritten ==
  ASSUME TypeOK, VersionsDiffer, NEW d \in DNs, NEW v,
         srv' = [srv EXCEPT ![d] = [csn |-> clock + 1, val |-> v]], clock' = clock + 1
  PROVE  DirStep
<1>1. \A e \in DNs : srv[e].csn \in Nat /\ srv[e].csn <= clock
  BY DEF TypeOK, Entry, VersionsDiffer
<1>2. clock \in Nat /\ srv \in [DNs -> Entry]
  BY DEF TypeOK
<1>3. srv'[d].csn = clock + 1 /\ \A e \in DNs : e # d => srv'[e] = srv[e]
  BY <1>2
<1>4. QED
  BY <1>1, <1>2, <1>3 DEF DirStep

LEMMA DirDeleted ==
  ASSUME TypeOK, VersionsDiffer, NEW d \in DNs,
         srv' = [srv EXCEPT ![d] = [csn |-> 0, val |-> Empty]], UNCHANGED clock
  PROVE  DirStep
<1>1. \A e \in DNs : srv[e].csn \in Nat /\ srv[e].csn <= clock
  BY DEF TypeOK, Entry, VersionsDiffer
<1>2. clock \in Nat /\ srv \in [DNs -> Entry]
  BY DEF TypeOK
<1>3. srv'[d].csn = 0 /\ \A e \in DNs : e # d => srv'[e] = srv[e]
  BY <1>2
<1>4. QED
  BY <1>1, <1>2, <1>3 DEF DirStep

LEMMA DirRenamed ==
  ASSUME TypeOK, VersionsDiffer, NEW d \in DNs, NEW n, n # d,
         srv' = [srv EXCEPT ![d] = [csn |-> 0, val |-> Empty],
                            ![n] = [csn |-> clock + 1, val |-> srv[d].val]],
         clock' = clock + 1
  PROVE  DirStep
<1>1. \A e \in DNs : srv[e].csn \in Nat /\ srv[e].csn <= clock
  BY DEF TypeOK, Entry, VersionsDiffer
<1>2. clock \in Nat /\ srv \in [DNs -> Entry]
  BY DEF TypeOK
<1>3. /\ srv'[d].csn = 0
      /\ n \in DNs => srv'[n].csn = clock + 1
      /\ \A e \in DNs : e # d /\ e # n => srv'[e] = srv[e]
  BY <1>2
<1>4. QED
  BY <1>1, <1>2, <1>3 DEF DirStep

(***************************************************************************)
(* What such a step preserves.                                             *)
(***************************************************************************)
LEMMA VersionsStep ==
  ASSUME TypeOK, TypeOK', VersionsDiffer, DirStep
  PROVE  VersionsDiffer'
<1>1. /\ clock \in Nat /\ clock' \in Nat
      /\ \A d \in DNs : srv[d].csn \in Nat /\ srv'[d].csn \in Nat
  BY DEF TypeOK, Entry
<1>2. \A d \in DNs : srv'[d].csn <= clock'
  BY <1>1 DEF DirStep, VersionsDiffer
<1>3. ASSUME NEW d \in DNs, NEW e \in DNs, srv'[d].csn = srv'[e].csn, srv'[d].csn # 0
      PROVE  d = e
  BY <1>1, <1>3 DEF DirStep, VersionsDiffer
<1>4. QED
  BY <1>2, <1>3 DEF VersionsDiffer

\* Faithful after the step, of a copy made before it or in it
FaithfulNext(csn, val) ==
  /\ csn <= clock'
  /\ \A d \in DNs : srv'[d].csn = csn /\ csn # 0 => srv'[d].val = val

LEMMA FaithfulStep ==
  ASSUME TypeOK, TypeOK', DirStep, NEW c \in Nat, NEW v, Faithful(c, v)
  PROVE  FaithfulNext(c, v)
<1>1. /\ clock \in Nat /\ clock' \in Nat
      /\ \A d \in DNs : srv[d].csn \in Nat /\ srv'[d].csn \in Nat
  BY DEF TypeOK, Entry
<1>2. QED
  BY <1>1 DEF DirStep, Faithful, FaithfulNext

LEMMA AnswersStep ==
  ASSUME TypeOK, TypeOK', DirStep, NEW s \in Seq(Response), FaithfulAnswers(s)
  PROVE  \A i \in 1..Len(s) : s[i].kind = "entry" => FaithfulNext(s[i].csn, s[i].val)
<1> SUFFICES ASSUME NEW i \in 1..Len(s), s[i].kind = "entry"
             PROVE  FaithfulNext(s[i].csn, s[i].val)
  OBVIOUS
<1>1. Faithful(s[i].csn, s[i].val)
  BY DEF FaithfulAnswers
<1>2. s[i] \in Response
  OBVIOUS
<1>3. s[i].csn \in Nat
  BY <1>2 DEF Response
<1>4. QED
  BY <1>1, <1>3, FaithfulStep

\* what the server answers about an entry is that entry's version
LEMMA FoundFaithful ==
  ASSUME TypeOK', VersionsDiffer', NEW d
  PROVE  FaithfulNext(Found(d).csn, Found(d).val)
<1>1. clock' \in Nat
  BY DEF TypeOK
<1>2. CASE d \in DNs
  <2>1. Found(d) = srv'[d] /\ srv'[d].csn <= clock'
    BY <1>2 DEF Found, VersionsDiffer
  <2>2. \A e \in DNs : srv'[e].csn = srv'[d].csn /\ srv'[d].csn # 0 => e = d
    BY <1>2 DEF VersionsDiffer
  <2>3. QED
    BY <2>1, <2>2 DEF FaithfulNext
<1>3. CASE d \notin DNs
  BY <1>1, <1>3 DEF Found, FaithfulNext
<1>4. QED
  BY <1>2, <1>3

(***************************************************************************)
(* Every step is a step of the directory in that sense.                    *)
(***************************************************************************)
LEMMA NextDirStep ==
  ASSUME TypeOK, VersionsDiffer, [Next]_vars
  PROVE  DirStep
<1> USE DEF dirVars
<1>1. CASE WorkerModify
  <2> DEFINE j == Head(jobs)
  <2>1. CASE ModifyVerdict(j) = "ok"
    <3>1. j.dn \in DNs
      BY <2>1 DEF ModifyVerdict, Exists
    <3>2. QED
      BY <1>1, <2>1, <3>1, DirWritten DEF WorkerModify, Stored
  <2>2. CASE ModifyVerdict(j) # "ok"
    BY <1>1, <2>2, DirUnchanged DEF WorkerModify, Unwritten
  <2>3. QED
    BY <2>1, <2>2
<1>2. CASE WorkerModrdn
  <2> DEFINE j == Head(jobs)
             ok == Exists(j.dn) /\ ~Exists(j.plan.name)
  <2>1. CASE ok
    <3>1. j.dn \in DNs /\ j.plan.name # j.dn
      BY <2>1 DEF Exists
    <3>2. QED
      BY <1>2, <2>1, <3>1, DirRenamed DEF WorkerModrdn
  <2>2. CASE ~ok
    BY <1>2, <2>2, DirUnchanged DEF WorkerModrdn, Unwritten
  <2>3. QED
    BY <2>1, <2>2
<1>3. CASE WorkerFault
  <2> DEFINE j == Head(jobs)
             val == Apply(j.plan.mods, srv[j.dn].val)
  <2>1. CASE UNCHANGED <<srv, clock>>
    BY <2>1, DirUnchanged
  <2>2. ASSUME ModifyVerdict(j) = "ok",
               srv' = [srv EXCEPT ![j.dn] = [csn |-> clock + 1, val |-> val]],
               clock' = clock + 1
        PROVE  DirStep
    <3>1. j.dn \in DNs
      BY <2>2 DEF ModifyVerdict, Exists
    <3>2. QED
      BY <2>2, <3>1, DirWritten
  <2>3. ASSUME Exists(j.dn), ~Exists(j.plan.name),
               srv' = [srv EXCEPT ![j.dn] = [csn |-> 0, val |-> Empty],
                                  ![j.plan.name] = [csn |-> clock + 1, val |-> srv[j.dn].val]],
               clock' = clock + 1
        PROVE  DirStep
    <3>1. j.dn \in DNs /\ j.plan.name # j.dn
      BY <2>3 DEF Exists
    <3>2. QED
      BY <2>3, <3>1, DirRenamed
  <2>4. QED
    BY <1>3, <2>1, <2>2, <2>3 DEF WorkerFault
<1>4. ASSUME NEW d \in DNs, NEW a \in Attrs, NEW vs \in Writable, OtherWrite(d, a, vs)
      PROVE  DirStep
  BY <1>4, DirWritten DEF OtherWrite
<1>5. ASSUME NEW d \in DNs, OtherDelete(d) PROVE DirStep
  BY <1>5, DirDeleted DEF OtherDelete
<1>6. CASE Operator \/ Pump \/ ReconcileSelection \/ Dispatch
  <2>1. UNCHANGED <<srv, clock>>
    BY <1>6 DEF Operator, EditField, EditName, RequestLeaf, PressSave, RequestQuit, ConfirmSave,
                Dismiss, GuardSave, GuardDiscard, GuardStay, QuitSave, QuitDiscard, QuitStay,
                ConflictOverwrite, ConflictReload, ConflictKeep, Pump, PumpEntry, PumpReadError,
                PumpRenamed, PumpSaved, PumpWriteError, PumpConflict, RereadFailed,
                ResolveByAsking, ResolveByRebasing, ReconcileSelection, Dispatch, RunGuard,
                ShowConflict, ShowError, Quit
  <2>2. QED
    BY <2>1, DirUnchanged
<1>7. CASE WorkerRead \/ WorkerReread \/ WorkerRereadFault
  BY <1>7, DirUnchanged DEF WorkerRead, WorkerReread, WorkerRereadFault, Unwritten
<1>8. CASE UNCHANGED vars
  BY <1>8, DirUnchanged DEF vars
<1>9. QED
  BY <1>1, <1>2, <1>3, <1>4, <1>5, <1>6, <1>7, <1>8 DEF Next, Worker, Others

(***************************************************************************)
(* The copies.                                                             *)
(***************************************************************************)
LEMMA AnswersTaken ==
  ASSUME TypeOK, TypeOK', DirStep, resps # <<>>, resps' = Tail(resps), FaithfulAnswers(resps)
  PROVE  FaithfulAnswers(resps)'
<1>1. resps \in Seq(Response)
  BY DEF TypeOK
<1>2. /\ Len(resps') = Len(resps) - 1
      /\ \A i \in 1..Len(resps') : i + 1 \in 1..Len(resps) /\ resps'[i] = resps[i + 1]
  BY <1>1
<1>3. \A i \in 1..Len(resps) : resps[i].kind = "entry" => FaithfulNext(resps[i].csn, resps[i].val)
  BY <1>1, AnswersStep
<1>4. QED
  BY <1>2, <1>3 DEF FaithfulAnswers, Faithful, FaithfulNext

LEMMA AnswersKept ==
  ASSUME TypeOK, TypeOK', DirStep, resps' = resps, FaithfulAnswers(resps)
  PROVE  FaithfulAnswers(resps)'
<1>1. \A i \in 1..Len(resps) : resps[i].kind = "entry" => FaithfulNext(resps[i].csn, resps[i].val)
  BY AnswersStep DEF TypeOK
<1>2. QED
  BY <1>1 DEF FaithfulAnswers, Faithful, FaithfulNext

LEMMA ReplyKept ==
  ASSUME TypeOK, TypeOK', DirStep, reply' = reply, FaithfulAnswers(reply)
  PROVE  FaithfulAnswers(reply)'
<1>1. \A i \in 1..Len(reply) : reply[i].kind = "entry" => FaithfulNext(reply[i].csn, reply[i].val)
  BY AnswersStep DEF TypeOK
<1>2. QED
  BY <1>1 DEF FaithfulAnswers, Faithful, FaithfulNext

LEMMA ReplyTaken ==
  ASSUME reply' = <<>>
  PROVE  FaithfulAnswers(reply)'
  BY DEF FaithfulAnswers

LEMMA ReplyGiven ==
  ASSUME NEW r, r.kind = "entry" => FaithfulNext(r.csn, r.val), reply' = <<r>>
  PROVE  FaithfulAnswers(reply)'
  BY DEF FaithfulAnswers, Faithful, FaithfulNext

LEMMA AnswersGiven ==
  ASSUME TypeOK, TypeOK', DirStep, VersionsDiffer', FaithfulAnswers(resps),
         NEW k, NEW d, Answer(k, d)
  PROVE  FaithfulAnswers(resps)'
<1> DEFINE r == AnswerOf(k, d)
<1>1. FaithfulNext(r.csn, r.val)
  BY FoundFaithful DEF AnswerOf
<1>2. resps' = Append(resps, r)
  BY DEF Answer
<1> HIDE DEF r
<1>3. resps \in Seq(Response)
  BY DEF TypeOK
<1>4. /\ Len(resps') = Len(resps) + 1
      /\ resps'[Len(resps) + 1] = r
      /\ \A i \in 1..Len(resps) : resps'[i] = resps[i]
  BY <1>2, <1>3
<1>5. \A i \in 1..Len(resps) : resps[i].kind = "entry" => FaithfulNext(resps[i].csn, resps[i].val)
  BY <1>3, AnswersStep
<1>6. \A i \in 1..Len(resps') : i = Len(resps) + 1 \/ i \in 1..Len(resps)
  BY <1>3, <1>4
<1>7. \A i \in 1..Len(resps') : resps'[i].kind = "entry" => FaithfulNext(resps'[i].csn, resps'[i].val)
  BY <1>1, <1>4, <1>5, <1>6
<1>8. QED
  BY <1>7 DEF FaithfulAnswers, Faithful, FaithfulNext

LEMMA FormKept ==
  ASSUME TypeOK, TypeOK', DirStep, FaithfulForm,
         ~editForm'.forced => /\ ~editForm.forced
                              /\ editForm'.csn = editForm.csn /\ editForm'.base = editForm.base
  PROVE  FaithfulForm'
<1> SUFFICES ASSUME ~editForm'.forced PROVE FaithfulNext(editForm'.csn, editForm'.base)
  BY DEF FaithfulForm, Faithful, FaithfulNext
<1>1. editForm.csn \in Nat
  BY DEF TypeOK, Form
<1>2. QED
  BY <1>1, FaithfulStep DEF FaithfulForm

LEMMA FormTaken ==
  ASSUME FaithfulNext(editForm'.csn, editForm'.base)
  PROVE  FaithfulForm'
  BY DEF FaithfulForm, Faithful, FaithfulNext

(***************************************************************************)
(* CopiesAreFaithful is inductive: the pump takes a copy from the queue    *)
(* into the form, the worker makes one, the operator changes none.         *)
(***************************************************************************)
LEMMA CopiesStep ==
  ASSUME TypeOK, CopiesAreFaithful, [Next]_vars
  PROVE  CopiesAreFaithful'
<1> USE DEF workerVars
<1>1. TypeOK' /\ DirStep /\ VersionsDiffer'
  BY TypeStep, NextDirStep, VersionsStep DEF CopiesAreFaithful
<1>2. FaithfulAnswers(resps) /\ FaithfulAnswers(reply) /\ FaithfulForm
  BY DEF CopiesAreFaithful
<1>3. FaithfulAnswers(resps)'
  <2>1. CASE WorkerRead \/ WorkerModify \/ WorkerModrdn \/ WorkerFault
    <3>1. \E k, d : Answer(k, d)
      BY <2>1 DEF WorkerRead, WorkerModify, WorkerModrdn, WorkerFault
    <3>2. QED
      BY <1>1, <1>2, <3>1, AnswersGiven
  <2>2. CASE PumpEntry \/ PumpReadError \/ PumpRenamed \/ PumpSaved \/ PumpWriteError \/ PumpConflict
    <3>1. resps # <<>> /\ resps' = Tail(resps)
      BY <2>2 DEF PumpEntry, PumpReadError, PumpRenamed, PumpSaved, PumpWriteError, PumpConflict,
                  Polling
    <3>2. QED
      BY <1>1, <1>2, <3>1, AnswersTaken
  <2>3. CASE Operator \/ Dispatch \/ ReconcileSelection \/ Others \/ UNCHANGED vars
    <3>1. resps' = resps
      BY <2>3 DEF Operator, EditField, EditName, RequestLeaf, PressSave, RequestQuit, ConfirmSave,
                  Dismiss, GuardSave, GuardDiscard, GuardStay, QuitSave, QuitDiscard, QuitStay,
                  ConflictOverwrite, ConflictReload, ConflictKeep, Dispatch, RunGuard,
                  ShowConflict, ShowError, Quit, ReconcileSelection, Others, OtherWrite,
                  OtherDelete, vars
    <3>2. QED
      BY <1>1, <1>2, <3>1, AnswersKept
  <2>4. CASE RereadFailed \/ ResolveByAsking \/ ResolveByRebasing \/ WorkerReread \/ WorkerRereadFault
    <3>1. resps' = resps
      BY <2>4 DEF RereadFailed, ResolveByAsking, ResolveByRebasing, WorkerReread, WorkerRereadFault
    <3>2. QED
      BY <1>1, <1>2, <3>1, AnswersKept
  <2>5. QED
    BY <2>1, <2>2, <2>3, <2>4 DEF Next, Pump, Worker
<1>4. FaithfulAnswers(reply)'
  <2>1. CASE WorkerReread
    <3>1. PICK k : reply' = <<AnswerOf(k, Head(jobs).dn)>>
      BY <2>1 DEF WorkerReread
    <3>2. FaithfulNext(AnswerOf(k, Head(jobs).dn).csn, AnswerOf(k, Head(jobs).dn).val)
      BY <1>1, FoundFaithful DEF AnswerOf
    <3>3. QED
      BY <3>1, <3>2, ReplyGiven
  <2>2. CASE WorkerRereadFault
    BY <2>2, ReplyGiven DEF WorkerRereadFault
  <2>3. CASE RereadFailed \/ ResolveByAsking \/ ResolveByRebasing
    <3>1. reply' = <<>>
      BY <2>3 DEF RereadFailed, ResolveByAsking, ResolveByRebasing
    <3>2. QED
      BY <3>1, ReplyTaken
  <2>4. CASE \/ Operator \/ Dispatch \/ ReconcileSelection \/ Others \/ UNCHANGED vars
             \/ WorkerRead \/ WorkerModify \/ WorkerModrdn \/ WorkerFault
             \/ PumpEntry \/ PumpReadError \/ PumpRenamed \/ PumpSaved \/ PumpWriteError
             \/ PumpConflict
    <3>1. reply' = reply
      BY <2>4 DEF Operator, EditField, EditName, RequestLeaf, PressSave, RequestQuit, ConfirmSave,
                  Dismiss, GuardSave, GuardDiscard, GuardStay, QuitSave, QuitDiscard, QuitStay,
                  ConflictOverwrite, ConflictReload, ConflictKeep, Dispatch, RunGuard,
                  ShowConflict, ShowError, Quit, ReconcileSelection, Others, OtherWrite,
                  OtherDelete, vars, WorkerRead, WorkerModify, WorkerModrdn, WorkerFault,
                  PumpEntry, PumpReadError, PumpRenamed, PumpSaved, PumpWriteError, PumpConflict
    <3>2. QED
      BY <1>1, <1>2, <3>1, ReplyKept
  <2>5. QED
    BY <2>1, <2>2, <2>3, <2>4 DEF Next, Pump, Worker
<1>5. FaithfulForm'
  <2> USE DEF alertVars, navVars, histVars
  <2>1. editForm \in Form
    BY DEF TypeOK
  <2>2. CASE PumpEntry
    <3>1. 1 \in 1..Len(resps) /\ Head(resps) = resps[1] /\ resps[1].kind = "entry"
      BY <2>2 DEF PumpEntry, Polling, TypeOK
    <3>2. FaithfulNext(Head(resps).csn, Head(resps).val)
      BY <1>1, <1>2, <3>1, AnswersStep DEF TypeOK
    <3>3. editForm'.csn = Head(resps).csn /\ editForm'.base = Head(resps).val
      BY <2>2 DEF PumpEntry, Loaded
    <3>4. QED
      BY <3>2, <3>3, FormTaken
  <2>3. CASE ResolveByRebasing
    <3>1. 1 \in 1..Len(reply) /\ Head(reply) = reply[1] /\ reply[1].kind = "entry"
      BY <2>3 DEF ResolveByRebasing, TypeOK
    <3>2. FaithfulNext(Head(reply).csn, Head(reply).val)
      BY <1>1, <1>2, <3>1, AnswersStep DEF TypeOK
    <3>3. editForm' = Rebased(editForm, Head(reply).job.dn, Head(reply).csn, Head(reply).val)
      BY <2>3 DEF ResolveByRebasing
    <3>4. CASE IsOpen(editForm)
      <4>1. editForm'.csn = Head(reply).csn /\ editForm'.base = Head(reply).val
        BY <2>1, <3>3, <3>4 DEF Rebased, Form
      <4>2. QED
        BY <3>2, <4>1, FormTaken
    <3>5. CASE ~IsOpen(editForm)
      BY <1>1, <1>2, <3>3, <3>5, FormKept DEF Rebased
    <3>6. QED
      BY <3>4, <3>5
  <2>4. CASE ConflictReload
    <3>1. editForm'.csn = 0 /\ editForm'.base = Empty
      BY <2>4 DEF ConflictReload, NoForm
    <3>2. clock' \in Nat
      BY <1>1 DEF TypeOK
    <3>3. QED
      BY <3>1, <3>2, FormTaken DEF FaithfulNext
  <2>5. CASE ConflictOverwrite
    BY <1>1, <1>2, <2>1, <2>5, FormKept DEF ConflictOverwrite, Form
  <2>6. CASE \/ \E a \in Attrs, vs \in Writable : EditField(a, vs)
             \/ \E d \in DNs : EditName(d)
             \/ ConfirmSave \/ GuardDiscard
    <3>1. /\ editForm'.forced = editForm.forced
          /\ editForm'.csn = editForm.csn /\ editForm'.base = editForm.base
      BY <2>1, <2>6 DEF EditField, EditName, ConfirmSave, GuardDiscard, Discarded, Form
    <3>2. QED
      BY <1>1, <1>2, <3>1, FormKept
  <2>7. CASE \/ \E d \in DNs : RequestLeaf(d)
             \/ PressSave \/ RequestQuit \/ Dismiss \/ GuardSave \/ GuardStay \/ QuitSave
             \/ QuitDiscard \/ QuitStay \/ ConflictKeep
             \/ Dispatch \/ ReconcileSelection \/ Others \/ UNCHANGED vars
             \/ Worker \/ WorkerFault \/ WorkerRereadFault
             \/ PumpReadError \/ PumpRenamed \/ PumpSaved \/ PumpWriteError \/ PumpConflict
             \/ RereadFailed \/ ResolveByAsking
    <3>1. editForm' = editForm
      BY <2>7 DEF RequestLeaf, PressSave, RequestQuit, Dismiss, GuardSave, GuardStay, QuitSave,
                  QuitDiscard, QuitStay, ConflictKeep, Dispatch, RunGuard, ShowConflict, ShowError,
                  Quit, ReconcileSelection, Others, OtherWrite, OtherDelete, vars, Worker, Served,
                  WorkerRead, WorkerReread, WorkerModify, WorkerModrdn, WorkerFault,
                  WorkerRereadFault, PumpReadError, PumpRenamed, PumpSaved, PumpWriteError,
                  PumpConflict, RereadFailed, ResolveByAsking
    <3>2. QED
      BY <1>1, <1>2, <3>1, FormKept
  <2>8. QED
    BY <2>2, <2>3, <2>4, <2>5, <2>6, <2>7 DEF Next, Operator, Pump
<1>6. QED
  BY <1>1, <1>3, <1>4, <1>5 DEF CopiesAreFaithful

LEMMA CopiesInit == Init => CopiesAreFaithful
<1> SUFFICES ASSUME Init PROVE CopiesAreFaithful
  OBVIOUS
<1>1. VersionsDiffer
  BY EntrySaveAssumption DEF Init, VersionsDiffer
<1>2. FaithfulAnswers(resps) /\ FaithfulAnswers(reply)
  BY DEF Init, FaithfulAnswers
<1>3. FaithfulForm
  BY EntrySaveAssumption DEF Init, NoForm, FaithfulForm, Faithful
<1>4. QED
  BY <1>1, <1>2, <1>3 DEF CopiesAreFaithful

(***************************************************************************)
(* Through every read, save, conflict, silent rebase, Overwrite, Reload,   *)
(* rename, failure and write of another client, in whatever order the two  *)
(* threads and the operator act: a copy that bears an entry's current CSN  *)
(* is the entry's content.                                                 *)
(***************************************************************************)
THEOREM CopiesCorrect == Spec => []CopiesAreFaithful
<1>1. Init => TypeOK /\ CopiesAreFaithful
  BY TypeInit, CopiesInit
<1>2. TypeOK /\ CopiesAreFaithful /\ [Next]_vars => TypeOK' /\ CopiesAreFaithful'
  BY TypeStep, CopiesStep
<1>3. QED
  BY <1>1, <1>2, PTL DEF Spec

(***************************************************************************)
(* So a form at the current CSN was diffed against the current content:    *)
(* the assertion that lets a save through vouches for the baseline of its  *)
(* modifications, with the one exception of an Overwrite.                  *)
(***************************************************************************)
THEOREM FormCorrect == Spec => []FormMatchesItsVersion
<1>1. CopiesAreFaithful => FormMatchesItsVersion
  BY DEF CopiesAreFaithful, FaithfulForm, Faithful, FormMatchesItsVersion, Exists
<1>2. QED
  BY <1>1, CopiesCorrect, PTL

-----------------------------------------------------------------------------
(***************************************************************************)
(* An operator who waits for what was asked for.                           *)
(*                                                                         *)
(* The races of the finding need an operator who goes on while requests    *)
(* are outstanding.  Here OperatorWaits is assumed: what follows is what   *)
(* the code guarantees to an operator who does not, whatever other clients *)
(* do meanwhile and whichever operations fail.                             *)
(*                                                                         *)
(* There is then one thing at a time: a request, its answer, a move asked  *)
(* for, a posted command or a dialog.                                      *)
(***************************************************************************)
Busy == jobs # <<>> \/ resps # <<>> \/ reply # <<>>

OneThing ==
  /\ Len(jobs) <= 1 /\ Len(resps) <= 1 /\ Len(reply) <= 1
  /\ jobs # <<>> => resps = <<>> /\ reply = <<>>
  /\ resps # <<>> => reply = <<>>
  /\ Busy => requestedLeaf = NoDN /\ posted = {} /\ dialog = Closed
  /\ requestedLeaf # NoDN => posted = {} /\ dialog = Closed
  /\ posted # {} => dialog = Closed
  /\ lastError \/ lastConflict # NoPrompt => posted = {"SHOW_ERROR"}
  /\ lastError => lastConflict = NoPrompt
  /\ \A c, d \in posted : c = d

\* the form shows what it was read as, and has the CSN of an existing entry
FormShown(f) == f.seen = f.base /\ (IsOpen(f) => f.csn # 0)

\* a save between its confirmation and its report is the save of the open form
SaveOK(j, f, nav, unreported, seen) ==
  /\ j.plan = PlanOf(f) /\ Prepared(f) = "ready" /\ ~f.typed
  /\ nav = j.nav /\ (nav # NoDN => ~j.quit)
  /\ unreported \subseteq {j.save}
  /\ Preview(j.plan) \in seen
  /\ j.op = "modify" => /\ j.dn = j.plan.name
                        /\ j.plan.name = j.plan.dn => j.csn = BaselineCsn(f)
                        /\ j.csn # 0 => j.plan.name = j.plan.dn
  /\ j.op = "modrdn" => j.plan.name # j.plan.dn
  /\ j.op = "reread" => j.dn = j.plan.name /\ j.plan.name = j.plan.dn

ReadOK(f, unreported) == unreported = {} /\ ~(f.typed /\ IsDirty(f))

JobOK(j, f, nav, unreported, seen) ==
  IF j.op = "read" THEN ReadOK(f, unreported) ELSE SaveOK(j, f, nav, unreported, seen)

AnswerOK(r) ==
  /\ r.job.op # "reread"
  /\ r.kind = "entry" => r.job.op = "read" /\ r.csn # 0
  /\ r.kind = "ok" => r.job.op \in {"modify", "modrdn"}
  /\ r.kind = "conflict" => r.job.op = "modify" /\ r.job.plan.name = r.job.plan.dn

ReplyOK(r) ==
  /\ r.job.op = "reread"
  /\ r.kind = "entry" => r.csn # 0 /\ \A a \in Must : r.val[a] # {}

CarriedOK ==
  /\ jobs # <<>> => JobOK(Head(jobs), editForm, pendingNav, owed, approved)
  /\ resps # <<>> => /\ JobOK(Head(resps).job, editForm, pendingNav, owed, approved)
                     /\ AnswerOK(Head(resps))
  /\ reply # <<>> => /\ JobOK(Head(reply).job, editForm, pendingNav, owed, approved)
                     /\ ReplyOK(Head(reply))
  /\ ~Busy => owed = {}

DialogOK ==
  /\ dialog.kind = "confirm" => /\ dialog.plan = PlanOf(editForm)
                                /\ Prepared(editForm) = "ready"
                                /\ dialog.nav # NoDN => ~dialog.quit
  /\ dialog.kind = "conflict" => dialog.csn # 0
  /\ lastConflict # NoPrompt => lastConflict.dn # NoDN /\ lastConflict.csn # 0

Waits == OneThing /\ FormShown(editForm) /\ DialogOK /\ CarriedOK

SchemaKept == \A d \in DNs : Exists(d) => \A a \in Must : srv[d].val[a] # {}

Calm ==
  /\ posted = {} /\ requestedLeaf = NoDN /\ dialog = Closed
  /\ lastError = FALSE /\ lastConflict = NoPrompt

(***************************************************************************)
(* What that says of the state an action starts from.                      *)
(***************************************************************************)
LEMMA OneElement ==
  ASSUME NEW S, NEW s \in Seq(S), Len(s) <= 1, s # <<>>
  PROVE  Tail(s) = <<>> /\ Head(s) \in S
  OBVIOUS

LEMMA BusyFacts ==
  ASSUME TypeOK, Waits, Busy
  PROVE  Calm
  BY DEF Waits, OneThing, Calm, TypeOK

LEMMA JobFacts ==
  ASSUME TypeOK, Waits, jobs # <<>>
  PROVE  /\ Calm /\ resps = <<>> /\ reply = <<>> /\ Tail(jobs) = <<>> /\ Head(jobs) \in Job
         /\ JobOK(Head(jobs), editForm, pendingNav, owed, approved)
<1>1. Calm
  BY BusyFacts DEF Busy
<1>2. jobs \in Seq(Job) /\ Len(jobs) <= 1
  BY DEF TypeOK, Waits, OneThing
<1>3. QED
  BY <1>1, <1>2, OneElement DEF Waits, OneThing, CarriedOK

LEMMA AnswerFacts ==
  ASSUME TypeOK, Waits, resps # <<>>
  PROVE  /\ Calm /\ jobs = <<>> /\ reply = <<>> /\ Tail(resps) = <<>> /\ Head(resps) \in Response
         /\ JobOK(Head(resps).job, editForm, pendingNav, owed, approved)
         /\ AnswerOK(Head(resps))
<1>1. Calm
  BY BusyFacts DEF Busy
<1>2. resps \in Seq(Response) /\ Len(resps) <= 1
  BY DEF TypeOK, Waits, OneThing
<1>3. QED
  BY <1>1, <1>2, OneElement DEF Waits, OneThing, CarriedOK

LEMMA ReplyFacts ==
  ASSUME TypeOK, Waits, reply # <<>>
  PROVE  /\ Calm /\ jobs = <<>> /\ resps = <<>> /\ Head(reply) \in Response
         /\ JobOK(Head(reply).job, editForm, pendingNav, owed, approved)
         /\ ReplyOK(Head(reply))
<1>1. Calm
  BY BusyFacts DEF Busy
<1>2. reply \in Seq(Response) /\ Len(reply) <= 1
  BY DEF TypeOK, Waits, OneThing
<1>3. QED
  BY <1>1, <1>2, OneElement DEF Waits, OneThing, CarriedOK

NothingAsked ==
  /\ jobs = <<>> /\ resps = <<>> /\ reply = <<>> /\ owed = {}

LEMMA PaneFacts ==
  ASSUME TypeOK, Waits, OperatorWaits, OperatorReady
  PROVE  NothingAsked /\ Calm
<1>1. reply = <<>> /\ jobs = <<>> /\ resps = <<>> /\ posted = {} /\ requestedLeaf = NoDN
      /\ dialog = Closed
  BY DEF OperatorReady, Running, Blocked, Quiet
<1>2. lastError = FALSE /\ lastConflict = NoPrompt
  BY <1>1 DEF Waits, OneThing, TypeOK
<1>3. QED
  BY <1>1, <1>2 DEF NothingAsked, Calm, Waits, CarriedOK, Busy

LEMMA DialogFacts ==
  ASSUME TypeOK, Waits, dialog # Closed
  PROVE  /\ NothingAsked
         /\ posted = {} /\ requestedLeaf = NoDN /\ lastError = FALSE /\ lastConflict = NoPrompt
<1>1. ~Busy /\ posted = {} /\ requestedLeaf = NoDN
  BY DEF Waits, OneThing
<1>2. lastError = FALSE /\ lastConflict = NoPrompt
  BY <1>1 DEF Waits, OneThing, TypeOK
<1>3. QED
  BY <1>1, <1>2 DEF NothingAsked, Waits, CarriedOK, Busy

LEMMA AnsweringFacts ==
  ASSUME TypeOK, Waits, NEW k, Answering(k), k # "none"
  PROVE  /\ NothingAsked
         /\ posted = {} /\ requestedLeaf = NoDN /\ lastError = FALSE /\ lastConflict = NoPrompt
<1>1. dialog # Closed
  BY DEF Answering, Closed
<1>2. QED
  BY <1>1, DialogFacts

LEMMA CommandFacts ==
  ASSUME TypeOK, Waits, NEW c, Dispatching(c)
  PROVE  NothingAsked /\ posted = {c} /\ requestedLeaf = NoDN /\ dialog = Closed
<1>1. c \in posted /\ ~Busy /\ requestedLeaf = NoDN /\ dialog = Closed
  BY DEF Dispatching, Waits, OneThing
<1>2. posted = {c}
  BY <1>1 DEF Waits, OneThing
<1>3. QED
  BY <1>1, <1>2 DEF NothingAsked, Waits, CarriedOK, Busy

(***************************************************************************)
(* What an action leaves behind: a request, an answer, a command, or       *)
(* nothing but the form and a dialog.                                      *)
(***************************************************************************)
LEMMA RequestSent ==
  ASSUME NEW j, jobs' = Append(<<>>, j), resps' = <<>>, reply' = <<>>, Calm',
         FormShown(editForm'), JobOK(j, editForm', pendingNav', owed', approved')
  PROVE  Waits'
<1>1. jobs' = <<j>> /\ Len(jobs') = 1 /\ Head(jobs') = j /\ jobs' # <<>>
  OBVIOUS
<1>2. OneThing'
  BY <1>1 DEF OneThing, Calm
<1>3. CarriedOK'
  BY <1>1 DEF CarriedOK, Busy
<1>4. DialogOK'
  BY DEF DialogOK, Calm, Closed, NoPrompt
<1>5. QED
  BY <1>2, <1>3, <1>4 DEF Waits

LEMMA AnswerSent ==
  ASSUME NEW r, resps' = Append(<<>>, r), jobs' = <<>>, reply' = <<>>, Calm',
         FormShown(editForm'), JobOK(r.job, editForm', pendingNav', owed', approved'), AnswerOK(r)
  PROVE  Waits'
<1>1. resps' = <<r>> /\ Len(resps') = 1 /\ Head(resps') = r /\ resps' # <<>>
  OBVIOUS
<1>2. OneThing'
  BY <1>1 DEF OneThing, Calm
<1>3. CarriedOK'
  BY <1>1 DEF CarriedOK, Busy
<1>4. DialogOK'
  BY DEF DialogOK, Calm, Closed, NoPrompt
<1>5. QED
  BY <1>2, <1>3, <1>4 DEF Waits

LEMMA ReplySent ==
  ASSUME NEW r, reply' = <<r>>, jobs' = <<>>, resps' = <<>>, Calm',
         FormShown(editForm'), JobOK(r.job, editForm', pendingNav', owed', approved'), ReplyOK(r)
  PROVE  Waits'
<1>1. Len(reply') = 1 /\ Head(reply') = r /\ reply' # <<>>
  OBVIOUS
<1>2. OneThing'
  BY <1>1 DEF OneThing, Calm
<1>3. CarriedOK'
  BY <1>1 DEF CarriedOK, Busy
<1>4. DialogOK'
  BY DEF DialogOK, Calm, Closed, NoPrompt
<1>5. QED
  BY <1>2, <1>3, <1>4 DEF Waits

LEMMA CommandPosted ==
  ASSUME NEW c, posted' = {c}, NothingAsked', requestedLeaf' = NoDN, dialog' = Closed,
         lastError' \/ lastConflict' # NoPrompt => c = "SHOW_ERROR",
         lastError' => lastConflict' = NoPrompt,
         lastConflict' # NoPrompt => lastConflict'.dn # NoDN /\ lastConflict'.csn # 0,
         FormShown(editForm')
  PROVE  Waits'
<1>1. OneThing'
  BY DEF OneThing, NothingAsked, Busy
<1>2. CarriedOK'
  BY DEF CarriedOK, NothingAsked, Busy
<1>3. DialogOK'
  BY DEF DialogOK, Closed
<1>4. QED
  BY <1>1, <1>2, <1>3 DEF Waits

LEMMA NothingLeft ==
  ASSUME NothingAsked', posted' = {}, lastError' = FALSE, lastConflict' = NoPrompt,
         requestedLeaf' # NoDN => dialog' = Closed,
         FormShown(editForm'), DialogOK'
  PROVE  Waits'
<1>1. OneThing'
  BY DEF OneThing, NothingAsked, Busy
<1>2. CarriedOK'
  BY DEF CarriedOK, NothingAsked, Busy
<1>3. QED
  BY <1>1, <1>2 DEF Waits

LEMMA DoSaveFacts ==
  ASSUME NEW f, NEW n \in Names, NEW q \in BOOLEAN, NEW g, NEW k, DoSave(f, n, q, g, k),
         editForm' = f, n # NoDN => ~q, lastConflict' = NoPrompt
  PROVE  DialogOK'
<1>1. CASE Prepared(f) = "ready"
  <2>1. dialog' = [Closed EXCEPT !.kind = "confirm", !.nav = n, !.quit = q, !.guarded = g,
                                 !.asked = k, !.plan = PlanOf(f)]
    BY <1>1 DEF DoSave
  <2>2. dialog'.kind = "confirm" /\ dialog'.plan = PlanOf(f) /\ dialog'.nav = n /\ dialog'.quit = q
    BY <2>1 DEF Closed
  <2>3. QED
    BY <1>1, <2>2 DEF DialogOK, NoPrompt
<1>2. CASE Prepared(f) # "ready"
  <2>1. dialog'.kind \in {"error", "none"}
    BY <1>2 DEF DoSave, Closed
  <2>2. QED
    BY <2>1 DEF DialogOK, NoPrompt
<1>3. QED
  BY <1>1, <1>2

(***************************************************************************)
(* One action after another.                                               *)
(***************************************************************************)
LEMMA PaneWaits ==
  ASSUME TypeOK, Waits, OperatorWaits,
         \/ \E a \in Attrs, vs \in Writable : EditField(a, vs)
         \/ \E d \in DNs : EditName(d) \/ RequestLeaf(d)
         \/ PressSave \/ RequestQuit
  PROVE  Waits'
<1> USE DEF dirVars, workerVars, navVars, alertVars, histVars
<1>1. OperatorReady
  BY DEF EditField, EditName, RequestLeaf, PressSave, RequestQuit
<1>2. NothingAsked /\ Calm
  BY <1>1, PaneFacts
<1>3. FormShown(editForm) /\ editForm \in Form
  BY DEF Waits, TypeOK
<1>4. NothingAsked' /\ posted' = {} /\ lastError' = FALSE /\ lastConflict' = NoPrompt
  BY <1>2 DEF NothingAsked, Calm, EditField, EditName, RequestLeaf, PressSave, RequestQuit
<1>5. ASSUME NEW a \in Attrs, NEW vs \in Writable, EditField(a, vs) PROVE Waits'
  <2>1. FormShown(editForm')
    BY <1>3, <1>5 DEF EditField, FormShown, Form, IsOpen
  <2>2. dialog' = Closed /\ requestedLeaf' = NoDN
    BY <1>2, <1>5 DEF EditField, Calm
  <2>3. QED
    BY <1>4, <2>1, <2>2, NothingLeft DEF DialogOK, Closed, NoPrompt
<1>6. ASSUME NEW d \in DNs, EditName(d) PROVE Waits'
  <2>1. FormShown(editForm')
    BY <1>3, <1>6 DEF EditName, FormShown, Form, IsOpen
  <2>2. dialog' = Closed /\ requestedLeaf' = NoDN
    BY <1>2, <1>6 DEF EditName, Calm
  <2>3. QED
    BY <1>4, <2>1, <2>2, NothingLeft DEF DialogOK, Closed, NoPrompt
<1>7. ASSUME NEW d \in DNs, RequestLeaf(d) PROVE Waits'
  <2>1. FormShown(editForm') /\ dialog' = Closed
    BY <1>2, <1>3, <1>7 DEF RequestLeaf, Calm
  <2>2. QED
    BY <1>4, <2>1, NothingLeft DEF DialogOK, Closed, NoPrompt
<1>8. CASE PressSave
  <2>1. DialogOK'
    BY <1>4, <1>8, NamesFacts, DoSaveFacts DEF PressSave
  <2>2. FormShown(editForm') /\ requestedLeaf' = NoDN
    BY <1>2, <1>3, <1>8 DEF PressSave, Calm
  <2>3. QED
    BY <1>4, <2>1, <2>2, NothingLeft
<1>9. CASE RequestQuit
  <2>1. dialog'.kind \in {"quitguard", "none"}
    BY <1>2, <1>9 DEF RequestQuit, Calm, Closed
  <2>2. FormShown(editForm') /\ requestedLeaf' = NoDN
    BY <1>2, <1>3, <1>9 DEF RequestQuit, Calm
  <2>3. QED
    BY <1>4, <2>1, <2>2, NothingLeft DEF DialogOK, NoPrompt
<1>10. QED
  BY <1>5, <1>6, <1>7, <1>8, <1>9

LEMMA ConfirmWaits ==
  ASSUME TypeOK, Waits, ConfirmSave
  PROVE  Waits'
<1>1. NothingAsked /\ posted = {} /\ requestedLeaf = NoDN /\ lastError = FALSE
      /\ lastConflict = NoPrompt
  BY AnsweringFacts DEF ConfirmSave
<1>2. dialog.plan = PlanOf(editForm) /\ Prepared(editForm) = "ready"
      /\ (dialog.nav # NoDN => ~dialog.quit)
  BY DEF ConfirmSave, Answering, Waits, DialogOK
<1>3. editForm \in Form /\ FormShown(editForm)
  BY DEF TypeOK, Waits
<1>4. /\ PlanOf(editForm') = PlanOf(editForm) /\ Prepared(editForm') = "ready"
      /\ BaselineCsn(editForm') = BaselineCsn(editForm) /\ ~editForm'.typed
      /\ FormShown(editForm')
  BY <1>2, <1>3 DEF ConfirmSave, PlanOf, Prepared, IsOpen, IsDirty, BaselineCsn, Form, FormShown
<1> DEFINE j == SaveJob(dialog.plan, BaselineCsn(editForm), dialog.quit, saves + 1, dialog.nav,
                        dialog.asked)
<1>5. /\ j.plan = PlanOf(editForm') /\ j.nav = dialog.nav /\ j.quit = dialog.quit
      /\ j.save = saves + 1 /\ j.op \in {"modify", "modrdn"}
      /\ j.op = "modify" => /\ j.plan.name = j.plan.dn /\ j.dn = j.plan.dn
                            /\ j.csn = BaselineCsn(editForm')
      /\ j.op = "modrdn" => j.plan.name # j.plan.dn
  BY <1>2, <1>4 DEF SaveJob
<1>6. jobs' = Append(<<>>, j) /\ pendingNav' = dialog.nav /\ owed' = {saves + 1}
      /\ Preview(dialog.plan) \in approved'
  BY <1>1 DEF ConfirmSave, Submit, NothingAsked
<1>7. resps' = <<>> /\ reply' = <<>> /\ Calm'
  BY <1>1 DEF ConfirmSave, NothingAsked, Calm, alertVars
<1> HIDE DEF j
<1>8. SaveOK(j, editForm', pendingNav', owed', approved')
  BY <1>2, <1>4, <1>5, <1>6 DEF SaveOK
<1>9. QED
  BY <1>4, <1>5, <1>6, <1>7, <1>8, RequestSent DEF JobOK

LEMMA ReadSent ==
  ASSUME NEW d, Reread(d), jobs = <<>>, resps' = <<>>, reply' = <<>>, Calm',
         FormShown(editForm'), ReadOK(editForm', owed')
  PROVE  Waits'
<1>1. jobs' = Append(<<>>, ReadJob(d))
  BY DEF Reread, Submit
<1>2. JobOK(ReadJob(d), editForm', pendingNav', owed', approved')
  BY DEF ReadJob, JobOK
<1>3. QED
  BY <1>1, <1>2, RequestSent

LEMMA AnsweredWaits ==
  ASSUME TypeOK, Waits,
         \/ Dismiss \/ GuardSave \/ GuardDiscard \/ GuardStay \/ QuitSave \/ QuitDiscard \/ QuitStay
         \/ ConflictOverwrite \/ ConflictReload \/ ConflictKeep
  PROVE  Waits'
<1> USE DEF dirVars, workerVars, navVars, alertVars, histVars
<1>1. /\ NothingAsked /\ posted = {} /\ requestedLeaf = NoDN /\ lastError = FALSE
      /\ lastConflict = NoPrompt
  BY AnsweringFacts DEF Dismiss, GuardSave, GuardDiscard, GuardStay, QuitSave, QuitDiscard,
       QuitStay, ConflictOverwrite, ConflictReload, ConflictKeep
<1>2. /\ resps' = <<>> /\ reply' = <<>> /\ owed' = {} /\ posted' = {} /\ requestedLeaf' = NoDN
      /\ lastError' = FALSE /\ lastConflict' = NoPrompt
  BY <1>1 DEF Dismiss, GuardSave, GuardDiscard, GuardStay, QuitSave, QuitDiscard, QuitStay,
       ConflictOverwrite, ConflictReload, ConflictKeep, NothingAsked
<1>3. editForm \in Form /\ FormShown(editForm) /\ dialog \in Dialog
  BY DEF TypeOK, Waits
<1>4. CASE Dismiss \/ GuardStay \/ QuitDiscard \/ QuitStay \/ ConflictKeep
  <2>1. dialog' = Closed /\ editForm' = editForm /\ NothingAsked'
    BY <1>1, <1>2, <1>4 DEF Dismiss, GuardStay, QuitDiscard, QuitStay, ConflictKeep, NothingAsked
  <2>2. QED
    BY <1>2, <1>3, <2>1, NothingLeft DEF DialogOK, Closed, NoPrompt
<1>5. CASE GuardSave \/ QuitSave
  <2>1. editForm' = editForm /\ NothingAsked'
    BY <1>1, <1>2, <1>5 DEF GuardSave, QuitSave, NothingAsked
  <2>2. dialog.nav \in Names
    BY <1>3 DEF Dialog
  <2>3. DialogOK'
    BY <1>2, <1>5, <2>1, <2>2, NamesFacts, DoSaveFacts DEF GuardSave, QuitSave
  <2>4. QED
    BY <1>2, <1>3, <2>1, <2>3, NothingLeft
<1>6. CASE GuardDiscard
  <2>1. FormShown(editForm') /\ ~IsDirty(editForm') /\ dialog' = Closed
    BY <1>3, <1>6 DEF GuardDiscard, Discarded, FormShown, IsOpen, IsDirty, Form
  <2>2. CASE dialog.nav # NoDN
    BY <1>1, <1>2, <1>6, <2>1, <2>2, ReadSent DEF GuardDiscard, NothingAsked, Calm, ReadOK
  <2>3. CASE dialog.nav = NoDN
    <3>1. NothingAsked'
      BY <1>1, <1>2, <1>6, <2>3 DEF GuardDiscard, NothingAsked
    <3>2. QED
      BY <1>2, <2>1, <3>1, NothingLeft DEF DialogOK, Closed, NoPrompt
  <2>4. QED
    BY <2>2, <2>3
<1>7. CASE ConflictOverwrite
  <2> DEFINE f == IF IsOpen(editForm) THEN [editForm EXCEPT !.csn = dialog.csn, !.forced = TRUE]
                                      ELSE editForm
  <2>1. dialog.csn # 0
    BY <1>7 DEF ConflictOverwrite, Answering, Waits, DialogOK
  <2>2. FormShown(f)
    BY <1>3, <2>1 DEF FormShown, IsOpen, Form
  <2>3. editForm' = f /\ DoSave(f, NoDN, dialog.quit, FALSE, TRUE)
    BY <1>7 DEF ConflictOverwrite
  <2> HIDE DEF f
  <2>4. DialogOK'
    BY <1>2, <1>3, <2>3, NamesFacts, DoSaveFacts DEF Dialog
  <2>5. NothingAsked'
    BY <1>1, <1>2, <1>7 DEF ConflictOverwrite, NothingAsked
  <2>6. QED
    BY <1>2, <2>2, <2>3, <2>4, <2>5, NothingLeft
<1>8. CASE ConflictReload
  <2>1. FormShown(editForm') /\ ~editForm'.typed /\ dialog' = Closed
    BY <1>8 DEF ConflictReload, FormShown, NoForm, IsOpen
  <2>2. QED
    BY <1>1, <1>2, <1>8, <2>1, ReadSent DEF ConflictReload, NothingAsked, Calm, ReadOK
<1>9. QED
  BY <1>4, <1>5, <1>6, <1>7, <1>8

(***************************************************************************)
(* The silent rebase of the waiting operator's save: the entry is the      *)
(* form's own, so without an overlap the change that was confirmed is the  *)
(* change that is sent again, under the version the re-read found.         *)
(***************************************************************************)
LEMMA RebaseIsTheSave ==
  ASSUME NEW f \in Form, NEW c \in Nat, NEW v \in Content, c # 0,
         FormShown(f), Prepared(f) = "ready", f.name = f.dn, ~f.typed,
         ~Overlap(f, f.dn, v), \A a \in Must : v[a] # {}
  PROVE  LET g == Rebased(f, f.dn, c, v)
         IN  /\ FormShown(g) /\ ~g.typed /\ Prepared(g) = "ready"
             /\ g.dn = f.dn /\ g.name = f.dn
             /\ Preview(PlanOf(g)) = Preview(PlanOf(f))
<1>1. /\ IsOpen(f) /\ f.base \in Content /\ f.val \in Content /\ f.seen = f.base
      /\ \A a \in Must : f.val[a] # {}
      /\ f.val # f.base
  BY DEF Prepared, FormShown, Form, IsDirty
<1>2. \A a \in Dirty(f.base, f.val) : v[a] = f.base[a]
  BY <1>1 DEF Overlap, ChangedByOthers, Dirty
<1>3. f.base \in Content /\ f.val \in Content
  BY <1>1
<1> DEFINE merged == Merge(f.base, f.val, v)
<1>4. Diff(v, merged) = Diff(f.base, f.val)
  BY <1>2, <1>3, RebaseKeepsTheChange
<1>5. Dirty(v, merged) = Dirty(f.base, f.val)
  BY <1>2 DEF Dirty, Merge
<1> DEFINE g == Rebased(f, f.dn, c, v)
<1>6. merged \in Content /\ \A a \in Must : merged[a] # {}
  BY <1>1, EntrySaveAssumption DEF Merge, Content
<1>7. merged # v
  <2>1. PICK a \in Attrs : f.val[a] # f.base[a]
    BY <1>1 DEF Content
  <2>2. a \in Dirty(v, merged)
    BY <1>5, <2>1 DEF Dirty
  <2>3. QED
    BY <2>2 DEF Dirty
<1>8. [a \in Attrs |-> IF a \in Dirty(f.base, f.val) THEN f.seen[a] ELSE v[a]] = v
  BY <1>1, <1>2 DEF Content
<1>9. /\ g.csn = c /\ g.base = v /\ g.val = merged /\ g.seen = v
      /\ g.name = f.dn /\ g.dn = f.dn /\ g.typed = f.typed
  BY <1>1, <1>8 DEF Rebased, Form
<1> HIDE DEF g, merged
<1>10. FormShown(g) /\ ~g.typed
  BY <1>9 DEF FormShown
<1>11. Prepared(g) = "ready"
  BY <1>1, <1>6, <1>7, <1>9 DEF Prepared, IsOpen, IsDirty
<1>12. Preview(PlanOf(g)) = Preview(PlanOf(f))
  BY <1>9, <1>4 DEF Preview, PlanOf
<1>13. QED
  BY <1>9, <1>10, <1>11, <1>12 DEF g

(***************************************************************************)
(* The pump.                                                               *)
(***************************************************************************)
LEMMA CalmKept ==
  ASSUME Calm, UNCHANGED <<posted, requestedLeaf, dialog, lastError, lastConflict>>
  PROVE  Calm'
  BY DEF Calm

LEMMA PumpWaits ==
  ASSUME TypeOK, Waits,
         \/ PumpEntry \/ PumpReadError \/ PumpRenamed \/ PumpSaved \/ PumpWriteError \/ PumpConflict
  PROVE  Waits'
<1> USE DEF dirVars, workerVars, navVars, alertVars, histVars
<1> DEFINE r == Head(resps)
<1>1. resps # <<>> /\ resps' = Tail(resps) /\ reply' = reply
  BY DEF PumpEntry, PumpReadError, PumpRenamed, PumpSaved, PumpWriteError, PumpConflict, Polling
<1>2. /\ Calm /\ jobs = <<>> /\ reply = <<>> /\ Tail(resps) = <<>> /\ r \in Response
      /\ JobOK(r.job, editForm, pendingNav, owed, approved) /\ AnswerOK(r)
  BY <1>1, AnswerFacts
<1>3. editForm \in Form /\ FormShown(editForm)
  BY DEF TypeOK, Waits
<1>4. resps' = <<>> /\ reply' = <<>>
  BY <1>1, <1>2
<1> HIDE DEF r
<1>5. CASE PumpEntry
  <2>1. r.job.op = "read" /\ r.csn # 0 /\ owed = {}
    BY <1>2, <1>5 DEF PumpEntry, Polling, AnswerOK, JobOK, ReadOK, r
  <2>2. FormShown(editForm')
    BY <1>5, <2>1 DEF PumpEntry, Loaded, FormShown, r
  <2>3. NothingAsked' /\ Calm'
    BY <1>2, <1>4, <1>5, <2>1, CalmKept DEF PumpEntry, NothingAsked
  <2>4. QED
    BY <2>2, <2>3, NothingLeft DEF Calm, DialogOK, Closed, NoPrompt
<1>6. CASE PumpReadError
  <2>1. owed = {}
    BY <1>2, <1>6 DEF PumpReadError, JobOK, ReadOK, r
  <2>2. NothingAsked' /\ Calm' /\ editForm' = editForm
    BY <1>2, <1>4, <1>6, <2>1, CalmKept DEF PumpReadError, NothingAsked
  <2>3. QED
    BY <1>3, <2>2, NothingLeft DEF Calm, DialogOK, Closed, NoPrompt
<1>7. CASE PumpRenamed
  <2> DEFINE j == FollowupJob(r.job)
  <2>1. SaveOK(r.job, editForm, pendingNav, owed, approved) /\ r.job.op = "modrdn"
    BY <1>2, <1>7 DEF PumpRenamed, NeedsFollowup, JobOK, r
  <2>2. r.job \in Job
    BY <1>2 DEF Response
  <2>3. /\ j.op = "modify" /\ j.dn = j.plan.name /\ j.csn = 0 /\ j.plan = r.job.plan
        /\ j.nav = r.job.nav /\ j.quit = r.job.quit /\ j.save = r.job.save
    BY <2>2 DEF FollowupJob, Job
  <2>4. j.plan.name # j.plan.dn
    BY <2>1, <2>3 DEF SaveOK
  <2>5. jobs' = Append(<<>>, j) /\ Calm'
        /\ UNCHANGED <<editForm, pendingNav, owed, approved>>
    BY <1>2, <1>7, CalmKept DEF PumpRenamed, Submit, r
  <2> HIDE DEF j
  <2>6. SaveOK(j, editForm', pendingNav', owed', approved')
    BY <2>1, <2>3, <2>4, <2>5 DEF SaveOK
  <2>7. QED
    BY <1>3, <1>4, <2>3, <2>5, <2>6, RequestSent DEF JobOK
<1>8. CASE PumpSaved
  <2>1. SaveOK(r.job, editForm, pendingNav, owed, approved)
    BY <1>2, <1>8 DEF PumpSaved, Polling, AnswerOK, JobOK, r
  <2>2. owed' = {} /\ ~editForm.typed /\ editForm' = editForm
    BY <1>8, <2>1 DEF PumpSaved, Report, SaveOK, r
  <2>3. CASE r.job.quit
    <3>1. posted' = {"QUIT"} /\ NothingAsked'
      BY <1>2, <1>4, <1>8, <2>2, <2>3 DEF PumpSaved, Calm, NothingAsked, r
    <3>2. UNCHANGED <<requestedLeaf, dialog, lastError, lastConflict>>
      BY <1>8 DEF PumpSaved
    <3>3. QED
      BY <1>2, <1>3, <2>2, <3>1, <3>2, CommandPosted DEF Calm, NoPrompt
  <2>4. CASE ~r.job.quit
    <3>1. Reread(NextLeaf(r.job)) /\ Calm'
      BY <1>2, <1>8, <2>4, CalmKept DEF PumpSaved, r
    <3>2. QED
      BY <1>2, <1>3, <1>4, <2>2, <3>1, ReadSent DEF ReadOK
  <2>5. QED
    BY <2>3, <2>4
<1>9. CASE PumpWriteError
  <2>1. SaveOK(r.job, editForm, pendingNav, owed, approved)
    BY <1>2, <1>9 DEF PumpWriteError, JobOK, r
  <2>2. owed' = {} /\ editForm' = editForm
    BY <1>9, <2>1 DEF PumpWriteError, Report, SaveOK, r
  <2>3. posted' = {"SHOW_ERROR"} /\ NothingAsked'
    BY <1>2, <1>4, <1>9, <2>2 DEF PumpWriteError, Calm, NothingAsked
  <2>4. UNCHANGED <<requestedLeaf, dialog, lastConflict>>
    BY <1>9 DEF PumpWriteError
  <2>5. QED
    BY <1>2, <1>3, <2>2, <2>3, <2>4, CommandPosted DEF Calm, NoPrompt
<1>10. CASE PumpConflict
  <2> DEFINE j == RereadJob(r.job)
  <2>1. SaveOK(r.job, editForm, pendingNav, owed, approved) /\ r.job.op = "modify"
        /\ r.job.plan.name = r.job.plan.dn
    BY <1>2, <1>10 DEF PumpConflict, Polling, AnswerOK, JobOK, r
  <2>2. r.job \in Job
    BY <1>2 DEF Response
  <2>3. /\ j.op = "reread" /\ j.dn = r.job.dn /\ j.plan = r.job.plan
        /\ j.nav = r.job.nav /\ j.quit = r.job.quit /\ j.save = r.job.save
    BY <2>2 DEF RereadJob, Job
  <2>4. jobs' = Append(<<>>, j) /\ Calm'
        /\ UNCHANGED <<editForm, pendingNav, owed, approved>>
    BY <1>2, <1>10, CalmKept DEF PumpConflict, Submit, r
  <2> HIDE DEF j
  <2>5. SaveOK(j, editForm', pendingNav', owed', approved')
    BY <2>1, <2>3, <2>4 DEF SaveOK
  <2>6. QED
    BY <1>3, <1>4, <2>3, <2>4, <2>5, RequestSent DEF JobOK
<1>11. QED
  BY <1>5, <1>6, <1>7, <1>8, <1>9, <1>10

LEMMA ResolveWaits ==
  ASSUME TypeOK, Waits, RereadFailed \/ ResolveByAsking \/ ResolveByRebasing
  PROVE  Waits'
<1> USE DEF dirVars, workerVars, navVars, alertVars, histVars
<1> DEFINE r == Head(reply)
<1>1. reply # <<>> /\ reply' = <<>> /\ resps' = resps
  BY DEF RereadFailed, ResolveByAsking, ResolveByRebasing
<1>2. /\ Calm /\ jobs = <<>> /\ resps = <<>> /\ r \in Response
      /\ JobOK(r.job, editForm, pendingNav, owed, approved) /\ ReplyOK(r)
  BY <1>1, ReplyFacts
<1>3. editForm \in Form /\ FormShown(editForm)
  BY DEF TypeOK, Waits
<1>4. SaveOK(r.job, editForm, pendingNav, owed, approved)
  BY <1>2 DEF ReplyOK, JobOK
<1> HIDE DEF r
<1>5. CASE RereadFailed
  <2>1. owed' = {} /\ editForm' = editForm
    BY <1>4, <1>5 DEF RereadFailed, Report, SaveOK, r
  <2>2. posted' = {"SHOW_ERROR"} /\ NothingAsked'
    BY <1>1, <1>2, <1>5, <2>1 DEF RereadFailed, Calm, NothingAsked
  <2>3. UNCHANGED <<requestedLeaf, dialog, lastConflict>>
    BY <1>5 DEF RereadFailed
  <2>4. QED
    BY <1>2, <1>3, <2>1, <2>2, <2>3, CommandPosted DEF Calm, NoPrompt
<1>6. CASE ResolveByAsking
  <2>1. owed' = {} /\ editForm' = editForm
    BY <1>4, <1>6 DEF ResolveByAsking, Report, SaveOK, r
  <2>2. posted' = {"SHOW_ERROR"} /\ NothingAsked'
    BY <1>1, <1>2, <1>6, <2>1 DEF ResolveByAsking, Calm, NothingAsked
  <2>3. UNCHANGED <<requestedLeaf, dialog, lastError>>
    BY <1>6 DEF ResolveByAsking
  <2>4. lastConflict'.csn # 0 /\ lastConflict'.dn # NoDN
    BY <1>2, <1>4, <1>6 DEF ResolveByAsking, ReplyOK, Overlap, IsOpen, SaveOK, PlanOf, r
  <2>5. QED
    BY <1>2, <1>3, <2>1, <2>2, <2>3, <2>4, CommandPosted DEF Calm
<1>7. CASE ResolveByRebasing
  <2> DEFINE g == Rebased(editForm, r.job.dn, r.csn, r.val)
             j == SaveJob(PlanOf(g), BaselineCsn(g), r.job.quit, r.job.save, r.job.nav, FALSE)
  <2>1. /\ r.job.dn = editForm.dn /\ editForm.name = editForm.dn /\ r.csn # 0
        /\ r.csn \in Nat /\ r.val \in Content /\ \A a \in Must : r.val[a] # {}
        /\ Prepared(editForm) = "ready" /\ ~editForm.typed
    BY <1>2, <1>4, <1>7 DEF ResolveByRebasing, ReplyOK, SaveOK, PlanOf, Response, r
  <2>2. ~Overlap(editForm, editForm.dn, r.val)
    BY <1>7, <2>1 DEF ResolveByRebasing, r
  <2>3. /\ FormShown(g) /\ ~g.typed /\ Prepared(g) = "ready"
        /\ g.dn = editForm.dn /\ g.name = editForm.dn
        /\ Preview(PlanOf(g)) = Preview(PlanOf(editForm))
    BY <1>3, <2>1, <2>2, RebaseIsTheSave
  <2>4. editForm' = g /\ jobs' = Append(<<>>, j)
        /\ UNCHANGED <<pendingNav, owed, approved>>
    BY <1>2, <1>7, <2>3 DEF ResolveByRebasing, Submit, r
  <2>5. Calm'
    BY <1>2, <1>7, CalmKept DEF ResolveByRebasing
  <2>6. PlanOf(g).name = g.name /\ PlanOf(g).dn = g.dn
    BY DEF PlanOf
  <2> HIDE DEF g
  <2>7. /\ j.op = "modify" /\ j.dn = j.plan.name /\ j.csn = BaselineCsn(g) /\ j.plan = PlanOf(g)
        /\ j.nav = r.job.nav /\ j.quit = r.job.quit /\ j.save = r.job.save
        /\ j.plan.name = j.plan.dn
    BY <2>3, <2>6 DEF SaveJob
  <2> HIDE DEF j
  <2>8. SaveOK(j, editForm', pendingNav', owed', approved')
    BY <1>4, <2>3, <2>4, <2>7 DEF SaveOK
  <2>9. resps' = <<>> /\ FormShown(editForm') /\ j.op # "read"
    BY <1>1, <1>2, <2>3, <2>4, <2>7
  <2>10. QED
    BY <1>1, <2>4, <2>5, <2>8, <2>9, RequestSent DEF JobOK
<1>8. QED
  BY <1>5, <1>6, <1>7

(***************************************************************************)
(* The requested leaf and the posted commands.                             *)
(***************************************************************************)
LEMMA ReconcileWaits ==
  ASSUME TypeOK, Waits, ReconcileSelection
  PROVE  Waits'
<1> USE DEF dirVars, workerVars, navVars, alertVars, histVars
<1>1. /\ ~Busy /\ posted = {} /\ dialog = Closed /\ owed = {}
      /\ lastError = FALSE /\ lastConflict = NoPrompt
  BY DEF ReconcileSelection, Waits, OneThing, CarriedOK, TypeOK
<1>2. /\ jobs = <<>> /\ resps' = <<>> /\ reply' = <<>> /\ owed' = {} /\ requestedLeaf' = NoDN
      /\ dialog' = Closed /\ lastError' = FALSE /\ lastConflict' = NoPrompt
      /\ editForm' = editForm
  BY <1>1 DEF ReconcileSelection, Busy
<1>3. FormShown(editForm')
  BY <1>2 DEF Waits
<1>4. CASE requestedLeaf = currentLeaf
  <2>1. NothingAsked' /\ posted' = {}
    BY <1>1, <1>2, <1>4 DEF ReconcileSelection, NothingAsked
  <2>2. QED
    BY <1>2, <1>3, <2>1, NothingLeft DEF DialogOK, Closed, NoPrompt
<1>5. CASE requestedLeaf # currentLeaf /\ IsDirty(editForm)
  <2>1. NothingAsked' /\ posted' = {"GUARD_NAV"}
    BY <1>1, <1>2, <1>5 DEF ReconcileSelection, NothingAsked
  <2>2. QED
    BY <1>2, <1>3, <2>1, CommandPosted DEF NoPrompt
<1>6. CASE requestedLeaf # currentLeaf /\ ~IsDirty(editForm)
  <2>1. Reread(requestedLeaf) /\ posted' = {}
    BY <1>1, <1>6 DEF ReconcileSelection
  <2>2. QED
    BY <1>2, <1>3, <1>6, <2>1, ReadSent DEF Calm, ReadOK
<1>7. QED
  BY <1>4, <1>5, <1>6

LEMMA DispatchWaits ==
  ASSUME TypeOK, Waits, Dispatch
  PROVE  Waits'
<1> USE DEF dirVars, workerVars, navVars, alertVars, histVars
<1>1. PICK c : Dispatching(c) /\ c \in {"GUARD_NAV", "SHOW_ERROR", "QUIT"}
  BY DEF Dispatch, RunGuard, ShowConflict, ShowError, Quit
<1>2. NothingAsked /\ posted = {c} /\ requestedLeaf = NoDN /\ dialog = Closed
  BY <1>1, CommandFacts
<1>3. NothingAsked' /\ requestedLeaf' = NoDN /\ editForm' = editForm
  BY <1>2 DEF Dispatch, RunGuard, ShowConflict, ShowError, Quit, NothingAsked
<1>4. FormShown(editForm')
  BY <1>3 DEF Waits
<1>5. /\ lastError \/ lastConflict # NoPrompt => c = "SHOW_ERROR"
      /\ lastError => lastConflict = NoPrompt
      /\ lastConflict # NoPrompt => lastConflict.dn # NoDN /\ lastConflict.csn # 0
      /\ lastError \in BOOLEAN
  BY <1>2 DEF Waits, OneThing, DialogOK, TypeOK
<1>6. CASE RunGuard \/ Quit
  <2>1. c # "SHOW_ERROR" /\ posted' = {}
    BY <1>2, <1>6 DEF RunGuard, Quit, Dispatching
  <2>2. lastError' = FALSE /\ lastConflict' = NoPrompt
    BY <1>5, <1>6, <2>1 DEF RunGuard, Quit
  <2>3. dialog'.kind \in {"guard", "none"}
    <3>1. CASE RunGuard
      BY <3>1 DEF RunGuard, Closed
    <3>2. CASE Quit
      BY <1>2, <3>2 DEF Quit, Closed
    <3>3. QED
      BY <1>6, <3>1, <3>2
  <2>4. QED
    BY <1>3, <1>4, <2>1, <2>2, <2>3, NothingLeft DEF DialogOK, NoPrompt
<1>7. CASE ShowConflict
  <2>1. lastError = FALSE /\ c = "SHOW_ERROR" /\ lastConflict.csn # 0
    BY <1>2, <1>5, <1>7 DEF ShowConflict, Dispatching, NoPrompt
  <2>2. posted' = {} /\ lastError' = FALSE /\ lastConflict' = NoPrompt
    BY <1>2, <1>7, <2>1 DEF ShowConflict
  <2>3. dialog'.kind = "conflict" /\ dialog'.csn # 0
    BY <1>7, <2>1 DEF ShowConflict, Closed
  <2>4. QED
    BY <1>3, <1>4, <2>2, <2>3, NothingLeft DEF DialogOK, NoPrompt
<1>8. CASE ShowError
  <2>1. c = "SHOW_ERROR" /\ posted' = {} /\ lastError' = FALSE
    BY <1>2, <1>8 DEF ShowError, Dispatching
  <2>2. dialog'.kind \in {"error", "none"} /\ lastConflict' = lastConflict
    BY <1>8 DEF ShowError, Closed
  <2>3. lastConflict = NoPrompt
    BY <1>8, <1>2, <1>5 DEF ShowError
  <2>4. QED
    BY <1>3, <1>4, <2>1, <2>2, <2>3, NothingLeft DEF DialogOK, NoPrompt
<1>9. QED
  BY <1>6, <1>7, <1>8 DEF Dispatch

(***************************************************************************)
(* The worker: the job and its answer are one thing.                       *)
(***************************************************************************)
LEMMA WorkerWaits ==
  ASSUME TypeOK, Waits, SchemaKept, Worker \/ WorkerFault \/ WorkerRereadFault
  PROVE  Waits'
<1> USE DEF dirVars, workerVars, navVars, alertVars, histVars
<1> DEFINE j == Head(jobs)
<1>1. jobs # <<>> /\ Served
  BY DEF Worker, WorkerRead, WorkerReread, WorkerModify, WorkerModrdn, WorkerFault,
         WorkerRereadFault, Serving
<1>2. /\ Calm /\ resps = <<>> /\ reply = <<>> /\ Tail(jobs) = <<>> /\ j \in Job
      /\ JobOK(j, editForm, pendingNav, owed, approved)
  BY <1>1, JobFacts
<1> HIDE DEF j
<1>3. /\ jobs' = <<>> /\ Calm' /\ UNCHANGED <<editForm, pendingNav, owed, approved>>
  BY <1>1, <1>2, CalmKept DEF Served
<1>4. FormShown(editForm') /\ JobOK(j, editForm', pendingNav', owed', approved')
  BY <1>2, <1>3 DEF Waits
<1>5. ASSUME NEW k, NEW d, Answer(k, d), reply' = reply, AnswerOK(AnswerOf(k, d))
      PROVE  Waits'
  <2> DEFINE r == AnswerOf(k, d)
  <2>1. resps' = Append(<<>>, r) /\ r.job = j
    BY <1>2, <1>5 DEF Answer, AnswerOf, j
  <2> HIDE DEF r
  <2>2. reply' = <<>> /\ AnswerOK(r)
    BY <1>2, <1>5 DEF r
  <2>3. QED
    BY <1>3, <1>4, <2>1, <2>2, AnswerSent
<1>6. ASSUME NEW k, NEW d, AnswerOf(k, d).kind = k
      PROVE  /\ AnswerOf(k, d).job = j
             /\ k = "error" /\ j.op # "reread" => AnswerOK(AnswerOf(k, d))
  BY DEF AnswerOf, AnswerOK, j
<1>7. CASE WorkerRead
  <2> DEFINE d == j.dn
             k == IF Exists(d) THEN "entry" ELSE "error"
  <2>1. j.op = "read" /\ Answer(k, d) /\ reply' = reply /\ srv' = srv
    BY <1>7 DEF WorkerRead, Serving, Unwritten, j
  <2>2. k = "entry" => Found(d).csn # 0
    BY <2>1 DEF Exists, Found
  <2>3. AnswerOK(AnswerOf(k, d))
    BY <2>1, <2>2 DEF AnswerOK, AnswerOf, j
  <2>4. QED
    BY <1>5, <2>1, <2>3
<1>8. CASE WorkerModify
  <2> DEFINE k == ModifyVerdict(j)
  <2>1. j.op = "modify" /\ Answer(k, j.dn) /\ reply' = reply
    BY <1>8 DEF WorkerModify, Serving, j
  <2>2. k \in {"ok", "error", "conflict"} /\ (k = "conflict" => j.csn # 0)
    BY DEF ModifyVerdict
  <2>3. j.csn # 0 => j.plan.name = j.plan.dn
    BY <1>2, <2>1 DEF JobOK, SaveOK
  <2> HIDE DEF k
  <2>4. AnswerOf(k, j.dn).kind = k /\ AnswerOf(k, j.dn).job = j
    BY DEF AnswerOf, j
  <2>5. AnswerOK(AnswerOf(k, j.dn))
    BY <2>1, <2>2, <2>3, <2>4 DEF AnswerOK
  <2>6. QED
    BY <1>5, <2>1, <2>5
<1>9. CASE WorkerModrdn
  <2>1. PICK k \in {"ok", "error"} : Answer(k, j.plan.name)
    BY <1>9 DEF WorkerModrdn, j
  <2>2. j.op = "modrdn" /\ reply' = reply
    BY <1>9 DEF WorkerModrdn, Serving, j
  <2>3. AnswerOf(k, j.plan.name).kind = k /\ AnswerOf(k, j.plan.name).job = j
    BY DEF AnswerOf, j
  <2>4. AnswerOK(AnswerOf(k, j.plan.name))
    BY <2>1, <2>2, <2>3 DEF AnswerOK
  <2>5. QED
    BY <1>5, <2>1, <2>2, <2>4
<1>10. CASE WorkerFault
  <2>1. j.op # "reread" /\ reply' = reply /\ Answer("error", j.dn)
    BY <1>10 DEF WorkerFault, j
  <2>2. AnswerOf("error", j.dn).kind = "error" /\ AnswerOf("error", j.dn).job = j
    BY DEF AnswerOf, j
  <2>3. AnswerOK(AnswerOf("error", j.dn))
    BY <2>1, <2>2 DEF AnswerOK
  <2>4. QED
    BY <1>5, <2>1, <2>3
<1>11. CASE WorkerReread
  <2> DEFINE k == IF Exists(j.dn) THEN "entry" ELSE "error"
             r == AnswerOf(k, j.dn)
  <2>1. j.op = "reread" /\ reply' = <<r>> /\ resps' = resps /\ srv' = srv
    BY <1>11 DEF WorkerReread, Serving, Unwritten, j
  <2>2. r.kind = k /\ r.job = j /\ r.csn = Found(j.dn).csn /\ r.val = Found(j.dn).val
    BY DEF AnswerOf, j
  <2>3. Exists(j.dn) => Found(j.dn).csn # 0 /\ \A a \in Must : Found(j.dn).val[a] # {}
    BY <2>1 DEF Exists, Found, SchemaKept
  <2> HIDE DEF r
  <2>4. ReplyOK(r)
    BY <2>1, <2>2, <2>3 DEF ReplyOK
  <2>5. QED
    BY <1>2, <1>3, <1>4, <2>1, <2>2, <2>4, ReplySent
<1>12. CASE WorkerRereadFault
  <2> DEFINE r == [kind |-> "error", job |-> j, csn |-> 0, val |-> Empty]
  <2>1. j.op = "reread" /\ reply' = <<r>> /\ resps' = resps
    BY <1>12 DEF WorkerRereadFault, Serving, j
  <2>2. r.kind = "error" /\ r.job = j
    OBVIOUS
  <2> HIDE DEF r
  <2>3. ReplyOK(r)
    BY <2>1, <2>2 DEF ReplyOK
  <2>4. QED
    BY <1>2, <1>3, <1>4, <2>1, <2>2, <2>3, ReplySent
<1>13. QED
  BY <1>7, <1>8, <1>9, <1>10, <1>11, <1>12 DEF Worker

(***************************************************************************)
(* Other clients touch nothing of this, and the server keeps the schema.   *)
(***************************************************************************)
LEMMA UntouchedWaits ==
  ASSUME Waits, Others \/ UNCHANGED vars
  PROVE  Waits'
<1>1. UNCHANGED <<workerVars, editForm, navVars, alertVars, dialog, histVars>>
  BY DEF Others, OtherWrite, OtherDelete, vars
<1>2. UNCHANGED <<jobs, resps, reply, editForm, requestedLeaf, pendingNav, posted, lastError,
                  lastConflict, dialog, owed, approved>>
  BY <1>1 DEF workerVars, navVars, alertVars, histVars
<1>3. OneThing' /\ CarriedOK' /\ DialogOK' /\ FormShown(editForm')
  BY <1>2 DEF Waits, OneThing, Busy, CarriedOK, DialogOK
<1>4. QED
  BY <1>3 DEF Waits

Obeys(val) == \A a \in Must : val[a] # {}

LEMMA SchemaOfOne ==
  ASSUME TypeOK, SchemaKept, NEW d, NEW c, NEW v, Obeys(v),
         srv' = [srv EXCEPT ![d] = [csn |-> c, val |-> v]]
  PROVE  SchemaKept'
<1>1. \A e \in DNs : srv'[e] = srv[e] \/ srv'[e].val = v
  BY DEF TypeOK
<1>2. QED
  BY <1>1 DEF SchemaKept, Obeys, Exists

LEMMA SchemaStep ==
  ASSUME TypeOK, SchemaKept, [Next]_vars
  PROVE  SchemaKept'
<1> USE DEF dirVars
<1>1. srv' = srv => SchemaKept'
  BY DEF SchemaKept, Exists
<1> DEFINE j == Head(jobs)
<1>2. ASSUME Exists(j.dn), srv' = [srv EXCEPT ![j.dn] = [csn |-> 0, val |-> Empty],
                                              ![j.plan.name] = [csn |-> clock + 1, val |-> srv[j.dn].val]]
      PROVE  SchemaKept'
  <2>1. Obeys(srv[j.dn].val)
    BY <1>2 DEF SchemaKept, Obeys, Exists
  <2>2. \A e \in DNs : srv'[e] = srv[e] \/ srv'[e].csn = 0 \/ srv'[e].val = srv[j.dn].val
    BY <1>2 DEF TypeOK
  <2>3. QED
    BY <2>1, <2>2 DEF SchemaKept, Obeys, Exists
<1>3. CASE WorkerModify \/ WorkerFault
  <2> DEFINE v == Apply(j.plan.mods, srv[j.dn].val)
             s == [srv EXCEPT ![j.dn] = [csn |-> 0, val |-> Empty],
                              ![j.plan.name] = [csn |-> clock + 1, val |-> srv[j.dn].val]]
  <2>1. ModifyVerdict(j) = "ok" => Obeys(v)
    BY DEF ModifyVerdict, Obeys
  <2>2. \/ srv' = srv
        \/ ModifyVerdict(j) = "ok" /\ srv' = [srv EXCEPT ![j.dn] = [csn |-> clock + 1, val |-> v]]
        \/ Exists(j.dn) /\ srv' = s
    BY <1>3 DEF WorkerModify, WorkerFault, Stored, Unwritten
  <2> HIDE DEF v
  <2>3. QED
    BY <1>1, <1>2, <2>1, <2>2, SchemaOfOne
<1>4. CASE WorkerModrdn
  BY <1>1, <1>2, <1>4 DEF WorkerModrdn, Unwritten
<1> HIDE DEF j
<1>5. ASSUME NEW d \in DNs, NEW a \in Attrs, NEW vs \in Writable, OtherWrite(d, a, vs)
      PROVE  SchemaKept'
  <2> DEFINE v == [srv[d].val EXCEPT ![a] = vs]
  <2>1. Obeys(srv[d].val) /\ (a \in Must => vs # {})
    BY <1>5 DEF OtherWrite, SchemaKept, Obeys
  <2>2. srv[d].val \in Content
    BY DEF TypeOK, Entry
  <2>3. Obeys(v)
    BY <2>1, <2>2, EntrySaveAssumption DEF Obeys, Content
  <2>4. srv' = [srv EXCEPT ![d] = [csn |-> clock + 1, val |-> v]]
    BY <1>5 DEF OtherWrite
  <2> HIDE DEF v
  <2>5. QED
    BY <2>3, <2>4, SchemaOfOne
<1>6. ASSUME NEW d \in DNs, OtherDelete(d) PROVE SchemaKept'
  <2>1. \A e \in DNs : srv'[e] = srv[e] \/ srv'[e].csn = 0
    BY <1>6 DEF OtherDelete, TypeOK
  <2>2. QED
    BY <2>1 DEF SchemaKept, Exists
<1>7. CASE Operator \/ Pump \/ ReconcileSelection \/ Dispatch
  <2>1. UNCHANGED srv
    BY <1>7 DEF Operator, EditField, EditName, RequestLeaf, PressSave, RequestQuit, ConfirmSave,
                Dismiss, GuardSave, GuardDiscard, GuardStay, QuitSave, QuitDiscard, QuitStay,
                ConflictOverwrite, ConflictReload, ConflictKeep, Pump, PumpEntry, PumpReadError,
                PumpRenamed, PumpSaved, PumpWriteError, PumpConflict, RereadFailed,
                ResolveByAsking, ResolveByRebasing, ReconcileSelection, Dispatch, RunGuard,
                ShowConflict, ShowError, Quit
  <2>2. QED
    BY <1>1, <2>1
<1>8. CASE WorkerRead \/ WorkerReread \/ WorkerRereadFault \/ UNCHANGED vars
  BY <1>1, <1>8 DEF WorkerRead, WorkerReread, WorkerRereadFault, Unwritten, vars
<1>9. QED
  BY <1>3, <1>4, <1>5, <1>6, <1>7, <1>8 DEF Next, Worker, Others

(***************************************************************************)
(* The inductive invariant of the waiting operator, with the one about     *)
(* copies.  A directory that obeys its schema at the start keeps it.       *)
(***************************************************************************)
WaitInv == TypeOK /\ CopiesAreFaithful /\ SchemaKept /\ Waits

LEMMA WaitInit ==
  ASSUME \A a \in Must : InitVal[a] # {}
  PROVE  Init => WaitInv
<1> SUFFICES ASSUME Init PROVE WaitInv
  OBVIOUS
<1>1. TypeOK /\ CopiesAreFaithful
  BY TypeInit, CopiesInit
<1>2. SchemaKept
  BY DEF Init, SchemaKept, Exists
<1>3. NothingAsked /\ Calm /\ editForm = NoForm
  BY DEF Init, NothingAsked, Calm
<1>4. FormShown(editForm)
  BY <1>3 DEF FormShown, NoForm, IsOpen
<1>5. OneThing
  BY <1>3 DEF OneThing, Busy, NothingAsked, Calm
<1>6. DialogOK /\ CarriedOK
  BY <1>3 DEF DialogOK, CarriedOK, Busy, NothingAsked, Calm, Closed, NoPrompt
<1>7. QED
  BY <1>1, <1>2, <1>4, <1>5, <1>6 DEF WaitInv, Waits

LEMMA WaitStep ==
  ASSUME OperatorWaits, WaitInv, [Next]_vars
  PROVE  WaitInv'
<1>1. TypeOK /\ CopiesAreFaithful /\ SchemaKept /\ Waits
  BY DEF WaitInv
<1>2. TypeOK' /\ CopiesAreFaithful' /\ SchemaKept'
  BY <1>1, TypeStep, CopiesStep, SchemaStep
<1>3. Waits'
  <2>1. CASE Operator
    BY <1>1, <2>1, PaneWaits, ConfirmWaits, AnsweredWaits DEF Operator
  <2>2. CASE Pump
    BY <1>1, <2>2, PumpWaits, ResolveWaits DEF Pump
  <2>3. CASE ReconcileSelection \/ Dispatch
    BY <1>1, <2>3, ReconcileWaits, DispatchWaits
  <2>4. CASE Worker \/ WorkerFault \/ WorkerRereadFault
    BY <1>1, <2>4, WorkerWaits
  <2>5. CASE Others \/ UNCHANGED vars
    BY <1>1, <2>5, UntouchedWaits
  <2>6. QED
    BY <2>1, <2>2, <2>3, <2>4, <2>5 DEF Next
<1>4. QED
  BY <1>2, <1>3 DEF WaitInv

LEMMA WaitCorrect ==
  ASSUME OperatorWaits, \A a \in Must : InitVal[a] # {}
  PROVE  Spec => []WaitInv
<1>1. Init => WaitInv
  BY WaitInit
<1>2. WaitInv /\ [Next]_vars => WaitInv'
  BY WaitStep
<1>3. QED
  BY <1>1, <1>2, PTL DEF Spec

LEMMA TheOneJob ==
  ASSUME WaitInv, NEW i \in 1..Len(jobs)
  PROVE  jobs # <<>> /\ jobs[i] = Head(jobs)
<1>1. jobs \in Seq(Job) /\ Len(jobs) <= 1
  BY DEF WaitInv, TypeOK, Waits, OneThing
<1>2. i = 1
  BY <1>1
<1>3. QED
  BY <1>1, <1>2

(***************************************************************************)
(* The operator who waits loses no update of anyone: a save the server     *)
(* would accept, whose CSN therefore is the entry's current one, was made  *)
(* from the baseline of the form that has that CSN, and that baseline is   *)
(* what the operator was shown.  Through any number of writes by other     *)
(* clients, conflicts and silent rebases in between.                       *)
(***************************************************************************)
THEOREM NothingLost ==
  ASSUME OperatorWaits, \A a \in Must : InitVal[a] # {}
  PROVE  Spec => []NoLostUpdate
<1>1. WaitInv => NoLostUpdate
  <2> SUFFICES ASSUME WaitInv, AssertionSupported, NEW i \in 1..Len(jobs),
                      WouldApply(jobs[i]), jobs[i].dn = jobs[i].plan.dn, ~jobs[i].plan.forced
               PROVE  SawCurrent(jobs[i])
    BY DEF NoLostUpdate
  <2> DEFINE j == Head(jobs)
  <2>1. jobs # <<>> /\ jobs[i] = j
    BY TheOneJob
  <2>2. SaveOK(j, editForm, pendingNav, owed, approved) /\ j.op = "modify"
        /\ ModifyVerdict(j) = "ok" /\ j.dn = j.plan.dn /\ ~j.plan.forced
    BY <2>1 DEF WaitInv, Waits, CarriedOK, JobOK, WouldApply
  <2>3. j.plan = PlanOf(editForm) /\ j.csn = editForm.csn /\ IsOpen(editForm)
    BY <2>2 DEF SaveOK, BaselineCsn, Prepared
  <2> HIDE DEF j
  <2>4. /\ j.plan.seen = editForm.seen /\ j.plan.forced = editForm.forced
        /\ j.plan.dn = editForm.dn /\ j.plan.mods = Diff(editForm.base, editForm.val)
    BY <2>3 DEF PlanOf
  <2>5. editForm.csn # 0 /\ editForm.seen = editForm.base
    BY <2>3 DEF WaitInv, Waits, FormShown
  <2>6. Exists(j.dn) /\ j.csn = srv[j.dn].csn
    BY <2>2, <2>3, <2>5 DEF ModifyVerdict
  <2>7. srv[j.dn].val = editForm.base
    BY <2>2, <2>3, <2>4, <2>5, <2>6 DEF WaitInv, CopiesAreFaithful, FaithfulForm, Faithful, Exists
  <2>8. SawCurrent(j)
    BY <2>4, <2>5, <2>7 DEF SawCurrent
  <2>9. QED
    BY <2>1, <2>8
<1>2. QED
  BY <1>1, WaitCorrect, PTL

(***************************************************************************)
(* What the waiting operator confirms is what is written: every write on   *)
(* its way, a save sent again after a silent rebase and the modifications  *)
(* that follow a rename included, makes a change shown in a preview.       *)
(***************************************************************************)
THEOREM NothingUnseenIsWritten ==
  ASSUME OperatorWaits, \A a \in Must : InitVal[a] # {}
  PROVE  Spec => []WritesArePreviewed
<1>1. WaitInv => WritesArePreviewed
  <2> SUFFICES ASSUME WaitInv, NEW i \in 1..Len(jobs), jobs[i].op \in {"modify", "modrdn"}
               PROVE  Preview(jobs[i].plan) \in approved
    BY DEF WritesArePreviewed
  <2>1. jobs # <<>> /\ jobs[i] = Head(jobs)
    BY TheOneJob
  <2>2. QED
    BY <2>1 DEF WaitInv, Waits, CarriedOK, JobOK, SaveOK
<1>2. QED
  BY <1>1, WaitCorrect, PTL

(***************************************************************************)
(* No save of the waiting operator is dropped silently: while its outcome  *)
(* was not reported it is the one thing under way.  A rebase never finds   *)
(* it empty or invalid (resubmit_save gives up in silence when it does).   *)
(***************************************************************************)
THEOREM NothingDropped ==
  ASSUME OperatorWaits, \A a \in Must : InitVal[a] # {}
  PROVE  Spec => []NoSilentDrop
<1>1. WaitInv => NoSilentDrop
  <2> SUFFICES ASSUME WaitInv, NEW s \in owed PROVE InFlight(s)
    BY DEF NoSilentDrop
  <2>1. Busy /\ jobs \in Seq(Job) /\ resps \in Seq(Response) /\ reply \in Seq(Response)
    BY DEF WaitInv, Waits, CarriedOK, TypeOK
  <2>2. CASE jobs # <<>>
    <3>1. Head(jobs).save = s
      BY <2>2 DEF WaitInv, Waits, CarriedOK, JobOK, ReadOK, SaveOK
    <3>2. 1 \in 1..Len(jobs) /\ jobs[1] = Head(jobs)
      BY <2>1, <2>2
    <3>3. QED
      BY <3>1, <3>2 DEF InFlight
  <2>3. CASE resps # <<>>
    <3>1. Head(resps).job.save = s
      BY <2>3 DEF WaitInv, Waits, CarriedOK, JobOK, ReadOK, SaveOK
    <3>2. 1 \in 1..Len(resps) /\ resps[1] = Head(resps)
      BY <2>1, <2>3
    <3>3. QED
      BY <3>1, <3>2 DEF InFlight
  <2>4. CASE reply # <<>>
    <3>1. Head(reply).job.save = s
      BY <2>4 DEF WaitInv, Waits, CarriedOK, JobOK, ReadOK, SaveOK
    <3>2. 1 \in 1..Len(reply) /\ reply[1] = Head(reply)
      BY <2>1, <2>4
    <3>3. QED
      BY <3>1, <3>2 DEF InFlight
  <2>5. QED
    BY <2>1, <2>2, <2>3, <2>4 DEF Busy
<1>2. QED
  BY <1>1, WaitCorrect, PTL

(***************************************************************************)
(* Nothing the waiting operator types is lost to a read: when an entry's   *)
(* answer is put into the pane, the form there is saved or clean.          *)
(***************************************************************************)
THEOREM NothingTypedIsLost ==
  ASSUME OperatorWaits, \A a \in Must : InitVal[a] # {}
  PROVE  Spec => EditsSurviveReads
<1>1. WaitInv /\ [Next]_vars => [PumpEntry => ~(editForm.typed /\ IsDirty(editForm))]_vars
  <2> SUFFICES ASSUME WaitInv, PumpEntry PROVE ~(editForm.typed /\ IsDirty(editForm))
    OBVIOUS
  <2>1. resps # <<>> /\ Head(resps).kind = "entry"
    BY DEF PumpEntry, Polling
  <2>2. AnswerOK(Head(resps)) /\ JobOK(Head(resps).job, editForm, pendingNav, owed, approved)
    BY <2>1 DEF WaitInv, Waits, CarriedOK
  <2>3. QED
    BY <2>1, <2>2 DEF AnswerOK, JobOK, ReadOK
<1>2. QED
  BY <1>1, WaitCorrect, PTL DEF Spec, EditsSurviveReads

(***************************************************************************)
(* The move a guard's Save was pressed for is made when the save lands,    *)
(* after however many silent rebases.                                      *)
(***************************************************************************)
THEOREM MovesComplete ==
  ASSUME OperatorWaits, \A a \in Must : InitVal[a] # {}
  PROVE  Spec => GuardMoveCompletes
<1>1. WaitInv /\ [Next]_vars =>
        [PumpSaved /\ Head(resps).job.nav # NoDN => currentLeaf' = Head(resps).job.nav]_vars
  <2> SUFFICES ASSUME WaitInv, PumpSaved, Head(resps).job.nav # NoDN
               PROVE  currentLeaf' = Head(resps).job.nav
    OBVIOUS
  <2>1. resps # <<>> /\ Head(resps).kind = "ok"
    BY DEF PumpSaved, Polling
  <2>2. AnswerOK(Head(resps)) /\ JobOK(Head(resps).job, editForm, pendingNav, owed, approved)
    BY <2>1 DEF WaitInv, Waits, CarriedOK
  <2>3. SaveOK(Head(resps).job, editForm, pendingNav, owed, approved)
    BY <2>1, <2>2 DEF AnswerOK, JobOK
  <2>4. pendingNav = Head(resps).job.nav /\ ~Head(resps).job.quit
    BY <2>3 DEF SaveOK
  <2>5. QED
    BY <2>4 DEF PumpSaved, Reread, NextLeaf
<1>2. QED
  BY <1>1, WaitCorrect, PTL DEF Spec, GuardMoveCompletes

-----------------------------------------------------------------------------
(***************************************************************************)
(* An operator who does not wait, on a directory where every read finds    *)
(* its entry: nothing is deleted, nothing fails, and every name exists (so *)
(* that a rename finds its target taken).  Any number of reads may be      *)
(* outstanding; the last one asked for is the one the pane ends with.      *)
(***************************************************************************)
ReadsSucceed == Present = DNs /\ ~OthersDelete /\ MaxFaults = 0

AllThere == \A d \in DNs : srv[d].csn # 0

PlanNamed(p) == p.dn \in DNs /\ p.name \in DNs

JobNamed(j) == j.dn \in DNs /\ (j.op # "read" => PlanNamed(j.plan))

AnswerNamed(r) ==
  /\ JobNamed(r.job)
  /\ r.kind = "entry" <=> r.job.op = "read"
  /\ r.kind = "ok" => r.job.op = "modify"

JobsNamed(s)    == \A i \in 1..Len(s) : JobNamed(s[i])
AnswersNamed(s) == \A i \in 1..Len(s) : AnswerNamed(s[i])
RepliesNamed(s) == \A i \in 1..Len(s) : JobNamed(s[i].job)
FormNamed(f)    == IsOpen(f) => f.dn \in DNs /\ f.name \in DNs
DialogNamed(d)  == /\ d.kind = "confirm" => PlanNamed(d.plan)
                   /\ d.kind = "conflict" => d.dn \in DNs

Named ==
  /\ FormNamed(editForm) /\ DialogNamed(dialog)
  /\ JobsNamed(jobs) /\ AnswersNamed(resps) /\ RepliesNamed(reply)

NoRead(s) == \A i \in 1..Len(s) : s[i].op # "read"

LastReadIs(d, s) ==
  \A i \in 1..Len(s) :
    s[i].op = "read" /\ (\A k \in 1..Len(s) : k > i => s[k].op # "read") => s[i].dn = d

JobsOf(s) == [i \in 1..Len(s) |-> s[i].job]

\* the last read asked for, wherever it is by now, is the current leaf's
LeafFollows ==
  /\ LastReadIs(currentLeaf, jobs)
  /\ NoRead(jobs) => LastReadIs(currentLeaf, JobsOf(resps))
  /\ NoRead(jobs) /\ NoRead(JobsOf(resps)) /\ IsOpen(editForm) => editForm.dn = currentLeaf

(***************************************************************************)
(* Queues.                                                                 *)
(***************************************************************************)
LEMMA AppendFacts ==
  ASSUME NEW S, NEW s \in Seq(S), NEW x \in S
  PROVE  /\ Append(s, x) \in Seq(S) /\ Len(Append(s, x)) = Len(s) + 1
         /\ Append(s, x)[Len(s) + 1] = x
         /\ \A i \in 1..Len(s) : Append(s, x)[i] = s[i]
         /\ \A i \in 1..(Len(s) + 1) : i = Len(s) + 1 \/ i \in 1..Len(s)
         /\ Len(s) \in Nat
  OBVIOUS

LEMMA TailFacts ==
  ASSUME NEW S, NEW s \in Seq(S), s # <<>>
  PROVE  /\ Tail(s) \in Seq(S) /\ Len(Tail(s)) = Len(s) - 1
         /\ \A i \in 1..Len(Tail(s)) : i + 1 \in 1..Len(s) /\ Tail(s)[i] = s[i + 1]
         /\ Head(s) = s[1] /\ 1 \in 1..Len(s) /\ Head(s) \in S
         /\ Len(s) \in Nat
  OBVIOUS

LEMMA TailIs ==
  ASSUME NEW S, NEW s \in Seq(S), s # <<>>
  PROVE  Tail(s) = [i \in 1..(Len(s) - 1) |-> s[i + 1]] /\ Head(s) = s[1]
<1> DEFINE t == Tail(s)
           m == Len(s) - 1
<1>1. t \in Seq(S) /\ Len(t) = m /\ Head(s) = s[1] /\ \A i \in 1..m : t[i] = s[i + 1]
  BY TailFacts
<1> HIDE DEF t, m
<1>2. t = [i \in 1..Len(t) |-> t[i]]
  BY <1>1
<1>3. t = [i \in 1..m |-> s[i + 1]]
  BY <1>1, <1>2
<1>4. QED
  BY <1>1, <1>3 DEF t, m

LEMMA ReadAppended ==
  ASSUME NEW s \in Seq(Job), NEW j \in Job, j.op = "read"
  PROVE  LastReadIs(j.dn, Append(s, j)) /\ ~NoRead(Append(s, j))
<1> DEFINE t == Append(s, j)
           n == Len(s)
<1>1. /\ Len(t) = n + 1 /\ t[n + 1] = j /\ n \in Nat
      /\ \A i \in 1..(n + 1) : i = n + 1 \/ i \in 1..n
  BY AppendFacts
<1> HIDE DEF t, n
<1>2. ~NoRead(t)
  BY <1>1 DEF NoRead
<1>3. LastReadIs(j.dn, t)
  <2> SUFFICES ASSUME NEW i \in 1..(n + 1), \A k \in 1..(n + 1) : k > i => t[k].op # "read"
               PROVE  t[i].dn = j.dn
    BY <1>1 DEF LastReadIs
  <2>1. i = n + 1
    BY <1>1
  <2>2. QED
    BY <1>1, <2>1
<1>4. QED
  BY <1>2, <1>3 DEF t

LEMMA OtherAppended ==
  ASSUME NEW s \in Seq(Job), NEW j \in Job, j.op # "read", NEW d
  PROVE  /\ LastReadIs(d, s) => LastReadIs(d, Append(s, j))
         /\ NoRead(Append(s, j)) <=> NoRead(s)
<1> DEFINE t == Append(s, j)
           n == Len(s)
<1>1. /\ Len(t) = n + 1 /\ t[n + 1] = j /\ n \in Nat
      /\ \A i \in 1..n : t[i] = s[i]
      /\ \A i \in 1..(n + 1) : i = n + 1 \/ i \in 1..n
  BY AppendFacts
<1>2. LastReadIs(d, s)
        => \A i \in 1..n : s[i].op = "read" /\ (\A k \in 1..n : k > i => s[k].op # "read") => s[i].dn = d
  BY DEF LastReadIs
<1>3. NoRead(s) <=> \A i \in 1..n : s[i].op # "read"
  BY DEF NoRead
<1> HIDE DEF t, n
<1>4. NoRead(t) <=> NoRead(s)
  BY <1>1, <1>3 DEF NoRead
<1>5. ASSUME LastReadIs(d, s) PROVE LastReadIs(d, t)
  <2> SUFFICES ASSUME NEW i \in 1..(n + 1), t[i].op = "read",
                      \A k \in 1..(n + 1) : k > i => t[k].op # "read"
               PROVE  t[i].dn = d
    BY <1>1 DEF LastReadIs
  <2>1. i \in 1..n
    BY <1>1
  <2>2. \A k \in 1..n : k > i => s[k].op # "read"
    BY <1>1
  <2>3. QED
    BY <1>1, <1>2, <1>5, <2>1, <2>2
<1>6. QED
  BY <1>4, <1>5 DEF t

LEMMA NoReadTail ==
  ASSUME NEW s \in Seq(Job), s # <<>>
  PROVE  NoRead(s) <=> Head(s).op # "read" /\ NoRead(Tail(s))
<1> DEFINE t == Tail(s)
           n == Len(s)
<1>1. /\ Len(t) = n - 1 /\ n \in Nat /\ 1 \in 1..n /\ Head(s) = s[1]
      /\ \A i \in 1..(n - 1) : i + 1 \in 1..n /\ t[i] = s[i + 1]
  BY TailFacts
<1>2. NoRead(s) <=> \A i \in 1..n : s[i].op # "read"
  BY DEF NoRead
<1> HIDE DEF t, n
<1>3. NoRead(t) <=> \A i \in 1..(n - 1) : t[i].op # "read"
  BY <1>1 DEF NoRead
<1>4. ASSUME \A i \in 1..(n - 1) : t[i].op # "read", s[1].op # "read", NEW k \in 1..n
      PROVE  s[k].op # "read"
  <2>1. CASE k = 1
    BY <1>4, <2>1
  <2>2. CASE k # 1
    <3>1. k - 1 \in 1..(n - 1) /\ (k - 1) + 1 = k
      BY <1>1, <2>2
    <3>2. QED
      BY <1>1, <1>4, <3>1
  <2>3. QED
    BY <2>1, <2>2
<1>5. ASSUME \A k \in 1..n : s[k].op # "read"
      PROVE  s[1].op # "read" /\ \A i \in 1..(n - 1) : t[i].op # "read"
  BY <1>1, <1>5
<1>6. QED
  BY <1>1, <1>2, <1>3, <1>4, <1>5 DEF t

LEMMA HeadTaken ==
  ASSUME NEW s \in Seq(Job), s # <<>>, NEW d, LastReadIs(d, s)
  PROVE  /\ LastReadIs(d, Tail(s))
         /\ Head(s).op = "read" /\ NoRead(Tail(s)) => Head(s).dn = d
<1> DEFINE t == Tail(s)
           n == Len(s)
<1>1. /\ Len(t) = n - 1 /\ n \in Nat /\ 1 \in 1..n /\ Head(s) = s[1]
      /\ \A i \in 1..(n - 1) : i + 1 \in 1..n /\ t[i] = s[i + 1]
  BY TailFacts
<1>2. \A i \in 1..n : s[i].op = "read" /\ (\A k \in 1..n : k > i => s[k].op # "read") => s[i].dn = d
  BY DEF LastReadIs
<1> HIDE DEF t, n
\* what comes later in the tail comes later in the queue
<1>3. ASSUME NEW i \in 0..(n - 1), \A k \in 1..(n - 1) : k > i => t[k].op # "read"
      PROVE  \A k \in 1..n : k > i + 1 => s[k].op # "read"
  <2> TAKE k \in 1..n
  <2> HAVE k > i + 1
  <2>1. k - 1 \in 1..(n - 1) /\ (k - 1) + 1 = k /\ k - 1 > i
    BY <1>1
  <2>2. QED
    BY <1>1, <1>3, <2>1
<1>4. LastReadIs(d, t)
  <2> SUFFICES ASSUME NEW i \in 1..(n - 1), t[i].op = "read",
                      \A k \in 1..(n - 1) : k > i => t[k].op # "read"
               PROVE  t[i].dn = d
    BY <1>1 DEF LastReadIs
  <2>1. i + 1 \in 1..n /\ t[i] = s[i + 1] /\ i \in 0..(n - 1)
    BY <1>1
  <2>2. \A k \in 1..n : k > i + 1 => s[k].op # "read"
    BY <1>3, <2>1
  <2>3. QED
    BY <1>2, <2>1, <2>2
<1>5. Head(s).op = "read" /\ NoRead(t) => Head(s).dn = d
  <2>1. NoRead(t) => \A k \in 1..(n - 1) : t[k].op # "read"
    BY <1>1 DEF NoRead
  <2>2. 0 \in 0..(n - 1) /\ 0 + 1 = 1
    BY <1>1
  <2>3. NoRead(t) => \A k \in 1..n : k > 1 => s[k].op # "read"
    BY <1>3, <2>1, <2>2
  <2>4. QED
    BY <1>1, <1>2, <2>3
<1>6. QED
  BY <1>4, <1>5 DEF t

LEMMA JobsOfFacts ==
  ASSUME NEW s \in Seq(Response)
  PROVE  /\ JobsOf(s) \in Seq(Job)
         /\ \A r \in Response : JobsOf(Append(s, r)) = Append(JobsOf(s), r.job)
         /\ s # <<>> => /\ JobsOf(s) # <<>> /\ JobsOf(Tail(s)) = Tail(JobsOf(s))
                        /\ Head(JobsOf(s)) = Head(s).job
<1> DEFINE n == Len(s)
<1>1. n \in Nat /\ \A i \in 1..n : s[i] \in Response /\ s[i].job \in Job
  <2>1. \A i \in 1..n : s[i] \in Response
    OBVIOUS
  <2>2. QED
    BY <2>1 DEF Response
<1>2. JobsOf(s) \in Seq(Job) /\ Len(JobsOf(s)) = n
  <2>1. JobsOf(s) = [i \in 1..n |-> s[i].job]
    BY DEF JobsOf
  <2> HIDE DEF n
  <2>2. QED
    BY <1>1, <2>1
<1>3. ASSUME NEW r \in Response PROVE JobsOf(Append(s, r)) = Append(JobsOf(s), r.job)
  <2>1. Len(Append(s, r)) = n + 1 /\ Append(s, r)[n + 1] = r
        /\ \A i \in 1..n : Append(s, r)[i] = s[i]
    BY AppendFacts
  <2>2. r.job \in Job
    BY DEF Response
  <2>3. Append(JobsOf(s), r.job) = [i \in 1..(n + 1) |-> IF i = n + 1 THEN r.job ELSE s[i].job]
    <3>1. Append(JobsOf(s), r.job)
            = [i \in 1..(n + 1) |-> IF i = n + 1 THEN r.job ELSE JobsOf(s)[i]]
      <4> HIDE DEF n
      <4>1. QED
        BY <1>2, <2>2
    <3>2. \A i \in 1..n : JobsOf(s)[i] = s[i].job
      BY DEF JobsOf
    <3> HIDE DEF n
    <3>3. \A i \in 1..(n + 1) : i = n + 1 \/ i \in 1..n
      BY <1>1
    <3>4. QED
      BY <3>1, <3>2, <3>3
  <2>4. JobsOf(Append(s, r)) = [i \in 1..(n + 1) |-> Append(s, r)[i].job]
    BY <2>1 DEF JobsOf
  <2> HIDE DEF n
  <2>5. \A i \in 1..(n + 1) : i = n + 1 \/ i \in 1..n
    BY <1>1
  <2>6. \A i \in 1..(n + 1) : Append(s, r)[i].job = IF i = n + 1 THEN r.job ELSE s[i].job
    BY <1>1, <2>1, <2>5
  <2>7. QED
    BY <2>3, <2>4, <2>6
<1>4. ASSUME s # <<>>
      PROVE  /\ JobsOf(s) # <<>> /\ JobsOf(Tail(s)) = Tail(JobsOf(s))
             /\ Head(JobsOf(s)) = Head(s).job
  <2>1. /\ Len(Tail(s)) = n - 1 /\ n # 0 /\ Head(s) = s[1] /\ 1 \in 1..n
        /\ \A i \in 1..(n - 1) : i + 1 \in 1..n /\ Tail(s)[i] = s[i + 1]
    BY <1>4, TailFacts
  <2>2. JobsOf(s) # <<>>
    BY <1>2, <2>1
  <2>3. Tail(JobsOf(s)) = [i \in 1..(n - 1) |-> JobsOf(s)[i + 1]] /\ Head(JobsOf(s)) = JobsOf(s)[1]
    <3>1. /\ Tail(JobsOf(s)) = [i \in 1..(Len(JobsOf(s)) - 1) |-> JobsOf(s)[i + 1]]
          /\ Head(JobsOf(s)) = JobsOf(s)[1]
      BY <1>2, <2>2, TailIs
    <3>2. QED
      BY <1>2, <3>1
  <2>4. \A i \in 1..n : JobsOf(s)[i] = s[i].job
    BY DEF JobsOf
  <2>5. JobsOf(Tail(s)) = [i \in 1..(n - 1) |-> Tail(s)[i].job]
    BY <2>1 DEF JobsOf
  <2> HIDE DEF n
  <2>6. QED
    BY <2>1, <2>2, <2>3, <2>4, <2>5
<1>5. QED
  BY <1>2, <1>3, <1>4

(***************************************************************************)
(* Every name spoken of exists, and reads are answered.                    *)
(***************************************************************************)
LEMMA ThereStep ==
  ASSUME ReadsSucceed, TypeOK, AllThere, Named, [Next]_vars
  PROVE  AllThere'
<1> USE DEF dirVars
<1>1. \A d \in DNs : srv[d].csn # 0 /\ clock + 1 # 0
  BY DEF AllThere, TypeOK
<1>2. ASSUME NEW d, NEW v, srv' = [srv EXCEPT ![d] = [csn |-> clock + 1, val |-> v]]
      PROVE  AllThere'
  <2>1. \A e \in DNs : srv'[e] = srv[e] \/ srv'[e].csn = clock + 1
    BY <1>2 DEF TypeOK
  <2>2. QED
    BY <1>1, <2>1 DEF AllThere
<1>3. srv' = srv => AllThere'
  BY DEF AllThere
<1>4. CASE WorkerModify
  BY <1>2, <1>3, <1>4 DEF WorkerModify, Stored, Unwritten
<1>5. CASE WorkerModrdn
  <2>1. jobs # <<>> /\ Head(jobs).op = "modrdn" /\ jobs \in Seq(Job)
    BY <1>5 DEF WorkerModrdn, Serving, TypeOK
  <2>2. PlanNamed(Head(jobs).plan)
    BY <2>1, TailFacts DEF Named, JobsNamed, JobNamed
  <2>3. Exists(Head(jobs).plan.name)
    BY <1>1, <2>2 DEF PlanNamed, Exists
  <2>4. QED
    BY <1>3, <1>5, <2>3 DEF WorkerModrdn, Unwritten
<1>6. ASSUME NEW d \in DNs, NEW a \in Attrs, NEW vs \in Writable, OtherWrite(d, a, vs)
      PROVE  AllThere'
  BY <1>2, <1>6 DEF OtherWrite
<1>7. CASE WorkerFault \/ WorkerRereadFault \/ \E d \in DNs : OtherDelete(d)
  BY <1>7 DEF WorkerFault, WorkerRereadFault, OtherDelete, ReadsSucceed, TypeOK
<1>8. CASE Operator \/ Pump \/ ReconcileSelection \/ Dispatch
  <2>1. UNCHANGED srv
    BY <1>8 DEF Operator, EditField, EditName, RequestLeaf, PressSave, RequestQuit, ConfirmSave,
                Dismiss, GuardSave, GuardDiscard, GuardStay, QuitSave, QuitDiscard, QuitStay,
                ConflictOverwrite, ConflictReload, ConflictKeep, Pump, PumpEntry, PumpReadError,
                PumpRenamed, PumpSaved, PumpWriteError, PumpConflict, RereadFailed,
                ResolveByAsking, ResolveByRebasing, ReconcileSelection, Dispatch, RunGuard,
                ShowConflict, ShowError, Quit
  <2>2. QED
    BY <1>3, <2>1
<1>9. CASE WorkerRead \/ WorkerReread \/ UNCHANGED vars
  BY <1>3, <1>9 DEF WorkerRead, WorkerReread, Unwritten, vars
<1>10. QED
  BY <1>4, <1>5, <1>6, <1>7, <1>8, <1>9 DEF Next, Worker, Others

LEMMA JobSentNamed ==
  ASSUME jobs \in Seq(Job), NEW j \in Job, JobsNamed(jobs), JobNamed(j), Submit(j)
  PROVE  JobsNamed(jobs')
<1>1. /\ Len(jobs') = Len(jobs) + 1 /\ jobs'[Len(jobs) + 1] = j
      /\ \A i \in 1..Len(jobs) : jobs'[i] = jobs[i]
      /\ \A i \in 1..(Len(jobs) + 1) : i = Len(jobs) + 1 \/ i \in 1..Len(jobs)
  BY AppendFacts DEF Submit
<1>2. QED
  BY <1>1 DEF JobsNamed

LEMMA ReadSentNamed ==
  ASSUME jobs \in Seq(Job), JobsNamed(jobs), NEW d \in DNs, Reread(d)
  PROVE  JobsNamed(jobs')
<1>1. ReadJob(d) \in Job /\ JobNamed(ReadJob(d))
  BY ReadJobType, NamesFacts DEF ReadJob, JobNamed
<1>2. QED
  BY <1>1, JobSentNamed DEF Reread

LEMMA AnswerSentNamed ==
  ASSUME resps \in Seq(Response), NEW r \in Response, AnswersNamed(resps), AnswerNamed(r),
         resps' = Append(resps, r)
  PROVE  AnswersNamed(resps')
<1>1. /\ Len(resps') = Len(resps) + 1 /\ resps'[Len(resps) + 1] = r
      /\ \A i \in 1..Len(resps) : resps'[i] = resps[i]
      /\ \A i \in 1..(Len(resps) + 1) : i = Len(resps) + 1 \/ i \in 1..Len(resps)
  BY AppendFacts
<1>2. QED
  BY <1>1 DEF AnswersNamed

LEMMA FirstNamed ==
  /\ jobs \in Seq(Job) /\ jobs # <<>> /\ JobsNamed(jobs)
       => JobNamed(Head(jobs)) /\ JobsNamed(Tail(jobs))
  /\ resps \in Seq(Response) /\ resps # <<>> /\ AnswersNamed(resps)
       => AnswerNamed(Head(resps)) /\ AnswersNamed(Tail(resps))
  /\ reply \in Seq(Response) /\ reply # <<>> /\ RepliesNamed(reply) => JobNamed(Head(reply).job)
<1>1. ASSUME jobs \in Seq(Job), jobs # <<>>, JobsNamed(jobs)
      PROVE  JobNamed(Head(jobs)) /\ JobsNamed(Tail(jobs))
  BY <1>1, TailFacts DEF JobsNamed
<1>2. ASSUME resps \in Seq(Response), resps # <<>>, AnswersNamed(resps)
      PROVE  AnswerNamed(Head(resps)) /\ AnswersNamed(Tail(resps))
  BY <1>2, TailFacts DEF AnswersNamed
<1>3. ASSUME reply \in Seq(Response), reply # <<>>, RepliesNamed(reply)
      PROVE  JobNamed(Head(reply).job)
  BY <1>3, TailFacts DEF RepliesNamed
<1>4. QED
  BY <1>1, <1>2, <1>3

LEMMA DoSaveNamed ==
  ASSUME NEW f, NEW n, NEW q, NEW g, NEW k, DoSave(f, n, q, g, k), FormNamed(f)
  PROVE  DialogNamed(dialog')
<1>1. CASE Prepared(f) = "ready"
  <2>1. dialog'.kind = "confirm" /\ dialog'.plan = PlanOf(f)
    BY <1>1 DEF DoSave, Closed
  <2>2. IsOpen(f) /\ PlanOf(f).dn = f.dn /\ PlanOf(f).name = f.name
    BY <1>1 DEF Prepared, PlanOf
  <2>3. QED
    BY <2>1, <2>2 DEF DialogNamed, PlanNamed, FormNamed
<1>2. CASE Prepared(f) # "ready"
  <2>1. dialog'.kind \in {"error", "none"}
    BY <1>2 DEF DoSave, Closed
  <2>2. QED
    BY <2>1 DEF DialogNamed
<1>3. QED
  BY <1>1, <1>2

LEMMA FormAndDialogNamed ==
  ASSUME TypeOK, Named, [Next]_vars
  PROVE  FormNamed(editForm') /\ DialogNamed(dialog')
<1> USE DEF navVars, alertVars, histVars
<1>1. editForm \in Form /\ FormNamed(editForm) /\ DialogNamed(dialog)
  BY DEF TypeOK, Named
<1>2. DialogNamed(Closed) /\ FormNamed(NoForm)
  BY DEF DialogNamed, Closed, FormNamed, NoForm, IsOpen
<1>3. CASE \/ \E a \in Attrs, vs \in Writable : EditField(a, vs)
           \/ \E d \in DNs : EditName(d)
  <2>1. FormNamed(editForm')
    BY <1>1, <1>3 DEF EditField, EditName, FormNamed, IsOpen, Form
  <2>2. dialog' = dialog
    BY <1>3 DEF EditField, EditName
  <2>3. QED
    BY <1>1, <2>1, <2>2
<1>4. CASE PressSave \/ GuardSave \/ QuitSave
  <2>1. editForm' = editForm
    BY <1>4 DEF PressSave, GuardSave, QuitSave
  <2>2. \E n, q, g : DoSave(editForm, n, q, g, FALSE)
    BY <1>4 DEF PressSave, GuardSave, QuitSave
  <2>3. QED
    BY <1>1, <2>1, <2>2, DoSaveNamed
<1>5. CASE ConflictOverwrite
  <2> DEFINE f == IF IsOpen(editForm) THEN [editForm EXCEPT !.csn = dialog.csn, !.forced = TRUE]
                                      ELSE editForm
  <2>1. editForm' = f /\ DoSave(f, NoDN, dialog.quit, FALSE, TRUE)
    BY <1>5 DEF ConflictOverwrite
  <2>2. FormNamed(f)
    BY <1>1 DEF FormNamed, IsOpen, Form
  <2> HIDE DEF f
  <2>3. QED
    BY <2>1, <2>2, DoSaveNamed
<1>6. CASE ConfirmSave \/ GuardDiscard \/ ConflictReload
  <2>1. FormNamed(editForm')
    BY <1>1, <1>2, <1>6 DEF ConfirmSave, GuardDiscard, ConflictReload, Discarded, FormNamed, IsOpen,
                            Form
  <2>2. dialog' = Closed
    BY <1>6 DEF ConfirmSave, GuardDiscard, ConflictReload
  <2>3. QED
    BY <1>2, <2>1, <2>2
<1>7. CASE PumpEntry
  <2>1. resps \in Seq(Response) /\ resps # <<>> /\ AnswersNamed(resps) /\ dialog' = dialog
    BY <1>7 DEF PumpEntry, Polling, TypeOK, Named
  <2>2. Head(resps).job.dn \in DNs
    BY <2>1, FirstNamed DEF AnswerNamed, JobNamed
  <2>3. editForm'.dn = Head(resps).job.dn /\ editForm'.name = Head(resps).job.dn
    BY <1>7 DEF PumpEntry, Loaded
  <2>4. QED
    BY <1>1, <2>1, <2>2, <2>3 DEF FormNamed
<1>8. CASE ResolveByRebasing
  <2> DEFINE r == Head(reply)
  <2>1. reply \in Seq(Response) /\ reply # <<>> /\ RepliesNamed(reply) /\ dialog' = dialog
    BY <1>8 DEF ResolveByRebasing, TypeOK, Named
  <2>2. r.job.dn \in DNs
    BY <2>1, FirstNamed DEF JobNamed
  <2>3. editForm' = Rebased(editForm, r.job.dn, r.csn, r.val)
    BY <1>8 DEF ResolveByRebasing
  <2> HIDE DEF r
  <2>4. FormNamed(editForm')
    BY <1>1, <2>2, <2>3 DEF Rebased, FormNamed, IsOpen, Form
  <2>5. QED
    BY <1>1, <2>1, <2>4
<1>9. CASE ShowConflict
  <2>1. dialog'.kind = "conflict" /\ dialog'.dn = lastConflict.dn /\ editForm' = editForm
    BY <1>9 DEF ShowConflict, Closed
  <2>2. lastConflict.dn \in DNs
    BY <1>9 DEF ShowConflict, TypeOK, Prompt, Names
  <2>3. QED
    BY <1>1, <2>1, <2>2 DEF DialogNamed
<1>10. CASE RunGuard \/ ShowError \/ RequestQuit
  <2>1. editForm' = editForm
    BY <1>10 DEF RunGuard, ShowError, RequestQuit
  <2>2. dialog' = dialog \/ dialog'.kind \in {"guard", "error", "quitguard", "none"}
    <3>1. CASE RunGuard
      BY <3>1 DEF RunGuard, Closed
    <3>2. CASE ShowError
      BY <3>2 DEF ShowError, Closed
    <3>3. CASE RequestQuit
      BY <3>3 DEF RequestQuit, Closed
    <3>4. QED
      BY <1>10, <3>1, <3>2, <3>3
  <2>3. QED
    BY <1>1, <2>1, <2>2 DEF DialogNamed
<1>11. CASE \/ Dismiss \/ GuardStay \/ QuitDiscard \/ QuitStay \/ ConflictKeep
  <2>1. editForm' = editForm /\ dialog' = Closed
    BY <1>11 DEF Dismiss, GuardStay, QuitDiscard, QuitStay, ConflictKeep
  <2>2. QED
    BY <1>1, <1>2, <2>1
<1>12. CASE \/ \E d \in DNs : RequestLeaf(d)
            \/ Quit \/ ReconcileSelection \/ Others \/ UNCHANGED vars
            \/ Worker \/ WorkerFault \/ WorkerRereadFault
            \/ PumpReadError \/ PumpRenamed \/ PumpSaved \/ PumpWriteError \/ PumpConflict
            \/ RereadFailed \/ ResolveByAsking
  <2>1. editForm' = editForm /\ dialog' = dialog
    BY <1>12 DEF RequestLeaf, Quit, ReconcileSelection, Others, OtherWrite, OtherDelete, vars, Worker,
                 Served, WorkerRead, WorkerReread, WorkerModify, WorkerModrdn, WorkerFault,
                 WorkerRereadFault, PumpReadError, PumpRenamed, PumpSaved, PumpWriteError,
                 PumpConflict, RereadFailed, ResolveByAsking
  <2>2. QED
    BY <1>1, <2>1
<1>13. QED
  BY <1>3, <1>4, <1>5, <1>6, <1>7, <1>8, <1>9, <1>10, <1>11, <1>12 DEF Next, Operator, Pump, Dispatch

(***************************************************************************)
(* The queues: a step sends a read, sends something else, takes an answer, *)
(* or is the worker's.                                                     *)
(***************************************************************************)
LEMMA QueuesNamed ==
  ASSUME ReadsSucceed, TypeOK, AllThere, Named, [Next]_vars
  PROVE  JobsNamed(jobs') /\ AnswersNamed(resps') /\ RepliesNamed(reply')
<1> USE DEF dirVars, workerVars, navVars, alertVars, histVars
<1>1. /\ jobs \in Seq(Job) /\ resps \in Seq(Response) /\ reply \in Seq(Response)
      /\ JobsNamed(jobs) /\ AnswersNamed(resps) /\ RepliesNamed(reply)
      /\ FormNamed(editForm) /\ DialogNamed(dialog) /\ RepliesNamed(<<>>)
  BY DEF TypeOK, Named, RepliesNamed
<1>2. CASE GuardDiscard \/ ConflictReload \/ ReconcileSelection
  <2>1. resps' = resps /\ reply' = reply
    BY <1>2 DEF GuardDiscard, ConflictReload, ReconcileSelection
  <2>2. jobs' = jobs \/ \E d \in DNs : Reread(d)
    BY <1>1, <1>2 DEF GuardDiscard, ConflictReload, ReconcileSelection, DialogNamed, Answering,
                      TypeOK, Dialog, Names
  <2>3. QED
    BY <1>1, <2>1, <2>2, ReadSentNamed
<1>3. CASE ConfirmSave
  <2> DEFINE j == SaveJob(dialog.plan, BaselineCsn(editForm), dialog.quit, saves + 1, dialog.nav,
                          dialog.asked)
  <2>1. /\ dialog.plan \in Plan /\ dialog.quit \in BOOLEAN /\ saves + 1 \in Nat
        /\ dialog.nav \in Names /\ dialog.asked \in BOOLEAN /\ editForm \in Form
    BY DEF TypeOK, Dialog
  <2>2. j \in Job
    BY <2>1, SaveJobType, BaselineCsnType
  <2>3. JobNamed(j)
    BY <1>1, <1>3 DEF ConfirmSave, Answering, DialogNamed, JobNamed, SaveJob, PlanNamed
  <2>4. Submit(j) /\ resps' = resps /\ reply' = reply
    BY <1>3 DEF ConfirmSave
  <2> HIDE DEF j
  <2>5. QED
    BY <1>1, <2>2, <2>3, <2>4, JobSentNamed
<1>4. CASE PumpEntry \/ PumpReadError \/ PumpRenamed \/ PumpSaved \/ PumpWriteError \/ PumpConflict
  <2> DEFINE r == Head(resps)
  <2>1. resps # <<>> /\ resps' = Tail(resps) /\ reply' = reply
    BY <1>4 DEF PumpEntry, PumpReadError, PumpRenamed, PumpSaved, PumpWriteError, PumpConflict,
                Polling
  <2>2. AnswerNamed(r) /\ AnswersNamed(resps') /\ r \in Response
    BY <1>1, <2>1, FirstNamed, TailFacts
  <2>3. r.job.dn \in DNs /\ r.job \in Job
    BY <2>2 DEF AnswerNamed, JobNamed, Response
  <2>4. CASE jobs' = jobs
    BY <1>1, <2>1, <2>2, <2>4
  <2>5. CASE PumpRenamed
    <3>1. r.kind = "ok" /\ r.job.op = "modrdn"
      BY <2>5 DEF PumpRenamed, Polling, NeedsFollowup
    <3>2. QED
      BY <2>2, <3>1 DEF AnswerNamed
  <2>6. CASE PumpSaved /\ jobs' # jobs
    <3>1. r.kind = "ok" /\ Reread(NextLeaf(r.job))
      BY <2>6 DEF PumpSaved, Polling
    <3>2. NextLeaf(r.job) \in DNs
      BY <2>2, <2>3, <3>1 DEF AnswerNamed, NextLeaf, SavedDN, TypeOK, Names
    <3>3. QED
      BY <1>1, <2>1, <2>2, <3>1, <3>2, ReadSentNamed
  <2>7. CASE PumpConflict
    <3>1. RereadJob(r.job) \in Job /\ Submit(RereadJob(r.job)) /\ r.kind = "conflict"
      BY <2>3, <2>7, FollowupType DEF PumpConflict, Polling
    <3>2. JobNamed(RereadJob(r.job))
      BY <2>2, <2>3, <3>1 DEF AnswerNamed, JobNamed, RereadJob, Job
    <3>3. QED
      BY <1>1, <2>1, <2>2, <3>1, <3>2, JobSentNamed
  <2>8. QED
    BY <1>4, <2>4, <2>5, <2>6, <2>7 DEF PumpEntry, PumpReadError, PumpWriteError
<1>5. CASE RereadFailed \/ ResolveByAsking
  <2>1. jobs' = jobs /\ resps' = resps /\ reply' = <<>>
    BY <1>5 DEF RereadFailed, ResolveByAsking
  <2>2. QED
    BY <1>1, <2>1
<1>6. CASE ResolveByRebasing
  <2> DEFINE r == Head(reply)
             f == Rebased(editForm, r.job.dn, r.csn, r.val)
             j == SaveJob(PlanOf(f), BaselineCsn(f), r.job.quit, r.job.save, r.job.nav, FALSE)
  <2>1. reply # <<>> /\ resps' = resps /\ reply' = <<>> /\ editForm' = f
        /\ (jobs' = jobs \/ (Submit(j) /\ Prepared(f) = "ready"))
    BY <1>6 DEF ResolveByRebasing
  <2>2. r \in Response
    BY <1>1, <2>1, TailFacts
  <2>3. /\ r.job.dn \in Names /\ r.csn \in Nat /\ r.val \in Content /\ r.job.quit \in BOOLEAN
        /\ r.job.save \in Nat /\ r.job.nav \in Names
    BY <2>2 DEF Response, Job
  <2>4. f \in Form /\ FormNamed(f)
    BY <2>1, <2>3, RebasedType, FormAndDialogNamed DEF TypeOK
  <2> HIDE DEF r, f
  <2>5. PlanOf(f) \in Plan /\ BaselineCsn(f) \in Nat
    BY <2>4, PlanOfType, BaselineCsnType
  <2>6. j \in Job
    BY <2>3, <2>5, SaveJobType
  <2>7. Prepared(f) = "ready" => JobNamed(j)
    BY <2>4 DEF Prepared, FormNamed, JobNamed, SaveJob, PlanOf, PlanNamed
  <2> HIDE DEF j
  <2>8. QED
    BY <1>1, <2>1, <2>6, <2>7, JobSentNamed
<1>7. CASE Worker
  <2> DEFINE j == Head(jobs)
  <2>1. jobs # <<>> /\ jobs' = Tail(jobs)
    BY <1>7 DEF Worker, WorkerRead, WorkerReread, WorkerModify, WorkerModrdn, Serving, Served
  <2>2. JobNamed(j) /\ JobsNamed(jobs')
    BY <1>1, <2>1, FirstNamed
  <2>3. srv' \in [DNs -> Entry]
    BY TypeStep DEF TypeOK
  <2>4. ASSUME NEW k \in {"entry", "ok", "conflict", "error"}, NEW d, Answer(k, d),
               k = "entry" <=> j.op = "read", k = "ok" => j.op = "modify"
        PROVE  AnswersNamed(resps')
    <3>1. AnswerOf(k, d) \in Response
      BY <2>1, <2>3, AnswerOfType
    <3>2. AnswerOf(k, d).kind = k /\ AnswerOf(k, d).job = j
      BY DEF AnswerOf
    <3>3. AnswerNamed(AnswerOf(k, d))
      BY <2>2, <2>4, <3>2 DEF AnswerNamed
    <3>4. QED
      BY <1>1, <2>4, <3>1, <3>3, AnswerSentNamed DEF Answer
  <2> HIDE DEF j
  <2>5. CASE WorkerRead
    <3>1. j.op = "read" /\ j.dn \in DNs /\ reply' = reply
      BY <2>2, <2>5 DEF WorkerRead, Serving, JobNamed, j
    <3>2. Exists(j.dn)
      BY <3>1 DEF Exists, AllThere
    <3>3. Answer("entry", j.dn)
      BY <2>5, <3>2 DEF WorkerRead, j
    <3>4. QED
      BY <1>1, <2>2, <2>4, <3>1, <3>3
  <2>6. CASE WorkerModify
    <3>1. j.op = "modify" /\ reply' = reply /\ Answer(ModifyVerdict(j), j.dn)
      BY <2>6 DEF WorkerModify, Serving, j
    <3>2. ModifyVerdict(j) \in {"ok", "conflict", "error"}
      BY DEF ModifyVerdict
    <3>3. QED
      BY <1>1, <2>2, <2>4, <3>1, <3>2
  <2>7. CASE WorkerModrdn
    <3>1. j.op = "modrdn" /\ reply' = reply /\ j.plan.name \in DNs
      BY <2>2, <2>7 DEF WorkerModrdn, Serving, JobNamed, PlanNamed, j
    <3>2. Exists(j.plan.name)
      BY <3>1 DEF Exists, AllThere
    <3>3. Answer("error", j.plan.name)
      BY <2>7, <3>2 DEF WorkerModrdn, j
    <3>4. QED
      BY <1>1, <2>2, <2>4, <3>1, <3>3
  <2>8. CASE WorkerReread
    <3>1. PICK k : reply' = <<AnswerOf(k, j.dn)>>
      BY <2>8 DEF WorkerReread, j
    <3>2. resps' = resps /\ AnswerOf(k, j.dn).job = j
      BY <2>8 DEF WorkerReread, AnswerOf, j
    <3>3. RepliesNamed(reply')
      BY <2>2, <3>1, <3>2 DEF RepliesNamed
    <3>4. QED
      BY <1>1, <2>2, <3>2, <3>3
  <2>9. QED
    BY <1>7, <2>5, <2>6, <2>7, <2>8 DEF Worker
<1>8. CASE WorkerFault \/ WorkerRereadFault
  BY <1>8 DEF WorkerFault, WorkerRereadFault, ReadsSucceed, TypeOK
<1>9. CASE \/ \E a \in Attrs, vs \in Writable : EditField(a, vs)
           \/ \E d \in DNs : EditName(d) \/ RequestLeaf(d)
           \/ PressSave \/ RequestQuit \/ Dismiss \/ GuardSave \/ GuardStay \/ QuitSave
           \/ QuitDiscard \/ QuitStay \/ ConflictOverwrite \/ ConflictKeep
           \/ Dispatch \/ Others \/ UNCHANGED vars
  <2>1. jobs' = jobs /\ resps' = resps /\ reply' = reply
    BY <1>9 DEF EditField, EditName, RequestLeaf, PressSave, RequestQuit, Dismiss, GuardSave,
                GuardStay, QuitSave, QuitDiscard, QuitStay, ConflictOverwrite, ConflictKeep,
                Dispatch, RunGuard, ShowConflict, ShowError, Quit, Others, OtherWrite, OtherDelete,
                vars
  <2>2. QED
    BY <1>1, <2>1
<1>10. QED
  BY <1>2, <1>3, <1>4, <1>5, <1>6, <1>7, <1>8, <1>9 DEF Next, Operator, Pump

(***************************************************************************)
(* What a step does to the reads that are outstanding.                     *)
(***************************************************************************)
LEMMA LeafAsked ==
  ASSUME jobs \in Seq(Job), NEW d \in Names, Reread(d)
  PROVE  LeafFollows'
<1>1. ReadJob(d) \in Job /\ ReadJob(d).op = "read" /\ ReadJob(d).dn = d
  BY ReadJobType DEF ReadJob
<1>2. jobs' = Append(jobs, ReadJob(d)) /\ currentLeaf' = d
  BY DEF Reread, Submit
<1>3. LastReadIs(currentLeaf', jobs') /\ ~NoRead(jobs')
  BY <1>1, <1>2, ReadAppended
<1>4. QED
  BY <1>3 DEF LeafFollows

LEMMA LeafKept ==
  ASSUME LeafFollows, currentLeaf' = currentLeaf, editForm'.dn = editForm.dn \/ ~IsOpen(editForm'),
         LastReadIs(currentLeaf, jobs'), NoRead(jobs') <=> NoRead(jobs),
         LastReadIs(currentLeaf, JobsOf(resps)) => LastReadIs(currentLeaf, JobsOf(resps')),
         NoRead(JobsOf(resps')) <=> NoRead(JobsOf(resps))
  PROVE  LeafFollows'
<1>1. IsOpen(editForm') /\ editForm'.dn = editForm.dn => IsOpen(editForm)
  BY DEF IsOpen
<1>2. QED
  BY <1>1 DEF LeafFollows

LEMMA SameOrOtherSent ==
  ASSUME jobs \in Seq(Job), LastReadIs(currentLeaf, jobs),
         jobs' = jobs \/ \E j \in Job : j.op # "read" /\ Submit(j)
  PROVE  LastReadIs(currentLeaf, jobs') /\ (NoRead(jobs') <=> NoRead(jobs))
  BY OtherAppended DEF Submit

LEMMA OtherAnswerTaken ==
  ASSUME resps \in Seq(Response), resps # <<>>, resps' = Tail(resps), Head(resps).job.op # "read"
  PROVE  /\ LastReadIs(currentLeaf, JobsOf(resps)) => LastReadIs(currentLeaf, JobsOf(resps'))
         /\ NoRead(JobsOf(resps')) <=> NoRead(JobsOf(resps))
<1> DEFINE s == JobsOf(resps)
<1>1. s \in Seq(Job) /\ s # <<>> /\ JobsOf(resps') = Tail(s) /\ Head(s).op # "read"
  BY JobsOfFacts
<1> HIDE DEF s
<1>2. LastReadIs(currentLeaf, s) => LastReadIs(currentLeaf, Tail(s))
  BY <1>1, HeadTaken
<1>3. NoRead(Tail(s)) <=> NoRead(s)
  BY <1>1, NoReadTail
<1>4. QED
  BY <1>1, <1>2, <1>3 DEF s

LEMMA LeafStep ==
  ASSUME ReadsSucceed, TypeOK, AllThere, Named, LeafFollows, [Next]_vars
  PROVE  LeafFollows'
<1> USE DEF dirVars, workerVars, navVars, alertVars, histVars
<1>1. /\ jobs \in Seq(Job) /\ resps \in Seq(Response) /\ reply \in Seq(Response)
      /\ JobsNamed(jobs) /\ AnswersNamed(resps)
      /\ LastReadIs(currentLeaf, jobs)
      /\ NoRead(jobs) => LastReadIs(currentLeaf, JobsOf(resps))
      /\ editForm \in Form
  BY DEF TypeOK, Named, LeafFollows
\* nothing was sent but, perhaps, something that is not a read
<1>2. ASSUME currentLeaf' = currentLeaf, editForm'.dn = editForm.dn \/ ~IsOpen(editForm'),
             jobs' = jobs \/ \E j \in Job : j.op # "read" /\ Submit(j),
             resps' = resps \/ (resps # <<>> /\ resps' = Tail(resps) /\ Head(resps).job.op # "read")
      PROVE  LeafFollows'
  <2>1. LastReadIs(currentLeaf, jobs') /\ (NoRead(jobs') <=> NoRead(jobs))
    BY <1>1, <1>2, SameOrOtherSent
  <2>2. /\ LastReadIs(currentLeaf, JobsOf(resps)) => LastReadIs(currentLeaf, JobsOf(resps'))
        /\ NoRead(JobsOf(resps')) <=> NoRead(JobsOf(resps))
    BY <1>1, <1>2, OtherAnswerTaken
  <2>3. QED
    BY <1>2, <2>1, <2>2, LeafKept
<1>3. CASE GuardDiscard \/ ConflictReload \/ ReconcileSelection
  <2>1. CASE \E d \in Names : Reread(d)
    BY <1>1, <2>1, LeafAsked
  <2>2. CASE ~\E d \in Names : Reread(d)
    <3>1. dialog.nav \in Names /\ dialog.dn \in Names /\ requestedLeaf \in Names
      BY DEF TypeOK, Dialog
    <3>2. jobs' = jobs /\ currentLeaf' = currentLeaf /\ resps' = resps
      BY <1>3, <2>2, <3>1 DEF GuardDiscard, ConflictReload, ReconcileSelection
    <3>3. \/ editForm' = Discarded(editForm) \/ editForm' = NoForm \/ editForm' = editForm
      BY <1>3 DEF GuardDiscard, ConflictReload, ReconcileSelection
    <3>4. Discarded(editForm).dn = editForm.dn /\ ~IsOpen(NoForm)
      BY <1>1 DEF Discarded, Form, NoForm, IsOpen
    <3>5. editForm'.dn = editForm.dn \/ ~IsOpen(editForm')
      BY <3>3, <3>4
    <3>6. QED
      BY <1>2, <3>2, <3>5
  <2>3. QED
    BY <2>1, <2>2
<1>4. CASE ConfirmSave
  <2> DEFINE j == SaveJob(dialog.plan, BaselineCsn(editForm), dialog.quit, saves + 1, dialog.nav,
                          dialog.asked)
  <2>1. j \in Job
    BY SaveJobType, BaselineCsnType DEF TypeOK, Dialog
  <2>2. j.op # "read"
    BY DEF SaveJob
  <2>3. Submit(j) /\ resps' = resps /\ currentLeaf' = currentLeaf
        /\ editForm' = [editForm EXCEPT !.typed = FALSE]
    BY <1>4 DEF ConfirmSave
  <2> HIDE DEF j
  <2>4. editForm'.dn = editForm.dn
    BY <1>1, <2>3 DEF Form
  <2>5. QED
    BY <1>2, <2>1, <2>2, <2>3, <2>4
<1>5. CASE ResolveByRebasing
  <2> DEFINE r == Head(reply)
             f == Rebased(editForm, r.job.dn, r.csn, r.val)
             j == SaveJob(PlanOf(f), BaselineCsn(f), r.job.quit, r.job.save, r.job.nav, FALSE)
  <2>1. reply # <<>> /\ resps' = resps /\ editForm' = f /\ currentLeaf' = currentLeaf
        /\ (jobs' = jobs \/ Submit(j))
    BY <1>5 DEF ResolveByRebasing
  <2>2. r \in Response
    BY <1>1, <2>1, TailFacts
  <2>3. /\ r.job.dn \in Names /\ r.csn \in Nat /\ r.val \in Content /\ r.job.quit \in BOOLEAN
        /\ r.job.save \in Nat /\ r.job.nav \in Names
    BY <2>2 DEF Response, Job
  <2> HIDE DEF r
  <2>4. f \in Form /\ f.dn = editForm.dn
    <3>1. f \in Form
      BY <1>1, <2>3, RebasedType
    <3>2. f.dn = editForm.dn
      BY <1>1 DEF Rebased, Form
    <3>3. QED
      BY <3>1, <3>2
  <2> HIDE DEF f
  <2>5. PlanOf(f) \in Plan /\ BaselineCsn(f) \in Nat
    BY <2>4, PlanOfType, BaselineCsnType
  <2>6. j \in Job
    BY <2>3, <2>5, SaveJobType
  <2>7. j.op # "read"
    BY DEF SaveJob
  <2> HIDE DEF j
  <2>8. QED
    BY <1>2, <2>1, <2>4, <2>6, <2>7
<1>6. CASE PumpEntry
  <2> DEFINE s == JobsOf(resps)
             r == Head(resps)
  <2>1. resps # <<>> /\ resps' = Tail(resps) /\ r.kind = "entry"
        /\ jobs' = jobs /\ currentLeaf' = currentLeaf /\ editForm'.dn = r.job.dn
    BY <1>6 DEF PumpEntry, Polling, Loaded
  <2>2. r.job.op = "read"
    BY <1>1, <2>1, FirstNamed DEF AnswerNamed
  <2>3. s \in Seq(Job) /\ s # <<>> /\ JobsOf(resps') = Tail(s) /\ Head(s) = r.job
    BY <1>1, <2>1, JobsOfFacts
  <2> HIDE DEF s, r
  <2>4. NoRead(jobs) => LastReadIs(currentLeaf, s)
    BY <1>1 DEF s
  <2>5. NoRead(jobs) => LastReadIs(currentLeaf, Tail(s))
    BY <2>3, <2>4, HeadTaken
  <2>6. NoRead(jobs) /\ NoRead(Tail(s)) => r.job.dn = currentLeaf
    BY <2>2, <2>3, <2>4, HeadTaken
  <2>7. QED
    BY <1>1, <2>1, <2>3, <2>5, <2>6 DEF LeafFollows
<1>7. CASE PumpReadError \/ PumpRenamed \/ PumpSaved \/ PumpWriteError \/ PumpConflict
  <2> DEFINE r == Head(resps)
  <2>1. resps # <<>> /\ resps' = Tail(resps) /\ r.kind # "entry" /\ editForm' = editForm
    BY <1>7 DEF PumpReadError, PumpRenamed, PumpSaved, PumpWriteError, PumpConflict, Polling
  <2>2. AnswerNamed(r) /\ r \in Response
    BY <1>1, <2>1, FirstNamed, TailFacts
  <2>3. r.job.op # "read" /\ r.job \in Job
    BY <2>1, <2>2 DEF AnswerNamed, Response
  <2>4. CASE \E d \in Names : Reread(d)
    BY <1>1, <2>4, LeafAsked
  <2>5. CASE currentLeaf' = currentLeaf /\ (jobs' = jobs \/ \E j \in Job : j.op # "read" /\ Submit(j))
    BY <1>2, <2>1, <2>3, <2>5
  <2>6. CASE PumpSaved
    <3>1. NextLeaf(r.job) \in Names
      BY <2>3 DEF NextLeaf, SavedDN, TypeOK, Job, Plan
    <3>2. Reread(NextLeaf(r.job)) \/ (jobs' = jobs /\ currentLeaf' = currentLeaf)
      BY <2>6 DEF PumpSaved
    <3>3. QED
      BY <2>4, <2>5, <3>1, <3>2
  <2>7. CASE PumpConflict
    <3>1. RereadJob(r.job) \in Job /\ RereadJob(r.job).op # "read"
      BY <2>3, FollowupType DEF RereadJob, Job
    <3>2. Submit(RereadJob(r.job)) /\ currentLeaf' = currentLeaf
      BY <2>7 DEF PumpConflict
    <3>3. QED
      BY <2>5, <3>1, <3>2
  <2>8. CASE PumpRenamed
    <3>1. r.kind = "ok" /\ r.job.op = "modrdn"
      BY <2>8 DEF PumpRenamed, Polling, NeedsFollowup
    <3>2. QED
      BY <2>2, <3>1 DEF AnswerNamed
  <2>9. CASE PumpReadError \/ PumpWriteError
    BY <2>5, <2>9 DEF PumpReadError, PumpWriteError
  <2>10. QED
    BY <1>7, <2>6, <2>7, <2>8, <2>9
<1>8. CASE Worker
  <2> DEFINE j == Head(jobs)
             s == JobsOf(resps)
  <2>1. jobs # <<>> /\ jobs' = Tail(jobs) /\ currentLeaf' = currentLeaf /\ editForm' = editForm
    BY <1>8 DEF Worker, WorkerRead, WorkerReread, WorkerModify, WorkerModrdn, Serving, Served
  <2>2. /\ j \in Job /\ LastReadIs(currentLeaf, jobs')
        /\ j.op = "read" /\ NoRead(jobs') => j.dn = currentLeaf
        /\ j.op # "read" => (NoRead(jobs') <=> NoRead(jobs))
    <3>1. j \in Job
      BY <1>1, <2>1, TailFacts
    <3>2. LastReadIs(currentLeaf, jobs') /\ (j.op = "read" /\ NoRead(jobs') => j.dn = currentLeaf)
      BY <1>1, <2>1, HeadTaken
    <3>3. j.op # "read" => (NoRead(jobs') <=> NoRead(jobs))
      BY <1>1, <2>1, NoReadTail
    <3>4. QED
      BY <3>1, <3>2, <3>3
  <2>3. srv' \in [DNs -> Entry]
    BY TypeStep DEF TypeOK
  <2>4. s \in Seq(Job)
    BY <1>1, JobsOfFacts
  <2>5. ASSUME NEW k \in {"entry", "ok", "conflict", "error"}, NEW d, Answer(k, d)
        PROVE  JobsOf(resps') = Append(s, j)
    <3>1. AnswerOf(k, d) \in Response /\ AnswerOf(k, d).job = j
      BY <2>1, <2>3, AnswerOfType DEF AnswerOf
    <3>2. resps' = Append(resps, AnswerOf(k, d))
      BY <2>5 DEF Answer
    <3>3. QED
      BY <1>1, <3>1, <3>2, JobsOfFacts
  <2> HIDE DEF j, s
  <2>6. CASE WorkerRead
    <3>1. j.op = "read"
      BY <2>6 DEF WorkerRead, Serving, j
    <3>2. Answer(IF Exists(j.dn) THEN "entry" ELSE "error", j.dn)
      BY <2>6 DEF WorkerRead, j
    <3>3. JobsOf(resps') = Append(s, j)
      BY <2>5, <3>2
    <3>4. LastReadIs(j.dn, JobsOf(resps')) /\ ~NoRead(JobsOf(resps'))
      BY <2>2, <2>4, <3>1, <3>3, ReadAppended
    <3>5. QED
      BY <2>1, <2>2, <3>1, <3>4 DEF LeafFollows
  <2>7. CASE WorkerModify \/ WorkerModrdn
    <3>1. j.op # "read"
      BY <2>7 DEF WorkerModify, WorkerModrdn, Serving, j
    <3>2. \E k \in {"entry", "ok", "conflict", "error"} : \E d : Answer(k, d)
      <4>1. ModifyVerdict(j) \in {"ok", "conflict", "error"}
        BY DEF ModifyVerdict
      <4>2. QED
        BY <2>7, <4>1 DEF WorkerModify, WorkerModrdn, j
    <3>3. JobsOf(resps') = Append(s, j)
      BY <2>5, <3>2
    <3>4. /\ LastReadIs(currentLeaf, s) => LastReadIs(currentLeaf, JobsOf(resps'))
          /\ NoRead(JobsOf(resps')) <=> NoRead(s)
      BY <2>2, <2>4, <3>1, <3>3, OtherAppended
    <3>5. QED
      BY <2>1, <2>2, <3>1, <3>4, LeafKept DEF s
  <2>8. CASE WorkerReread
    <3>1. j.op # "read" /\ resps' = resps
      BY <2>8 DEF WorkerReread, Serving, j
    <3>2. QED
      BY <2>1, <2>2, <3>1, LeafKept
  <2>9. QED
    BY <1>8, <2>6, <2>7, <2>8 DEF Worker
<1>9. CASE WorkerFault \/ WorkerRereadFault
  BY <1>9 DEF WorkerFault, WorkerRereadFault, ReadsSucceed, TypeOK
<1>10. CASE \/ \E a \in Attrs, vs \in Writable : EditField(a, vs)
            \/ \E d \in DNs : EditName(d) \/ RequestLeaf(d)
            \/ PressSave \/ RequestQuit \/ Dismiss \/ GuardSave \/ GuardStay \/ QuitSave
            \/ QuitDiscard \/ QuitStay \/ ConflictOverwrite \/ ConflictKeep
            \/ RereadFailed \/ ResolveByAsking \/ Dispatch \/ Others \/ UNCHANGED vars
  <2>1. jobs' = jobs /\ resps' = resps /\ currentLeaf' = currentLeaf
    BY <1>10 DEF EditField, EditName, RequestLeaf, PressSave, RequestQuit, Dismiss, GuardSave,
                 GuardStay, QuitSave, QuitDiscard, QuitStay, ConflictOverwrite, ConflictKeep,
                 RereadFailed, ResolveByAsking, Dispatch, RunGuard, ShowConflict, ShowError, Quit,
                 Others, OtherWrite, OtherDelete, vars
  <2>2. editForm'.dn = editForm.dn
    BY <1>1, <1>10 DEF EditField, EditName, RequestLeaf, PressSave, RequestQuit, Dismiss, GuardSave,
                 GuardStay, QuitSave, QuitDiscard, QuitStay, ConflictOverwrite, ConflictKeep,
                 RereadFailed, ResolveByAsking, Dispatch, RunGuard, ShowConflict, ShowError, Quit,
                 Others, OtherWrite, OtherDelete, vars, Form
  <2>3. QED
    BY <1>2, <2>1, <2>2
<1>11. QED
  BY <1>3, <1>4, <1>5, <1>6, <1>7, <1>8, <1>9, <1>10 DEF Next, Operator, Pump

(***************************************************************************)
(* LeafInv is the inductive invariant; every name is there at the start.   *)
(***************************************************************************)
LeafInv == TypeOK /\ AllThere /\ Named /\ LeafFollows

LEMMA LeafInit ==
  ASSUME ReadsSucceed, Init
  PROVE  LeafInv
<1>1. TypeOK
  BY TypeInit
<1>2. AllThere
  BY EntrySaveAssumption DEF AllThere, Init, ReadsSucceed
<1>3. jobs = <<>> /\ resps = <<>> /\ reply = <<>> /\ editForm = NoForm /\ dialog = Closed
  BY DEF Init
<1>4. Len(jobs) = 0 /\ Len(resps) = 0 /\ Len(reply) = 0 /\ JobsOf(resps) = <<>>
  BY <1>3 DEF JobsOf
<1>5. Named
  BY <1>3 DEF Named, FormNamed, DialogNamed, JobsNamed, AnswersNamed, RepliesNamed, NoForm, IsOpen,
              Closed
<1>6. LeafFollows
  BY <1>3, <1>4 DEF LeafFollows, LastReadIs, NoForm, IsOpen
<1>7. QED
  BY <1>1, <1>2, <1>5, <1>6 DEF LeafInv

(***************************************************************************)
(* FormIsCurrentLeaf: once the reads the operator asked for have all been  *)
(* answered, however many were outstanding together and whatever saves,    *)
(* conflicts and rebases came between, the form is the current leaf's.     *)
(***************************************************************************)
THEOREM LeafCorrect ==
  ASSUME ReadsSucceed
  PROVE  Spec => []FormIsCurrentLeaf
<1>1. Init => LeafInv
  BY LeafInit
<1>2. LeafInv /\ [Next]_vars => LeafInv'
  <2> SUFFICES ASSUME LeafInv, [Next]_vars PROVE LeafInv'
    OBVIOUS
  <2>1. TypeOK /\ AllThere /\ Named /\ LeafFollows
    BY DEF LeafInv
  <2>2. TypeOK'
    BY <2>1, TypeStep
  <2>3. AllThere'
    BY <2>1, ThereStep
  <2>4. Named'
    BY <2>1, FormAndDialogNamed, QueuesNamed DEF Named
  <2>5. LeafFollows'
    BY <2>1, LeafStep
  <2>6. QED
    BY <2>2, <2>3, <2>4, <2>5 DEF LeafInv
<1>3. LeafInv => FormIsCurrentLeaf
  <2> SUFFICES ASSUME LeafInv, IsOpen(editForm),
                      \A i \in 1..Len(jobs)  : jobs[i].op # "read",
                      \A i \in 1..Len(resps) : resps[i].job.op # "read"
               PROVE  editForm.dn = currentLeaf
    BY DEF FormIsCurrentLeaf
  <2>1. resps \in Seq(Response) /\ NoRead(jobs)
    BY DEF LeafInv, TypeOK, NoRead
  <2>2. Len(JobsOf(resps)) = Len(resps) /\ \A i \in 1..Len(resps) : JobsOf(resps)[i] = resps[i].job
    BY <2>1 DEF JobsOf
  <2>3. NoRead(JobsOf(resps))
    BY <2>2 DEF NoRead
  <2>4. QED
    BY <2>1, <2>3 DEF LeafInv, LeafFollows
<1>4. QED
  BY <1>1, <1>2, <1>3, PTL DEF Spec

=============================================================================
