---------------------------- MODULE MembershipSave ----------------------------
(***************************************************************************)
(* Saving an entry whose groups were changed: do_combined_save of          *)
(* src/ui/app.rs.  The memberships are written on the groups, one MODIFY   *)
(* each after the entry's own.  Before that the versions of the groups and *)
(* the members of those a removal could empty are read, one blocking       *)
(* request after the other, while other clients go on changing both.       *)
(* WriteFlow has the correlation of the answers; here is what the legs do  *)
(* to the directory and what the operator is told.                         *)
(***************************************************************************)
EXTENDS Naturals, Sequences, SequencesExt, FiniteSets

CONSTANTS
  Groups, Must,    \* all groups, and those that must have a member
  Me, Others,      \* the entry being edited, and other members
  Texts,           \* what its own attribute can hold
  Start,           \* the members of the groups at first
  None,            \* no entryCSN to assert
  MaxSaves, MaxEdits, MaxReads, MaxOthers, MaxFaults   \* bounds

ASSUME MembershipAssumption ==
  /\ IsFiniteSet(Groups) /\ Must \subseteq Groups /\ Me \notin Others
  /\ None \notin Nat /\ Texts # {}
  /\ Start \in SUBSET [Groups -> SUBSET ({Me} \cup Others)]
  /\ {MaxSaves, MaxEdits, MaxReads, MaxOthers, MaxFaults} \subseteq Nat

VARIABLES
  supported,  \* assertion_supported
  members,    \* the holder attribute of each group
  csn,        \* entryCSN of each group and of Me
  text,       \* the own attribute of Me, in the directory
  form,       \* edit_form: baseline and values, with baseline_csn
  step,       \* where do_combined_save is
  jobs, resps,
  batches,    \* WriteFlow::batches: the legs of a save still to be answered
  told,       \* what the operator was last told
  saves, edits, reads, changes, faults

server == <<members, csn, text>>
client == <<supported, form, step, batches, told, saves, edits, reads>>
vars   == <<server, client, jobs, resps, changes, faults>>

Idle    == [at |-> "idle"]
MyGroups == {g \in Groups : Me \in members[g]}
Entry   == [base |-> MyGroups, chosen |-> MyGroups, was |-> text, now |-> text, csn |-> csn[Me]]

Init ==
  /\ supported \in BOOLEAN
  /\ members \in Start /\ csn = [d \in Groups \cup {Me} |-> 0]
  /\ text = CHOOSE t \in Texts : TRUE
  /\ form = Entry
  /\ step = Idle /\ jobs = <<>> /\ resps = <<>>
  /\ batches = [n \in {} |-> 0] /\ told = "nothing"
  /\ saves = 0 /\ edits = 0 /\ reads = 0 /\ changes = 0 /\ faults = 0
-----------------------------------------------------------------------------
\* The operator.

Free == step = Idle

ToggleGroup(g) ==
  /\ Free /\ edits < MaxEdits /\ edits' = edits + 1
  /\ form' = [form EXCEPT !.chosen = IF g \in @ THEN @ \ {g} ELSE @ \cup {g}]
  /\ UNCHANGED <<server, supported, step, batches, told, saves, reads, jobs, resps, changes, faults>>

TypeText(t) ==
  /\ Free /\ edits < MaxEdits /\ edits' = edits + 1
  /\ t # form.now /\ form' = [form EXCEPT !.now = t]
  /\ UNCHANGED <<server, supported, step, batches, told, saves, reads, jobs, resps, changes, faults>>

\* The entry is read again; what the form holds is discarded.
ReadAgain ==
  /\ Free /\ reads < MaxReads /\ reads' = reads + 1
  /\ jobs' = Append(jobs, [what |-> "read"])
  /\ UNCHANGED <<server, supported, form, step, batches, told, saves, edits, resps, changes, faults>>

\* membership_fanout: adds, then deletes.
Fanout ==
  SetToSeq({[dn |-> g, op |-> "add"] : g \in form.chosen \ form.base})
    \o SetToSeq({[dn |-> g, op |-> "delete"] : g \in form.base \ form.chosen})

Removals(fan) == SelectSeq(fan, LAMBDA l : l.op = "delete")

\* The version the entry's own leg asserts.
\* faulty: that of the form open when the operator confirms
OwnCsnOf(plan) == IF supported THEN form.csn ELSE None

OwnCsn(plan) == plan.ownCsn

\* faulty: the members are read before the versions
MembersFirst == <<"members", "csns">>

Stages == <<"csns", "members">>

Stage(n, plan) ==
  IF n > Len(Stages) THEN [plan EXCEPT !.at = "check"]
  ELSE [plan EXCEPT !.at = Stages[n], !.stage = n,
                    !.todo = IF Stages[n] = "members" THEN Removals(plan.fan)
                             ELSE IF supported THEN plan.fan ELSE <<>>]

HasFanoutChange == form.chosen # form.base

\* SAVE with a membership changed (plan_combined_save); without, it is a plain
\* save (EntrySave).
PressSave ==
  /\ Free /\ saves < MaxSaves /\ HasFanoutChange
  /\ saves' = saves + 1
  /\ step' = Stage(1, [at |-> "csns", stage |-> 1, todo |-> <<>>, fan |-> Fanout,
                       was |-> form.was, now |-> form.now,
                       ownCsn |-> IF supported THEN form.csn ELSE None,
                       csns |-> [g \in Groups |-> None],
                       seen |-> [g \in Groups |-> {}]])
  /\ UNCHANGED <<server, supported, form, batches, told, edits, reads, jobs, resps, changes, faults>>

MayFail   == faults < MaxFaults /\ faults' = faults + 1
NoFailure == UNCHANGED faults

Fetching == step.at \in {"csns", "members"} /\ jobs = <<>>

\* One blocking search, answered after everything sent before it; a search that
\* fails leaves its group out, and so does a group that may be empty.
Fetch ==
  /\ Fetching /\ step.todo # <<>>
  /\ LET g == Head(step.todo).dn
         rest == [step EXCEPT !.todo = Tail(@)]
     IN  \/ /\ NoFailure
            /\ step' = IF step.at = "csns" THEN [rest EXCEPT !.csns[g] = csn[g]]
                       ELSE [rest EXCEPT !.seen[g] = IF g \in Must THEN members[g] ELSE {}]
         \/ MayFail /\ step' = rest
  /\ UNCHANGED <<server, supported, form, batches, told, saves, edits, reads, jobs, resps, changes>>

Fetched ==
  /\ Fetching /\ step.todo = <<>>
  /\ step' = Stage(step.stage + 1, step)
  /\ UNCHANGED <<server, supported, form, batches, told, saves, edits, reads, jobs, resps, changes, faults>>

\* last_member_block.
Empties == \E i \in DOMAIN step.fan :
             step.fan[i].op = "delete" /\ step.seen[step.fan[i].dn] = {Me}

Check ==
  /\ step.at = "check"
  /\ IF Empties THEN told' = "refused" /\ step' = Idle
     ELSE step' = [step EXCEPT !.at = "confirm"] /\ UNCHANGED told
  /\ UNCHANGED <<server, supported, form, batches, saves, edits, reads, jobs, resps, changes, faults>>

Cancel ==
  /\ step.at = "confirm" /\ step' = Idle
  /\ UNCHANGED <<server, supported, form, batches, told, saves, edits, reads, jobs, resps, changes, faults>>

\* submit_combined: the entry's own leg first, if it has changes.  (seen is
\* history: the members the check saw.)
Legs ==
  (IF step.was = step.now THEN <<>>
   ELSE <<[what |-> "modify", save |-> saves, dn |-> Me, op |-> "set", was |-> step.was,
           now |-> step.now, csn |-> OwnCsn(step)]>>)
    \o [i \in DOMAIN step.fan |->
          [what |-> "modify", save |-> saves, dn |-> step.fan[i].dn, op |-> step.fan[i].op,
           csn |-> step.csns[step.fan[i].dn], seen |-> step.seen[step.fan[i].dn]]]

Confirm ==
  /\ step.at = "confirm"
  /\ jobs' = jobs \o Legs
  /\ batches' = [n \in DOMAIN batches \cup {saves} |-> IF n = saves THEN Len(Legs) ELSE batches[n]]
  /\ step' = Idle
  /\ UNCHANGED <<server, supported, form, told, saves, edits, reads, resps, changes, faults>>
-----------------------------------------------------------------------------
\* The worker and the directory server.

Answered(r) == jobs' = Tail(jobs) /\ resps' = Append(resps, r)

ServeRead(j) ==
  /\ j.what = "read" /\ Answered([what |-> "read", entry |-> Entry])
  /\ UNCHANGED <<server, faults>>

Verdict(j, v) == Answered([what |-> v, save |-> j.save])

\* rc 122.
Stale(j) == j.csn # None /\ j.csn # csn[j.dn]

\* What is there cannot be added, what is not cannot be deleted, and a group
\* that must have a member keeps one.
LastOne(j)    == j.op = "delete" /\ j.dn \in Must /\ members[j.dn] = {Me}
Acceptable(j) ==
  CASE j.op = "add"    -> Me \notin members[j.dn]
    [] j.op = "delete" -> Me \in members[j.dn] /\ ~LastOne(j)
    [] j.op = "set"    -> TRUE

Land(j) ==
  /\ csn' = [csn EXCEPT ![j.dn] = @ + 1]
  /\ text' = IF j.op = "set" THEN j.now ELSE text
  /\ members' = [g \in Groups |->
                   CASE g = j.dn /\ j.op = "add"    -> members[g] \cup {Me}
                     [] g = j.dn /\ j.op = "delete" -> members[g] \ {Me}
                     [] OTHER                       -> members[g]]

\* A leg: a conflict, a refusal, a success, or a success whose answer is lost.
ServeLeg(j) ==
  /\ j.what = "modify"
  /\ \/ Stale(j) /\ NoFailure /\ UNCHANGED server /\ Verdict(j, "conflict")
     \/ ~Stale(j) /\ ~Acceptable(j) /\ NoFailure /\ UNCHANGED server /\ Verdict(j, "error")
     \/ ~Stale(j) /\ Acceptable(j) /\ NoFailure /\ Land(j) /\ Verdict(j, "ok")
     \/ ~Stale(j) /\ Acceptable(j) /\ MayFail /\ Land(j) /\ Verdict(j, "error")
     \/ MayFail /\ UNCHANGED server /\ Verdict(j, "error")

Serve ==
  /\ jobs # <<>>
  /\ ServeRead(Head(jobs)) \/ ServeLeg(Head(jobs))
  /\ UNCHANGED <<client, changes>>

\* Another client adds a member, removes one, or changes the entry.
Change(g, who) ==
  LET after == IF who \in members[g] THEN members[g] \ {who} ELSE members[g] \cup {who}
  IN  /\ g \in Must => after # {}
      /\ members' = [members EXCEPT ![g] = after]
      /\ csn' = [csn EXCEPT ![g] = @ + 1]
      /\ UNCHANGED text

ChangeText(t) ==
  /\ t # text /\ text' = t /\ csn' = [csn EXCEPT ![Me] = @ + 1]
  /\ UNCHANGED members

OtherClient ==
  /\ changes < MaxOthers /\ changes' = changes + 1
  /\ (\E g \in Groups, who \in {Me} \cup Others : Change(g, who)) \/ \E t \in Texts : ChangeText(t)
  /\ UNCHANGED <<client, jobs, resps, faults>>
-----------------------------------------------------------------------------
\* The pump, also under the preview; not while a request blocks.

PumpRead(r) ==
  /\ r.what = "read" /\ form' = r.entry
  /\ UNCHANGED <<batches, told, jobs>>

Without(n) == [m \in DOMAIN batches \ {n} |-> batches[m]]

\* A leg that landed: the last one of a batch still alive ends it, and the
\* entry is read again.
PumpOk(r) ==
  /\ r.what = "ok"
  /\ IF r.save \notin DOMAIN batches THEN UNCHANGED <<batches, told, jobs>>
     ELSE IF batches[r.save] > 1
     THEN batches' = [batches EXCEPT ![r.save] = @ - 1] /\ UNCHANGED <<told, jobs>>
     ELSE /\ batches' = Without(r.save) /\ told' = "saved"
          /\ jobs' = Append(jobs, [what |-> "read"])
  /\ UNCHANGED form

\* A leg that did not: its batch is dropped.
\* faulty: a conflict leaves it
DroppedOnError(r) == IF r.what = "error" THEN Without(r.save) ELSE batches

Dropped(r) == Without(r.save)

PumpFailure(r) ==
  /\ r.what \in {"error", "conflict"}
  /\ batches' = Dropped(r)
  /\ told' = IF r.what = "error" THEN "partly applied" ELSE "changed by another client"
  /\ UNCHANGED <<form, jobs>>

Pump ==
  /\ resps # <<>> /\ step.at \in {"idle", "confirm"}
  /\ LET r == Head(resps) IN PumpRead(r) \/ PumpOk(r) \/ PumpFailure(r)
  /\ resps' = Tail(resps)
  /\ UNCHANGED <<server, supported, step, saves, edits, reads, changes, faults>>

Next ==
  \/ (\E g \in Groups : ToggleGroup(g)) \/ (\E t \in Texts : TypeText(t))
  \/ ReadAgain \/ PressSave \/ Fetch \/ Fetched \/ Check \/ Cancel \/ Confirm
  \/ Serve \/ OtherClient \/ Pump

Spec == Init /\ [][Next]_vars

\* The worker serves, the pump polls, and the dispatch of a save goes on once
\* its requests are answered.
FairSpec == Spec /\ WF_vars(Serve) /\ WF_vars(Pump) /\ WF_vars(Fetch \/ Fetched \/ Check)
-----------------------------------------------------------------------------
\* The client's check of the last member is never stale: a removal that still
\* asserts the current version of its group, whose members were read, does not
\* leave it empty.  Versions are read before members, so a change between the
\* two, or later, conflicts (the server's own check is needed only where a
\* search failed or the server has no assertions).
RemovalsAreChecked ==
  \A i \in DOMAIN jobs :
    LET j == jobs[i]
    IN  j.what = "modify" /\ j.op = "delete" /\ j.csn # None /\ j.seen # {} /\ ~Stale(j)
          => ~LastOne(j)

\* The entry's own leg never overwrites what the operator was not shown: if it
\* is accepted, the value it replaces is the one it was diffed against, although
\* reads land under the preview.
OwnLegIsOfItsVersion ==
  \A i \in DOMAIN jobs :
    LET j == jobs[i]
    IN  j.what = "modify" /\ j.op = "set" /\ j.csn # None /\ ~Stale(j) => j.was = text

\* A save of several legs comes to an end in whichever order its legs land,
\* conflict and fail: its requests are answered, no counter is left behind.
SavesEnd ==
  /\ step.at \in {"csns", "members"} ~> step.at \notin {"csns", "members"}
  /\ \A n \in 1..MaxSaves : n \in DOMAIN batches ~> n \notin DOMAIN batches
=============================================================================
