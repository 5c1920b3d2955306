----------------------------- MODULE WriteFlow -----------------------------
(***************************************************************************)
(* The correlation of writes and answers (src/workflows/write_flow.rs):    *)
(* every request the flow submits gets an id and an intent saying what its *)
(* answer will mean; on_response looks the intent up, once.  A save may be *)
(* several writes: a rename and its modifications or a companion and its   *)
(* primary, one after the other; the legs of a membership save, all at     *)
(* once and counted by a batch.  The worker (src/ldap/worker.rs) serves    *)
(* them in order; the server's verdict on each is free here.               *)
(*                                                                         *)
(* Saves are numbered, and so are the writes (parts) of a save.  What the  *)
(* controller does with an outcome beyond submitting a follow-up is in     *)
(* EntrySave.  The write that answers a conflict is a new save.            *)
(*                                                                         *)
(* A definition marked "faulty" is not in Next: it is a plausible bug in   *)
(* the one after it, kept to show that a property notices it.              *)
(***************************************************************************)
EXTENDS Naturals, Sequences, FiniteSets

CONSTANTS MaxSaves,  \* bound: saves submitted
          MaxLegs    \* bound: legs of a membership save

ASSUME WriteFlowAssumption == MaxSaves \in Nat /\ MaxLegs \in Nat

VARIABLES
  nextId,   \* WriteFlow::next_id, from 1
  pending,  \* WriteFlow::pending: what the answer to each id means
  batches,  \* WriteFlow::batches: outstanding legs of each live batch
  queue,    \* the worker's requests, FIFO
  resps,    \* its answers, not yet polled
  size,     \* history: the number of writes of each save
  todo,     \* history: the writes of each save that have not landed
  told      \* history: what has been reported of each save

flowVars  == <<nextId, pending, batches>>
histVars  == <<size, todo, told>>
vars == <<flowVars, queue, resps, histVars>>

Saves == 1..Len(size)

(***************************************************************************)
(* A WriteIntent.  save and part say which write it is; renamed is         *)
(* renamed_from, companion is set where companion_dn is carried.           *)
(***************************************************************************)
Intent == [kind : {"Save", "RenameThenModify", "Create", "CombinedLeg",
                   "CompanionThenPrimary", "PrimaryAfterCompanion"},
           save : Nat, part : Nat, batch : Nat, renamed : BOOLEAN]

Request == [id : Nat, op : {"modify", "modrdn", "add", "atomic"}, asserted : BOOLEAN]

Response == [id : Nat, kind : {"ok", "conflict", "error"}]

\* what the operator and the tree are told: an outcome, the DN renamed from, an orphan's name
Report == [kind : {"success", "conflict", "error"}, renamed : BOOLEAN, orphan : BOOLEAN]

Plain(kind) == [kind |-> kind, renamed |-> FALSE, orphan |-> FALSE]

TypeOK ==
  /\ nextId \in Nat \ {0}
  /\ DOMAIN pending \subseteq 1..(nextId - 1)
  /\ \A i \in DOMAIN pending : pending[i] \in Intent /\ pending[i].save \in Saves
  /\ pending = [i \in DOMAIN pending |-> pending[i]]
  /\ DOMAIN batches \subseteq 1..(nextId - 1)
  /\ batches \in [DOMAIN batches -> Nat]
  /\ queue \in Seq(Request)
  /\ resps \in Seq(Response)
  /\ size \in Seq(Nat)
  /\ todo \in Seq(SUBSET Nat) /\ Len(todo) = Len(size)
  /\ told \in Seq(Seq(Report)) /\ Len(told) = Len(size)

Init ==
  /\ nextId = 1 /\ pending = <<>> /\ batches = <<>>
  /\ queue = <<>> /\ resps = <<>>
  /\ size = <<>> /\ todo = <<>> /\ told = <<>>

-----------------------------------------------------------------------------
Extend(f, g) == [i \in DOMAIN f \cup DOMAIN g |-> IF i \in DOMAIN g THEN g[i] ELSE f[i]]

Without(f, i) == [j \in DOMAIN f \ {i} |-> f[j]]

Means(kind, save, part) ==
  [kind |-> kind, save |-> save, part |-> part, batch |-> 0, renamed |-> FALSE]

(***************************************************************************)
(* Submissions.                                                            *)
(***************************************************************************)
NewSave(n) ==
  /\ Len(size) < MaxSaves
  /\ size' = Append(size, n)
  /\ todo' = Append(todo, 1..n)
  /\ told' = Append(told, <<>>)

\* faulty: the legs of a membership save count as one
AllocOne(n) == nextId' = nextId + 1

\* n ids from the counter
Alloc(n) == nextId' = nextId + n

\* one request under the next id, and its intent
Send(table, op, asserted, intent) ==
  /\ queue' = Append(queue, [id |-> nextId, op |-> op, asserted |-> asserted])
  /\ pending' = Extend(table, [i \in {nextId} |-> intent])
  /\ Alloc(1)

Alone(n, op, asserted, intent) ==
  /\ NewSave(n)
  /\ Send(pending, op, asserted, intent)
  /\ UNCHANGED <<batches, resps>>

Fresh == Len(size) + 1

\* WriteFlow::submit, by plan
SubmitModify(asserted) == Alone(1, "modify", asserted, Means("Save", Fresh, 1))

SubmitRenameOnly ==
  Alone(1, "modrdn", FALSE, [Means("Save", Fresh, 1) EXCEPT !.renamed = TRUE])

SubmitRename == Alone(2, "modrdn", FALSE, Means("RenameThenModify", Fresh, 1))

SubmitCreate == Alone(1, "add", FALSE, Means("Create", Fresh, 1))

\* both entries in one request: the transaction is the worker's
SubmitCreateAtomic == Alone(1, "atomic", FALSE, Means("Create", Fresh, 1))

SubmitCreateWithCompanion == Alone(2, "add", FALSE, Means("CompanionThenPrimary", Fresh, 1))

\* every leg has an id of its own, the first names the batch; `known` are the legs with a CSN
SubmitCombined(n, known) ==
  /\ NewSave(n)
  /\ queue' = queue \o [p \in 1..n |-> [id |-> nextId + p - 1, op |-> "modify",
                                        asserted |-> p \in known]]
  /\ pending' = Extend(pending,
       [i \in nextId..(nextId + n - 1) |->
          [Means("CombinedLeg", Fresh, i - nextId + 1) EXCEPT !.batch = nextId]])
  /\ batches' = Extend(batches, [b \in {nextId} |-> n])
  /\ Alloc(n)
  /\ UNCHANGED resps

-----------------------------------------------------------------------------
(***************************************************************************)
(* The worker serves the head of its queue.                                *)
(***************************************************************************)
Answer(kind) ==
  /\ queue # <<>>
  /\ queue' = Tail(queue)
  /\ resps' = Append(resps, [id |-> Head(queue).id, kind |-> kind])
  /\ UNCHANGED <<flowVars, size, told>>

Landed == LET i == pending[Head(queue).id] IN todo' = [todo EXCEPT ![i.save] = @ \ {i.part}]

WorkerWrites == Answer("ok") /\ Landed

\* rc 122, only of a write that asserts a CSN
WorkerConflict == Answer("conflict") /\ Head(queue).asserted /\ UNCHANGED todo

WorkerRefuses == Answer("error") /\ UNCHANGED todo

\* the connection broke before the answer came
WorkerLosesAnswer == Answer("error") /\ Landed

-----------------------------------------------------------------------------
(***************************************************************************)
(* on_response, with the follow-up apply_write_outcome submits for it.     *)
(* Each answer takes its intent out of `pending`.                          *)
(***************************************************************************)
Polled(kind) == resps # <<>> /\ Head(resps).kind = kind

Answered == Head(resps).id

Meant == pending[Answered]

\* faulty: the intent is looked up and left there
StillThere == pending

Taken == Without(pending, Answered)

Close == resps' = Tail(resps) /\ pending' = Taken /\ UNCHANGED <<nextId, queue, size, todo>>

Tell(report) == told' = [told EXCEPT ![Meant.save] = Append(@, report)]

OnSaved ==
  /\ Polled("ok") /\ Meant.kind = "Save"
  /\ Tell([Plain("success") EXCEPT !.renamed = Meant.renamed])
  /\ Close /\ UNCHANGED batches

OnCreated ==
  /\ Polled("ok") /\ Meant.kind \in {"Create", "PrimaryAfterCompanion"}
  /\ Tell(Plain("success"))
  /\ Close /\ UNCHANGED batches

FollowUp(op, asserted, intent) ==
  /\ resps' = Tail(resps)
  /\ Send(Taken, op, asserted, intent)
  /\ UNCHANGED <<batches, histVars>>

\* faulty: the modifications after a rename assert a CSN
OnRenamedAsserting ==
  /\ Polled("ok") /\ Meant.kind = "RenameThenModify"
  /\ FollowUp("modify", TRUE, [Means("Save", Meant.save, 2) EXCEPT !.renamed = TRUE])

\* NeedFollowupModify and submit_followup
OnRenamed ==
  /\ Polled("ok") /\ Meant.kind = "RenameThenModify"
  /\ FollowUp("modify", FALSE, [Means("Save", Meant.save, 2) EXCEPT !.renamed = TRUE])

\* faulty: the companion's answer is taken for the whole
OnCompanionForgotten ==
  /\ Polled("ok") /\ Meant.kind = "CompanionThenPrimary"
  /\ Close /\ UNCHANGED <<batches, told>>

\* NeedFollowupCreate and submit_followup_create
OnCompanion ==
  /\ Polled("ok") /\ Meant.kind = "CompanionThenPrimary"
  /\ FollowUp("add", FALSE, Means("PrimaryAfterCompanion", Meant.save, 2))

Live(b) == b \in DOMAIN batches

OnLeg ==
  /\ Polled("ok") /\ Meant.kind = "CombinedLeg"
  /\ LET b == Meant.batch
     IN  \/ /\ Live(b) /\ batches[b] = 1
            /\ batches' = Without(batches, b)
            /\ Tell(Plain("success"))
         \/ /\ Live(b) /\ batches[b] # 1
            /\ batches' = [batches EXCEPT ![b] = @ - 1]
            /\ UNCHANGED told
         \/ ~Live(b) /\ UNCHANGED <<batches, told>>
  /\ Close

OnConflict ==
  /\ Polled("conflict") /\ Meant.kind = "Save"
  /\ Tell(Plain("conflict"))
  /\ Close /\ UNCHANGED batches

\* faulty: a leg that failed counts as done, so that its siblings complete the batch
BatchLessOne ==
  /\ batches' = IF Live(Meant.batch)
                THEN [batches EXCEPT ![Meant.batch] = IF @ > 1 THEN @ - 1 ELSE @] ELSE batches
  /\ Tell(Plain("error"))

\* a leg refused or in conflict aborts its batch
BatchAborted == batches' = Without(batches, Meant.batch) /\ Tell(Plain("error"))

OnLegRefused ==
  /\ Polled("conflict") \/ Polled("error")
  /\ Meant.kind = "CombinedLeg"
  /\ BatchAborted
  /\ Close

\* faulty: the failure of a primary says nothing of its companion
OnErrorPlain ==
  /\ Polled("error") /\ Meant.kind # "CombinedLeg"
  /\ Tell(Plain("error"))
  /\ Close /\ UNCHANGED batches

\* a primary that failed names the companion already created
OnError ==
  /\ Polled("error") /\ Meant.kind # "CombinedLeg"
  /\ Tell([Plain("error") EXCEPT !.orphan = Meant.kind = "PrimaryAfterCompanion"])
  /\ Close /\ UNCHANGED batches

-----------------------------------------------------------------------------
Submit ==
  \/ \E asserted \in BOOLEAN : SubmitModify(asserted)
  \/ SubmitRenameOnly \/ SubmitRename
  \/ SubmitCreate \/ SubmitCreateAtomic \/ SubmitCreateWithCompanion
  \/ \E n \in 1..MaxLegs : \E known \in SUBSET (1..n) : SubmitCombined(n, known)

Worker == WorkerWrites \/ WorkerConflict \/ WorkerRefuses \/ WorkerLosesAnswer

OnResponse ==
  OnSaved \/ OnCreated \/ OnRenamed \/ OnCompanion \/ OnLeg \/ OnConflict \/ OnLegRefused \/ OnError

Next == Submit \/ Worker \/ OnResponse

Spec == Init /\ [][Next]_vars

(***************************************************************************)
(* The worker thread serves its queue and the pump's timer polls; nobody   *)
(* has to save.                                                            *)
(***************************************************************************)
FairSpec == Spec /\ WF_vars(Worker) /\ WF_vars(OnResponse)

-----------------------------------------------------------------------------
(***************************************************************************)
(* Properties.                                                             *)
(***************************************************************************)
LegsOf(b) == {i \in DOMAIN pending : pending[i].kind = "CombinedLeg" /\ pending[i].batch = b}

(***************************************************************************)
(* The counter of a live batch is the number of its legs that are still    *)
(* pending, never zero; they are legs of one save, of which nothing has    *)
(* been reported, and every write of it that has not landed is one of      *)
(* them (submit_combined, and the CombinedLeg arms of on_response).        *)
(***************************************************************************)
BatchAccounting ==
  \A b \in DOMAIN batches :
    /\ batches[b] = Cardinality(LegsOf(b)) /\ batches[b] > 0
    /\ \A i, j \in LegsOf(b) : pending[i].save = pending[j].save
    /\ \A i \in LegsOf(b) :
         /\ told[pending[i].save] = <<>>
         /\ todo[pending[i].save] \subseteq {pending[j].part : j \in LegsOf(b)}

(***************************************************************************)
(* An id is pending exactly while its request is queued or its answer is   *)
(* not yet polled, so that every answer finds its intent, once, and never  *)
(* that of another write.                                                  *)
(***************************************************************************)
Ids(s) == {s[i].id : i \in 1..Len(s)}

Distinct(s) == \A i, j \in 1..Len(s) : s[i].id = s[j].id => i = j

OneAnswerEach ==
  /\ DOMAIN pending = Ids(queue) \cup Ids(resps)
  /\ Ids(queue) \cap Ids(resps) = {}
  /\ Distinct(queue) /\ Distinct(resps)
  /\ \A i \in DOMAIN pending : pending[i].batch < nextId

\* only legs share a save
SavesApart ==
  \A i, j \in DOMAIN pending :
    pending[i].save = pending[j].save =>
      \/ i = j
      \/ /\ pending[i].kind = "CombinedLeg" /\ pending[j].kind = "CombinedLeg"
         /\ pending[i].batch = pending[j].batch

\* what has landed, and been told, of a save while a write that is no leg is pending
Stages ==
  \A i \in DOMAIN pending :
    LET p == pending[i]
    IN  /\ p.kind # "CombinedLeg" => told[p.save] = <<>>
        /\ p.kind \in {"Save", "Create", "PrimaryAfterCompanion"} => todo[p.save] \subseteq {p.part}
        /\ p.kind \in {"RenameThenModify", "CompanionThenPrimary"} =>
              p.part = 1 /\ todo[p.save] \subseteq {1, 2}
        /\ p.kind = "PrimaryAfterCompanion" => p.part = 2

Untouched(p) == todo[p.save] = 1..size[p.save]

\* an answer tells the truth, and a conflict can only answer a save's first write or a leg
Truthful ==
  /\ \A i \in 1..Len(queue) :
       LET p == pending[queue[i].id]
       IN  queue[i].asserted => \/ p.kind = "CombinedLeg"
                                \/ p.kind = "Save" /\ Untouched(p)
  /\ \A i \in 1..Len(resps) :
       LET p == pending[resps[i].id]
       IN  /\ resps[i].kind = "ok" => p.part \notin todo[p.save]
           /\ resps[i].kind = "conflict" => \/ p.kind = "CombinedLeg"
                                            \/ p.kind = "Save" /\ Untouched(p)

(***************************************************************************)
(* Requests, intents, answers and what has landed agree, however the       *)
(* answers of several saves interleave (alloc, the pending table, and the  *)
(* asserted CSNs of submit and submit_followup).  With BatchAccounting     *)
(* this is the inductive invariant.                                        *)
(***************************************************************************)
Correlation == OneAnswerEach /\ SavesApart /\ Stages /\ Truthful

(***************************************************************************)
(* The write flow keeps its promise, of every kind of save: success only   *)
(* when all of it landed, a conflict only when none of it did, and no      *)
(* second thoughts.                                                        *)
(***************************************************************************)
Verdict(reports) == IF reports = <<>> THEN "open" ELSE reports[1].kind

outcome == [s \in 1..Len(told) |-> Verdict(told[s])]

Promise == INSTANCE SavePromise WITH Sizes <- {1, 2} \cup 1..MaxLegs

KeepsPromise == Promise!Spec

(***************************************************************************)
(* What a report adds to its outcome is true and is not forgotten: a       *)
(* primary that failed after its companion was answered names the          *)
(* companion, which is there (the PrimaryAfterCompanion arm of             *)
(* on_response), and the success of a save that renamed, in one write or   *)
(* in two, names the DN it moved away from, which is gone.                 *)
(***************************************************************************)
ReportsNameWhatLanded ==
  [][\A s \in Saves :
       told'[s] # told[s] =>
         LET r == told'[s][Len(told'[s])]
         IN  /\ r.orphan \/ r.renamed => 1 \notin todo[s]
             /\ r.kind = "error" /\ Meant.kind = "PrimaryAfterCompanion" => r.orphan
             /\ r.kind = "success" /\ Meant.renamed => r.renamed]_vars

(***************************************************************************)
(* Every save is reported on, whatever the verdicts of the server and the  *)
(* order of the answers.                                                   *)
(***************************************************************************)
SavesAreAnswered ==
  \A s \in 1..MaxSaves : (s \in Saves /\ told[s] = <<>>) ~> (s \in Saves /\ told[s] # <<>>)

-----------------------------------------------------------------------------
(***************************************************************************)
(* What a comment says and the code does not do.                           *)
(***************************************************************************)

(***************************************************************************)
(* "abort the batch (so sibling legs' later responses become Ignored)"     *)
(* (write_flow.rs:815-816): of one save the operator hears one verdict.    *)
(***************************************************************************)
OneVerdictPerSave == \A s \in Saves : Len(told[s]) <= 1
=============================================================================
