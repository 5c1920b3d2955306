--------------------------- MODULE Picking_proofs ---------------------------
(***************************************************************************)
(* Whose answer an editor shows, for any directory, form and number of     *)
(* editors, texts and failures: the newest search is the only one whose    *)
(* answer counts, and that is enough because ids are never used twice and  *)
(* an editor asks before it shows anything.  What its columns hold, for    *)
(* any candidates: nothing twice, if no two of them are stored alike.      *)
(***************************************************************************)
EXTENDS Picking, Lists_proofs

(***************************************************************************)
(* Queues as sets: what holds of every request and of every answer.        *)
(***************************************************************************)
LEMMA SingleSet ==
  ASSUME NEW S, NEW x \in S
  PROVE  <<x>> \in Seq(S) /\ ToSet(<<x>>) = {x}
<1>1. <<x>> \in Seq(S) /\ DOMAIN <<x>> = {1} /\ <<x>>[1] = x
  OBVIOUS
<1>2. QED
  BY <1>1 DEF ToSet

LEMMA EmptySet ==
  ASSUME NEW S
  PROVE  <<>> \in Seq(S) /\ ToSet(<<>>) = {}
<1>1. <<>> \in Seq(S) /\ DOMAIN <<>> = {}
  OBVIOUS
<1>2. QED
  BY <1>1 DEF ToSet

(***************************************************************************)
(* What travels between the pump and the worker.                           *)
(***************************************************************************)
Request == [id : Nat, field : Fields, term : Terms \cup Keys]

SearchJobs == [what : {"search"}, ask : Request]
NameJobSet == [what : {"name"}, key : Keys]
EntryJobs  == [what : {"entry"}, entry : Entries]

Jobs    == SearchJobs \cup NameJobSet \cup EntryJobs
Answers == [what : {"search", "name", "entry"}, ok : BOOLEAN, job : Jobs]

Queued ==
  /\ jobs \in Seq(Jobs)
  /\ resps \in Seq(Answers)
  /\ \A r \in ToSet(resps) : r.what = r.job.what

FormOK == form.entry \in Entries /\ DOMAIN form.vals = 1..Len(FieldsOf[form.entry])

Parts == {"at", "entry", "field", "kind", "text", "avail", "sel", "saved", "answered"}

DialogOK(d) == d # NoDialog => DOMAIN d = Parts /\ d.kind \in Kinds /\ d.field \in Fields

\* the requests for candidates that are on their way, or answered and not polled
Asked(J)    == {j.ask : j \in {k \in J : k.what = "search"}}
Answered(R) == {r.job.ask : r \in {a \in R : a.what = "search"}}
Searching   == Asked(ToSet(jobs)) \cup Answered(ToSet(resps))

\* ids are given out once, in order, and the latest is the last
Ids ==
  /\ lastId \in Nat /\ latest = lastId
  /\ \A q \in Searching : q.id \in 1..lastId
  /\ results.ask.id \in 0..lastId

Settling == (\E q \in Searching : q.id = latest) \/ results.ask.id = latest

\* the latest request is the open editor's, and so is what it was answered
Own ==
  IsOpen /\ dialog.kind # "oc" =>
    /\ \A q \in Searching : q.id = latest => q.field = dialog.field
    /\ dialog.answered => results.ask.field = dialog.field

PickInv == Queued /\ FormOK /\ DialogOK(dialog) /\ Ids /\ Settling /\ Own

(***************************************************************************)
(* The operators of the model.                                             *)
(***************************************************************************)
LEMMA AskedUnion ==
  ASSUME NEW J, NEW M, NEW N, J = M \cup N
  PROVE  Asked(J) = Asked(M) \cup Asked(N)
  BY DEF Asked

LEMMA AnsweredUnion ==
  ASSUME NEW J, NEW M, NEW N, J = M \cup N
  PROVE  Answered(J) = Answered(M) \cup Answered(N)
  BY DEF Answered

LEMMA NoneAsked ==
  ASSUME NEW N, \A j \in N : j.what # "search"
  PROVE  Asked(N) = {} /\ Answered(N) = {}
  BY DEF Asked, Answered

LEMMA OneAsked ==
  ASSUME NEW j
  PROVE  /\ j.what = "search" => Asked({j}) = {j.ask} /\ Answered({j}) = {j.job.ask}
         /\ j.what # "search" => Asked({j}) = {} /\ Answered({j}) = {}
  BY DEF Asked, Answered

LEMMA NameJobsFacts ==
  ASSUME NEW S, S \subseteq Keys
  PROVE  /\ NameJobs(S) \in Seq(Jobs)
         /\ \A j \in ToSet(NameJobs(S)) : j.what # "search"
<1> DEFINE seq == SetToSeq(S)
           n   == Cardinality(S)
<1>1. IsFiniteSet(S) /\ n \in Nat
  BY PickingAssumption, FS_Subset, FS_CardinalityType
<1>2. seq \in [1..n -> S]
  <2>1. PICK f : f \in Bijection(1..n, S)
    BY <1>1, FS_CardinalityType DEF ExistsBijection
  <2>2. f \in [1..n -> S] /\ IsInjective(f)
    BY <2>1 DEF Bijection, Injection
  <2>3. QED
    BY <2>2 DEF SetToSeq
<1> HIDE DEF seq, n
<1>3. NameJobs(S) = [i \in 1..n |-> [what |-> "name", key |-> seq[i]]]
  BY <1>2 DEF NameJobs, seq
<1>4. \A i \in 1..n : [what |-> "name", key |-> seq[i]] \in NameJobSet
  BY <1>2 DEF NameJobSet
<1>5. NameJobs(S) \in Seq(Jobs)
  BY <1>1, <1>3, <1>4 DEF Jobs
<1>6. \A j \in ToSet(NameJobs(S)) : j.what # "search"
  BY <1>3 DEF ToSet
<1>7. QED
  BY <1>5, <1>6

LEMMA SyncedFacts ==
  ASSUME NEW d, DOMAIN d = Parts, d.kind \in Kinds, d.field \in Fields, NEW rows, NEW c
  PROVE  /\ DOMAIN Synced(d, rows, c) = Parts
         /\ Synced(d, rows, c).kind = d.kind
         /\ Synced(d, rows, c).field = d.field
         /\ Synced(d, rows, c).answered = d.answered
<1>1. CASE d.kind \in {"lookup", "picker"}
  BY <1>1 DEF Synced, Parts
<1>2. CASE d.kind = "multi"
  BY <1>2 DEF Synced, Parts
<1>3. CASE d.kind = "oc"
  BY <1>3 DEF Synced, Parts
<1>4. QED
  BY <1>1, <1>2, <1>3 DEF Kinds

(***************************************************************************)
(* What is asked, or is no search, leaves everything else as it is.        *)
(***************************************************************************)
LEMMA AskStep ==
  ASSUME Queued, Ids, NEW f \in Fields, NEW t \in Terms \cup Keys, NEW resolve \in Seq(Jobs),
         \A j \in ToSet(resolve) : j.what # "search",
         Ask(f, t, jobs \o resolve), UNCHANGED resps
  PROVE  /\ Queued' /\ Ids' /\ Settling'
         /\ \A q \in Searching' : q.id = latest' => q.field = f
<1> DEFINE q0   == [id |-> lastId + 1, field |-> f, term |-> t]
           j0   == [what |-> "search", ask |-> q0]
           more == jobs \o resolve
<1>1. more \in Seq(Jobs) /\ ToSet(more) = ToSet(jobs) \cup ToSet(resolve)
  BY ConcatSet DEF Queued
<1>2. lastId \in Nat /\ latest = lastId /\ q0 \in Request /\ j0 \in Jobs
  BY DEF Ids, Request, SearchJobs, Jobs
<1>3. jobs' = Append(more, j0) /\ lastId' = lastId + 1 /\ latest' = lastId + 1
      /\ results' = results /\ resps' = resps
  BY DEF Ask
<1>4. j0.what = "search" /\ j0.ask = q0 /\ q0.id = lastId + 1 /\ q0.field = f
  OBVIOUS
<1> HIDE DEF more, j0, q0
<1>5. jobs' \in Seq(Jobs) /\ ToSet(jobs') = ToSet(jobs) \cup ToSet(resolve) \cup {j0}
  BY <1>1, <1>2, <1>3, AppendSet
<1>6. Asked(ToSet(jobs')) = Asked(ToSet(jobs)) \cup {q0}
  <2>1. Asked(ToSet(resolve)) = {} /\ Asked({j0}) = {q0}
    BY <1>4, NoneAsked, OneAsked
  <2>2. Asked(ToSet(jobs')) = Asked(ToSet(jobs) \cup ToSet(resolve)) \cup Asked({j0})
    BY <1>5, AskedUnion
  <2>3. Asked(ToSet(jobs) \cup ToSet(resolve)) = Asked(ToSet(jobs)) \cup Asked(ToSet(resolve))
    BY AskedUnion
  <2>4. QED
    BY <2>1, <2>2, <2>3
<1>7. Searching' = Searching \cup {q0}
  BY <1>3, <1>6 DEF Searching
<1>8. Queued'
  BY <1>3, <1>5 DEF Queued
<1>9. Ids'
  BY <1>2, <1>3, <1>4, <1>7 DEF Ids
<1>10. Settling'
  BY <1>3, <1>4, <1>7 DEF Settling
<1>11. \A q \in Searching' : q.id = latest' => q.field = f
  BY <1>2, <1>3, <1>4, <1>7 DEF Ids
<1>12. QED
  BY <1>8, <1>9, <1>10, <1>11

LEMMA OtherSent ==
  ASSUME Queued, NEW more \in Seq(Jobs), \A j \in ToSet(more) : j.what # "search",
         jobs' = jobs \o more, UNCHANGED resps
  PROVE  Queued' /\ Searching' = Searching
<1>1. jobs' \in Seq(Jobs) /\ ToSet(jobs') = ToSet(jobs) \cup ToSet(more)
  BY ConcatSet DEF Queued
<1>2. Asked(ToSet(jobs')) = Asked(ToSet(jobs))
  <2>1. Asked(ToSet(jobs) \cup ToSet(more)) = Asked(ToSet(jobs)) \cup Asked(ToSet(more))
    BY AskedUnion
  <2>2. Asked(ToSet(more)) = {}
    BY NoneAsked
  <2>3. QED
    BY <1>1, <2>1, <2>2
<1>3. QED
  BY <1>1, <1>2 DEF Queued, Searching

LEMMA NothingSearched ==
  ASSUME Ids, Settling, UNCHANGED search, Searching' = Searching
  PROVE  Ids' /\ Settling'
  BY DEF Ids, Settling, search

LEMMA OwnKept ==
  ASSUME Own, UNCHANGED search, Searching' = Searching,
         IsOpen' => /\ IsOpen /\ dialog'.kind = dialog.kind /\ dialog'.field = dialog.field
                    /\ dialog'.answered = dialog.answered
  PROVE  Own'
  BY DEF Own, search

(***************************************************************************)
(* The steps.                                                              *)
(***************************************************************************)
LEMMA ActivateStep ==
  ASSUME PickInv, NEW i \in DOMAIN form.vals, Activate(i)
  PROVE  PickInv'
<1> DEFINE f == FieldAt(i)
           d == Seeded(i)
<1>1. f \in Fields /\ Kind[f] \in Kinds
  <2>1. form.entry \in Entries /\ i \in 1..Len(FieldsOf[form.entry])
    BY DEF PickInv, FormOK
  <2>2. FieldsOf[form.entry] \in Seq(Fields)
    BY <2>1, PickingAssumption
  <2>3. QED
    BY <2>1, <2>2, PickingAssumption DEF FieldAt
<1>2. DOMAIN d = Parts /\ d.kind = Kind[f] /\ d.field = f /\ d.answered = FALSE
  <2> DEFINE ks  == form.vals[i]
             sel == IF Kind[f] = "oc" THEN Kept(Scope[f], ToSet(ks)) ELSE ks
             e   == [at |-> i, entry |-> form.entry, field |-> f, kind |-> Kind[f],
                     text |-> IF Kind[f] = "lookup" /\ ks # <<>> THEN ks[1] ELSE Empty,
                     avail |-> <<>>, sel |-> Rows(sel), saved |-> ks, answered |-> FALSE]
  <2>1. DOMAIN e = Parts /\ e.kind = Kind[f] /\ e.field = f /\ e.answered = FALSE
    BY DEF Parts
  <2>2. d = Synced(e, results.rows, cache)
    BY DEF Seeded
  <2> HIDE DEF e, d, f
  <2>3. QED
    BY <1>1, <2>1, <2>2, SyncedFacts
<1>3. dialog' = d /\ form' = form /\ resps' = resps
  BY DEF Activate
<1> HIDE DEF f, d
<1>4. Queued /\ FormOK /\ Ids /\ Settling
  BY DEF PickInv
<1>5. FormOK' /\ DialogOK(dialog')
  BY <1>1, <1>2, <1>3, <1>4 DEF FormOK, DialogOK
<1>6. CASE d.kind = "oc"
  <2>1. jobs' = jobs /\ UNCHANGED search
    BY <1>6 DEF Activate, d
  <2>2. Queued' /\ Searching' = Searching
    BY <1>3, <1>4, <2>1 DEF Queued, Searching
  <2>3. Own'
    BY <1>3, <1>6 DEF Own
  <2>4. QED
    BY <1>4, <1>5, <2>1, <2>2, <2>3, NothingSearched DEF PickInv
<1>7. CASE d.kind # "oc"
  <2> DEFINE members == IF d.kind = "multi" THEN Unnamed(ToSet(form.vals[i])) ELSE {}
  <2>1. Ask(f, Empty, jobs \o NameJobs(members))
    BY <1>2, <1>7 DEF Activate, d
  <2>2. members \subseteq Keys
    BY DEF Unnamed
  <2> HIDE DEF members
  <2>3. NameJobs(members) \in Seq(Jobs) /\ \A j \in ToSet(NameJobs(members)) : j.what # "search"
    BY <2>2, NameJobsFacts
  <2>4. Empty \in Terms \cup Keys
    BY PickingAssumption
  <2>5. /\ Queued' /\ Ids' /\ Settling'
        /\ \A q \in Searching' : q.id = latest' => q.field = f
    BY <1>1, <1>3, <1>4, <2>1, <2>3, <2>4, AskStep
  <2>6. Own'
    BY <1>2, <1>3, <2>5 DEF Own
  <2>7. QED
    BY <1>5, <2>5, <2>6 DEF PickInv
<1>8. QED
  BY <1>6, <1>7

LEMMA TypeStep ==
  ASSUME PickInv, NEW t \in Terms \cup Numbers, Type(t)
  PROVE  PickInv'
<1>1. Queued /\ FormOK /\ Ids /\ DialogOK(dialog) /\ Own /\ IsOpen
  BY DEF PickInv, Type
<1>2. /\ Ask(dialog.field, t, jobs) /\ dialog' = [dialog EXCEPT !.text = t]
      /\ form' = form /\ resps' = resps /\ results' = results
  BY <1>1 DEF Type, Ask, DialogOK, IsOpen, Parts
<1>3. /\ DOMAIN dialog' = Parts /\ dialog'.kind = dialog.kind /\ dialog'.field = dialog.field
      /\ dialog'.answered = dialog.answered /\ dialog.field \in Fields /\ dialog.kind \in Kinds
  BY <1>1, <1>2 DEF DialogOK, IsOpen, Parts
<1>4. jobs = jobs \o <<>> /\ <<>> \in Seq(Jobs) /\ ToSet(<<>>) = {}
  BY <1>1, EmptySet DEF Queued
<1>5. t \in Terms \cup Keys
  BY PickingAssumption
<1>6. /\ Queued' /\ Ids' /\ Settling'
      /\ \A q \in Searching' : q.id = latest' => q.field = dialog.field
  BY <1>1, <1>2, <1>3, <1>4, <1>5, AskStep
<1>7. Own'
  BY <1>1, <1>2, <1>3, <1>6 DEF Own
<1>8. FormOK' /\ DialogOK(dialog')
  BY <1>1, <1>2, <1>3 DEF FormOK, DialogOK
<1>9. QED
  BY <1>6, <1>7, <1>8 DEF PickInv

LEMMA EditStep ==
  ASSUME PickInv, Edit \/ Ok \/ Cancel
  PROVE  PickInv'
<1>1. Queued /\ FormOK /\ Ids /\ Settling /\ DialogOK(dialog) /\ Own /\ IsOpen
  BY DEF PickInv, Edit, MirrorFocused, PickAt, MoveIn, MoveOut, Ok, Cancel
<1>2. /\ DOMAIN dialog = Parts /\ dialog.kind \in Kinds /\ dialog.field \in Fields
  BY <1>1 DEF DialogOK, IsOpen
<1>3. UNCHANGED <<queues, search>>
  BY DEF Edit, MirrorFocused, PickAt, MoveIn, MoveOut, Ok, Cancel, Edited
<1>4. dialog' # NoDialog => /\ DOMAIN dialog' = Parts /\ dialog'.kind = dialog.kind
                            /\ dialog'.field = dialog.field
                            /\ dialog'.answered = dialog.answered
  <2>1. CASE MirrorFocused \/ PickAt
    BY <1>2, <2>1 DEF MirrorFocused, PickAt, Edited, Parts
  <2>2. CASE MoveIn \/ MoveOut
    <3>1. PICK sel : dialog' = Synced([dialog EXCEPT !.sel = sel], results.rows, cache)
      BY <1>2, <2>2 DEF MoveIn, MoveOut, Edited, Parts
    <3> DEFINE e == [dialog EXCEPT !.sel = sel]
    <3>2. /\ DOMAIN e = Parts /\ e.kind = dialog.kind /\ e.field = dialog.field
          /\ e.answered = dialog.answered
      BY <1>2 DEF Parts
    <3> HIDE DEF e
    <3>3. QED
      <4>1. dialog' = Synced(e, results.rows, cache)
        BY <3>1 DEF e
      <4>2. QED
        BY <1>2, <3>2, <4>1, SyncedFacts
  <2>3. CASE Ok \/ Cancel
    BY <2>3 DEF Ok, Cancel
  <2>4. QED
    BY <2>1, <2>2, <2>3 DEF Edit
<1>5. FormOK'
  <2>1. form'.entry = form.entry /\ DOMAIN form'.vals = DOMAIN form.vals
    <3>1. CASE Edit \/ Cancel
      BY <3>1 DEF Edit, MirrorFocused, PickAt, MoveIn, MoveOut, Cancel, Edited
    <3>2. CASE Ok
      BY <1>1, <3>2 DEF Ok, FormOK
    <3>3. QED
      BY <3>1, <3>2
  <2>2. QED
    BY <1>1, <2>1 DEF FormOK
<1>6. Queued' /\ Searching' = Searching
  BY <1>1, <1>3 DEF Queued, Searching, queues
<1>7. DialogOK(dialog') /\ Own'
  <2>1. DialogOK(dialog')
    BY <1>2, <1>4 DEF DialogOK
  <2>2. Own'
    BY <1>1, <1>3, <1>4, <1>6, OwnKept DEF IsOpen
  <2>3. QED
    BY <2>1, <2>2
<1>8. QED
  BY <1>1, <1>3, <1>5, <1>6, <1>7, NothingSearched DEF PickInv

LEMMA AroundStep ==
  ASSUME PickInv, Render \/ (\E e \in Entries : RequestLeaf(e)) \/ Reload \/ UNCHANGED vars
  PROVE  PickInv'
<1>1. Queued /\ FormOK /\ Ids /\ Settling /\ DialogOK(dialog) /\ Own
  BY DEF PickInv
<1>2. UNCHANGED <<resps, search, form, dialog>>
  BY DEF Render, RequestLeaf, Reload, vars, queues
<1>3. Queued' /\ Searching' = Searching
  <2>1. CASE Render
    <3>1. Unresolved \subseteq Keys
      BY DEF Unresolved, Unnamed
    <3>2. QED
      BY <1>1, <1>2, <2>1, <3>1, NameJobsFacts, OtherSent DEF Render
  <2>2. ASSUME NEW e \in Entries, RequestLeaf(e) PROVE Queued' /\ Searching' = Searching
    <3> DEFINE j == [what |-> "entry", entry |-> e]
    <3>1. j \in Jobs /\ j.what # "search"
      BY DEF Jobs, EntryJobs
    <3>2. jobs' = Append(jobs, j)
      BY <2>2 DEF RequestLeaf
    <3> HIDE DEF j
    <3>3. jobs' = jobs \o <<j>>
      BY <1>1, <3>1, <3>2 DEF Queued
    <3>4. <<j>> \in Seq(Jobs) /\ \A k \in ToSet(<<j>>) : k.what # "search"
      BY <3>1, SingleSet
    <3>5. QED
      BY <1>1, <1>2, <3>3, <3>4, OtherSent
  <2>3. CASE jobs' = jobs
    BY <1>1, <1>2, <2>3 DEF Queued, Searching
  <2>4. QED
    BY <2>1, <2>2, <2>3 DEF Reload, vars, queues
<1>4. Own'
  BY <1>1, <1>2, <1>3, OwnKept DEF IsOpen
<1>5. QED
  BY <1>1, <1>2, <1>3, <1>4, NothingSearched DEF PickInv, FormOK

LEMMA WorkStep ==
  ASSUME PickInv, Work
  PROVE  PickInv'
<1>1. Queued /\ FormOK /\ Ids /\ Settling /\ DialogOK(dialog) /\ Own
  BY DEF PickInv
<1>2. UNCHANGED <<search, form, dialog>>
  BY DEF Work
<1> DEFINE j == Head(jobs)
<1>3. PICK ok \in BOOLEAN : resps' = resps \o <<[what |-> j.what, ok |-> ok, job |-> j]>>
  BY DEF Work, Served
<1> DEFINE r == [what |-> j.what, ok |-> ok, job |-> j]
<1>4. jobs' = Tail(jobs) /\ jobs # <<>>
  BY DEF Work
<1>5. /\ j \in Jobs /\ jobs' \in Seq(Jobs) /\ ToSet(jobs) = {j} \cup ToSet(jobs')
  BY <1>1, <1>4, HeadSet DEF Queued
<1> HIDE DEF j
<1>6. r \in Answers /\ r.what = j.what /\ r.job = j
  BY <1>5 DEF Answers, Jobs, SearchJobs, NameJobSet, EntryJobs
<1>7. resps' = resps \o <<r>>
  BY <1>3
<1> HIDE DEF r
<1>8. resps' \in Seq(Answers) /\ ToSet(resps') = ToSet(resps) \cup {r}
  <2>1. <<r>> \in Seq(Answers) /\ ToSet(<<r>>) = {r}
    BY <1>6, SingleSet
  <2>2. resps \in Seq(Answers)
    BY <1>1 DEF Queued
  <2>3. QED
    <3>1. resps \o <<r>> \in Seq(Answers) /\ ToSet(resps \o <<r>>) = ToSet(resps) \cup ToSet(<<r>>)
      BY <2>1, <2>2, ConcatSet
    <3>2. QED
      BY <1>7, <2>1, <3>1
<1>9. Queued'
  BY <1>1, <1>5, <1>6, <1>8 DEF Queued
<1>10. Searching' = Searching
  <2>1. Asked(ToSet(jobs)) = Asked({j}) \cup Asked(ToSet(jobs'))
    BY <1>5, AskedUnion
  <2>2. Answered(ToSet(resps')) = Answered(ToSet(resps)) \cup Answered({r})
    BY <1>8, AnsweredUnion
  <2>3. Answered({r}) = Asked({j})
    BY <1>6, OneAsked
  <2>4. QED
    BY <2>1, <2>2, <2>3 DEF Searching
<1>11. Own'
  BY <1>1, <1>2, <1>10, OwnKept DEF IsOpen
<1>12. QED
  BY <1>1, <1>2, <1>9, <1>10, <1>11, NothingSearched DEF PickInv, FormOK

LEMMA PumpStep ==
  ASSUME PickInv, Pump
  PROVE  PickInv'
<1>1. Queued /\ FormOK /\ Ids /\ Settling /\ DialogOK(dialog) /\ Own
  BY DEF PickInv
<1> DEFINE r == Head(resps)
<1>2. resps # <<>> /\ resps' = Tail(resps) /\ jobs' = jobs
  BY DEF Pump
<1>3. r \in Answers /\ resps' \in Seq(Answers) /\ ToSet(resps) = {r} \cup ToSet(resps')
  BY <1>1, <1>2, HeadSet DEF Queued
<1>4. PumpSearch(r) \/ PumpName(r) \/ PumpEntry(r)
  BY DEF Pump
<1> HIDE DEF r
<1>5. r.what = r.job.what
  BY <1>1, <1>3 DEF Queued
<1>6. Queued'
  BY <1>1, <1>2, <1>3 DEF Queued
<1>7. Searching = Searching' \cup Answered({r})
  <2>1. Answered(ToSet(resps)) = Answered({r}) \cup Answered(ToSet(resps'))
    BY <1>3, AnsweredUnion
  <2>2. QED
    BY <1>2, <2>1 DEF Searching
\* what a refresh keeps of the editor
<1>8. ASSUME NEW rows, NEW c, IsOpen
      PROVE  LET e == Refreshed(dialog, rows, c)
             IN  /\ DOMAIN e = Parts /\ e.kind = dialog.kind /\ e.field = dialog.field
                 /\ e.answered = dialog.answered
                 /\ dialog.kind \in Kinds /\ dialog.field \in Fields
  <2>1. DOMAIN dialog = Parts /\ dialog.kind \in Kinds /\ dialog.field \in Fields
    BY <1>1, <1>8 DEF DialogOK, IsOpen
  <2>2. Refreshed(dialog, rows, c) = Synced(dialog, rows, c)
    BY <1>8 DEF Refreshed, IsOpen
  <2>3. QED
    BY <2>1, <2>2, SyncedFacts
<1>9. CASE PumpSearch(r) /\ Accepts(r.job.ask)
  <2> DEFINE q == r.job.ask
             rows == IF r.ok THEN Found(q.field, q.term) ELSE <<>>
             d == Refreshed(dialog, rows, cache)
  <2>1. /\ results' = [rows |-> rows, ask |-> q]
        /\ dialog' = IF IsOpen THEN [d EXCEPT !.answered = TRUE] ELSE d
        /\ UNCHANGED <<lastId, latest, form>>
    BY <1>9 DEF PumpSearch
  <2>2. r.what = "search" /\ q.id = latest
    BY <1>9 DEF PumpSearch, Accepts
  <2>3. q \in Searching
    BY <1>7, <2>2, OneAsked
  <2>4. results'.ask = q
    BY <2>1
  <2>5. Ids' /\ Settling'
    BY <1>1, <1>7, <2>1, <2>2, <2>3, <2>4 DEF Ids, Settling
  <2>6. CASE IsOpen
    <3>1. /\ DOMAIN d = Parts /\ d.kind = dialog.kind /\ d.field = dialog.field
          /\ dialog.kind \in Kinds /\ dialog.field \in Fields
      BY <1>8, <2>6
    <3>2. dialog' = [d EXCEPT !.answered = TRUE]
      BY <2>1, <2>6
    <3> HIDE DEF d, q
    <3>3. DOMAIN dialog' = Parts /\ dialog'.kind = dialog.kind /\ dialog'.field = dialog.field
      BY <3>1, <3>2 DEF Parts
    <3>4. dialog.kind # "oc" => \A p \in Searching : p.id = latest => p.field = dialog.field
      BY <1>1, <2>6 DEF Own
    <3>5. Own'
      BY <1>7, <2>1, <2>2, <2>3, <2>4, <3>3, <3>4 DEF Own
    <3>6. QED
      BY <1>1, <1>6, <2>1, <2>5, <3>1, <3>3, <3>5 DEF PickInv, DialogOK, FormOK
  <2>7. CASE ~IsOpen
    <3>1. dialog' = NoDialog
      BY <2>1, <2>7 DEF Refreshed, IsOpen
    <3>2. QED
      BY <1>1, <1>6, <2>1, <2>5, <3>1 DEF PickInv, DialogOK, FormOK, Own, IsOpen
  <2>8. QED
    BY <2>6, <2>7
\* an answer that is no longer wanted, and a name or an entry: the search is as it was
<1>10. ASSUME UNCHANGED search, FormOK', r.what = "search" => r.job.ask.id # latest,
              dialog' = dialog \/ \E rows, c : dialog' = Refreshed(dialog, rows, c)
       PROVE  PickInv'
  <2>1. \A q \in Searching : q.id = latest => q \in Searching'
    BY <1>7, <1>10, OneAsked
  <2>2. Ids' /\ Settling'
    BY <1>1, <1>7, <1>10, <2>1 DEF Ids, Settling, search
  <2>3. IsOpen' => /\ IsOpen /\ DOMAIN dialog' = Parts /\ dialog'.kind = dialog.kind
                   /\ dialog'.field = dialog.field /\ dialog'.answered = dialog.answered
                   /\ dialog'.kind \in Kinds /\ dialog'.field \in Fields
    <3>1. CASE IsOpen
      BY <1>1, <1>8, <1>10, <3>1 DEF DialogOK, IsOpen
    <3>2. CASE ~IsOpen
      BY <1>10, <3>2 DEF Refreshed, IsOpen
    <3>3. QED
      BY <3>1, <3>2
  <2>4. DialogOK(dialog') /\ Own'
    BY <1>1, <1>7, <1>10, <2>3 DEF DialogOK, Own, IsOpen, search
  <2>5. QED
    BY <1>6, <1>10, <2>2, <2>4 DEF PickInv
<1>11. CASE PumpSearch(r) /\ ~Accepts(r.job.ask)
  <2>1. UNCHANGED <<search, dialog, form>> /\ r.job.ask.id # latest
    BY <1>11 DEF PumpSearch, Accepts, search
  <2>2. FormOK'
    BY <1>1, <2>1 DEF FormOK
  <2>3. QED
    BY <1>10, <2>1, <2>2
<1>12. CASE PumpName(r)
  <2>1. UNCHANGED <<search, form>> /\ dialog' = Refreshed(dialog, results.rows, cache')
        /\ r.what = "name"
    BY <1>12 DEF PumpName
  <2>2. FormOK'
    BY <1>1, <2>1 DEF FormOK
  <2>3. QED
    BY <1>10, <2>1, <2>2
<1>13. CASE PumpEntry(r)
  <2>1. UNCHANGED search /\ dialog' = Refreshed(dialog, results.rows, cache) /\ r.what = "entry"
        /\ form' = [entry |-> r.job.entry, vals |-> Stored[r.job.entry]]
    BY <1>13 DEF PumpEntry
  <2>2. r.job.entry \in Entries
    BY <1>3, <1>5, <2>1 DEF Answers, Jobs, SearchJobs, NameJobSet, EntryJobs
  <2>3. Stored[r.job.entry] \in [1..Len(FieldsOf[r.job.entry]) -> Seq(Keys)]
    BY <2>2, PickingAssumption
  <2>4. FormOK'
    BY <2>1, <2>2, <2>3 DEF FormOK
  <2>5. QED
    BY <1>10, <2>1, <2>4
<1>14. QED
  BY <1>4, <1>9, <1>11, <1>12, <1>13

(***************************************************************************)
(* PickInv is the inductive invariant.                                     *)
(***************************************************************************)
LEMMA PickInit ==
  ASSUME Init
  PROVE  PickInv
<1>1. Queued /\ Searching = {}
  BY EmptySet, NoneAsked DEF Init, Queued, Searching
<1>2. FormOK
  BY PickingAssumption DEF Init, FormOK
<1>3. Ids /\ Settling
  BY <1>1 DEF Init, Ids, Settling, NoRequest
<1>4. DialogOK(dialog) /\ Own
  BY DEF Init, DialogOK, Own, IsOpen
<1>5. QED
  BY <1>1, <1>2, <1>3, <1>4 DEF PickInv

LEMMA PickCorrect == Spec => []PickInv
<1>1. PickInv /\ [Next]_vars => PickInv'
  BY ActivateStep, TypeStep, EditStep, AroundStep, WorkStep, PumpStep DEF Next
<1>2. QED
  BY <1>1, PickInit, PTL DEF Spec

(***************************************************************************)
(* OwnAnswers: an editor that has heard from the server shows what was     *)
(* found for its own field; no answer to the editor closed before it, and  *)
(* no failure, ever shows here.                                            *)
(***************************************************************************)
THEOREM AnswersAreTheEditorsOwn == Spec => []OwnAnswers
<1>1. PickInv => OwnAnswers
  BY DEF PickInv, Own, OwnAnswers
<1>2. QED
  BY <1>1, PickCorrect, PTL

(***************************************************************************)
(* SettledOnLastText: when nothing is on its way for the last text typed,  *)
(* the rows are that text's.                                               *)
(***************************************************************************)
THEOREM LastTextWins == Spec => []SettledOnLastText
<1>1. PickInv => SettledOnLastText
  <2> SUFFICES ASSUME PickInv, NEW q \in Searching, q.id = latest
               PROVE  \/ \E i \in DOMAIN jobs : jobs[i].what = "search" /\ jobs[i].ask.id = latest
                      \/ \E i \in DOMAIN resps :
                           resps[i].what = "search" /\ resps[i].job.ask.id = latest
    BY DEF PickInv, Settling, SettledOnLastText
  <2>1. CASE q \in Asked(ToSet(jobs))
    BY <2>1 DEF Asked, ToSet
  <2>2. CASE q \in Answered(ToSet(resps))
    BY <2>2 DEF Answered, ToSet
  <2>3. QED
    BY <2>1, <2>2 DEF Searching
<1>2. QED
  BY <1>1, PickCorrect, PTL
-----------------------------------------------------------------------------
(***************************************************************************)
(* NothingTwice.  The editors take candidates and values as they come, so  *)
(* it needs them to differ to begin with: two entries a binding finds are  *)
(* not stored as the same value, and a stored attribute is a set.          *)
(***************************************************************************)
ValuesDiffer ==
  /\ \A f \in Fields : IsInjective(Scope[f])
  /\ \A e \in Entries : \A i \in 1..Len(FieldsOf[e]) : IsInjective(Stored[e][i])

\* a row of the column of chosen values
Chosen == [key : Keys, label : Keys \cup {Label[k] : k \in Keys}]

Once(ks) == ks \in Seq(Keys) /\ IsInjective(ks)

ChosenOnce(sel) == sel \in Seq(Chosen) /\ Once(RowKeys(sel))

\* A value is in one column of an editor, and in it once.
Columns(d) ==
  d # NoDialog =>
    /\ ChosenOnce(d.sel) /\ Once(d.avail) /\ Once(d.saved)
    /\ d.kind \in {"multi", "oc"} => ToSet(RowKeys(d.sel)) \cap ToSet(d.avail) = {}

Committable(c) == c = NoCommit \/ Once(c.vals)

\* Whatever the columns are made from has nothing twice: the rows of a search,
\* the values of the form, whoever wrote them, and what OK would commit.
OnceInv ==
  /\ Once(results.rows)
  /\ "vals" \in DOMAIN form /\ \A i \in DOMAIN form.vals : Once(form.vals[i])
  /\ Columns(dialog)
  /\ Committable(staged)

LEMMA NoneOnce == Once(<<>>)
  BY DEF Once, IsInjective

LEMMA SingleOnce ==
  ASSUME NEW k \in Keys
  PROVE  Once(<<k>>)
<1>1. <<k>> \in Seq(Keys) /\ DOMAIN <<k>> = {1}
  OBVIOUS
<1>2. QED
  BY <1>1 DEF Once, IsInjective

LEMMA KeptOnce ==
  ASSUME NEW ks, Once(ks), NEW S
  PROVE  Once(Kept(ks, S)) /\ ToSet(Kept(ks, S)) = ToSet(ks) \cap S
<1>1. /\ Kept(ks, S) \in Seq(Keys \cap S) /\ ToSet(Kept(ks, S)) = ToSet(ks) \cap S
      /\ IsInjective(Kept(ks, S))
  BY KeptFacts DEF Once
<1>2. Kept(ks, S) \in Seq(Keys)
  BY <1>1
<1>3. QED
  BY <1>1, <1>2 DEF Once

LEMMA ScopeOnce ==
  ASSUME ValuesDiffer, NEW f \in Fields
  PROVE  Once(Scope[f])
  BY PickingAssumption DEF ValuesDiffer, Once

LEMMA StoredOnce ==
  ASSUME ValuesDiffer, NEW e \in Entries
  PROVE  \A i \in DOMAIN Stored[e] : Once(Stored[e][i])
<1>1. Stored[e] \in [1..Len(FieldsOf[e]) -> Seq(Keys)]
  BY PickingAssumption
<1>2. QED
  BY <1>1 DEF ValuesDiffer, Once

LEMMA FoundOnce ==
  ASSUME ValuesDiffer, NEW f \in Fields, NEW t
  PROVE  Once(Found(f, t))
<1> DEFINE hits == Kept(Scope[f], Matches[t])
           n    == IF Len(hits) < Cap THEN Len(hits) ELSE Cap
<1>1. Once(hits)
  BY ScopeOnce, KeptOnce
<1>2. Cap \in Nat
  BY PickingAssumption
<1>3. Found(f, t) = SubSeq(hits, 1, n)
  BY DEF Found
<1> HIDE DEF hits
<1>4. n \in 0..Len(hits)
  BY <1>1, <1>2 DEF Once
<1> HIDE DEF n
<1>5. QED
  BY <1>1, <1>3, <1>4, PrefixOnce DEF Once

\* The keys of rows made from values, relabelled, added to or taken from.
LEMMA RowsChosen ==
  ASSUME NEW ks, Once(ks)
  PROVE  ChosenOnce(Rows(ks)) /\ RowKeys(Rows(ks)) = ks
<1>1. ks \in Seq(Keys) /\ DOMAIN ks = 1..Len(ks) /\ Len(ks) \in Nat
  BY DEF Once
<1>2. DOMAIN Rows(ks) = 1..Len(ks) /\ \A i \in 1..Len(ks) :
        Rows(ks)[i] \in Chosen /\ Rows(ks)[i].key = ks[i]
  BY <1>1 DEF Rows, Chosen
<1>3. Rows(ks) \in Seq(Chosen)
  BY <1>1, <1>2 DEF Rows
<1>4. RowKeys(Rows(ks)) = ks
  BY <1>1, <1>2 DEF RowKeys
<1>5. QED
  BY <1>3, <1>4 DEF ChosenOnce

LEMMA NamedChosen ==
  ASSUME NEW sel, ChosenOnce(sel), NEW rows, NEW c
  PROVE  ChosenOnce(Named(sel, rows, c)) /\ RowKeys(Named(sel, rows, c)) = RowKeys(sel)
<1> DEFINE u == Named(sel, rows, c)
           n == Len(sel)
<1>1. sel \in Seq(Chosen) /\ DOMAIN sel = 1..n /\ n \in Nat /\ \A i \in 1..n : sel[i] \in Chosen
  BY DEF ChosenOnce
<1>2. \A i \in 1..n : [sel[i] EXCEPT !.label = Label[sel[i].key]] \in Chosen
                   /\ [sel[i] EXCEPT !.label = Label[sel[i].key]].key = sel[i].key
  BY <1>1 DEF Chosen
<1>3. DOMAIN u = 1..n /\ \A i \in 1..n : u[i] \in Chosen /\ u[i].key = sel[i].key
  BY <1>1, <1>2 DEF Named
<1>4. u = [i \in 1..n |-> u[i]]
  BY <1>1 DEF Named
<1> HIDE DEF u
<1>5. u \in Seq(Chosen)
  BY <1>1, <1>3, <1>4
<1>6. RowKeys(u) = RowKeys(sel)
  BY <1>1, <1>3 DEF RowKeys
<1>7. QED
  BY <1>5, <1>6 DEF ChosenOnce, u

LEMMA MovedIn ==
  ASSUME NEW sel, ChosenOnce(sel), NEW k \in Keys, k \notin ToSet(RowKeys(sel))
  PROVE  ChosenOnce(Append(sel, [key |-> k, label |-> Label[k]]))
<1> DEFINE r == [key |-> k, label |-> Label[k]]
           n == Len(sel)
<1>1. r \in Chosen /\ r.key = k
  BY DEF Chosen
<1>2. sel \in Seq(Chosen) /\ n \in Nat /\ DOMAIN sel = 1..n /\ Once(RowKeys(sel))
      /\ DOMAIN RowKeys(sel) = 1..n /\ \A i \in 1..n : RowKeys(sel)[i] = sel[i].key
  BY DEF ChosenOnce, RowKeys
<1> DEFINE t == Append(sel, r)
<1> HIDE DEF r
<1>3. t \in Seq(Chosen) /\ DOMAIN t = 1..(n + 1) /\ t[n + 1] = r
      /\ \A i \in 1..n : t[i] = sel[i]
  BY <1>1, <1>2
<1>4. RowKeys(sel) \in Seq(Keys) /\ Len(RowKeys(sel)) = n /\ IsInjective(RowKeys(sel))
  BY <1>2 DEF Once
<1> DEFINE ks == Append(RowKeys(sel), k)
<1>5. ks \in Seq(Keys) /\ DOMAIN ks = 1..(n + 1) /\ ks[n + 1] = k
      /\ \A i \in 1..n : ks[i] = RowKeys(sel)[i]
  BY <1>4
<1>6. IsInjective(ks)
  BY <1>4, AppendOnce
<1> HIDE DEF t, ks, n
<1>7. \A i \in 1..(n + 1) : t[i].key = ks[i]
  <2>1. \A i \in 1..(n + 1) : i = n + 1 \/ i \in 1..n
    BY <1>2
  <2>2. QED
    BY <1>1, <1>2, <1>3, <1>5, <2>1
<1>8. RowKeys(t) = [i \in 1..(n + 1) |-> ks[i]]
  BY <1>3, <1>7 DEF RowKeys
<1>9. ks = [i \in 1..(n + 1) |-> ks[i]]
  BY <1>5
<1>10. QED
  BY <1>3, <1>5, <1>6, <1>8, <1>9 DEF ChosenOnce, Once, t, r

LEMMA MovedOut ==
  ASSUME NEW sel, ChosenOnce(sel), NEW j \in DOMAIN sel
  PROVE  ChosenOnce(RemoveAt(sel, j))
<1> DEFINE t == RemoveAt(sel, j)
           n == Len(sel)
<1>1. /\ sel \in Seq(Chosen) /\ n \in Nat /\ DOMAIN sel = 1..n /\ j \in 1..n
      /\ DOMAIN RowKeys(sel) = 1..n /\ \A i \in 1..n : RowKeys(sel)[i] = sel[i].key
      /\ IsInjective(RowKeys(sel))
  BY DEF ChosenOnce, RowKeys, Once
<1>2. /\ t \in Seq(Chosen) /\ DOMAIN t = 1..(n - 1)
      /\ \A i \in 1..(n - 1) : t[i] = IF i < j THEN sel[i] ELSE sel[i + 1]
  BY <1>1, RemoveAtFacts
<1> HIDE DEF t, n
<1>3. \A i \in 1..n, l \in 1..n : sel[i].key = sel[l].key => i = l
  BY <1>1 DEF IsInjective
<1> DEFINE at(i) == IF i < j THEN i ELSE i + 1
<1>4. \A i \in 1..(n - 1) : at(i) \in 1..n /\ t[i] = sel[at(i)]
  BY <1>1, <1>2
<1>5. \A i \in 1..(n - 1), l \in 1..(n - 1) : at(i) = at(l) => i = l
  BY <1>1
<1> HIDE DEF at
<1>6. \A i \in 1..(n - 1), l \in 1..(n - 1) : t[i].key = t[l].key => i = l
  BY <1>3, <1>4, <1>5
<1>7. DOMAIN RowKeys(t) = 1..(n - 1) /\ \A i \in 1..(n - 1) : RowKeys(t)[i] = t[i].key
  BY <1>2 DEF RowKeys
<1>8. IsInjective(RowKeys(t))
  BY <1>6, <1>7 DEF IsInjective
<1>9. RowKeys(t) \in Seq(Keys)
  <2>0. \A i \in DOMAIN t : t[i] \in Chosen
    <3>1. t \in Seq(Chosen)
      BY <1>2
    <3>2. QED
      BY <3>1
  <2>1. \A i \in 1..(n - 1) : t[i].key \in Keys
    BY <1>2, <2>0 DEF Chosen
  <2>2. RowKeys(t) = [i \in 1..(n - 1) |-> t[i].key]
    BY <1>2 DEF RowKeys
  <2>3. n - 1 \in Nat
    BY <1>1
  <2>4. QED
    BY <2>1, <2>2, <2>3
<1>10. QED
  BY <1>2, <1>8, <1>9 DEF ChosenOnce, Once, t

\* A row is found again by what it shows, or one before it that shows the same.
LEMMA FirstLabel ==
  ASSUME NEW n \in Nat, NEW labels, DOMAIN labels = 1..n, NEW i \in 1..n
  PROVE  ByLabel(labels, i) \in DOMAIN labels
<1> DEFINE at == {l \in 1..n : labels[l] = labels[i]}
           j  == Nth(at, 1)
<1>1. at \in SUBSET (1..n) /\ i \in at
  OBVIOUS
<1>2. \A l : l \in at <=> l \in 1..n /\ labels[l] = labels[i]
  OBVIOUS
<1> HIDE DEF at
<1>3. /\ Cardinality(at) \in Nat
      /\ \A k \in 1..Cardinality(at) : Nth(at, k) \in at /\ Before(at, Nth(at, k)) = k
      /\ \A l \in at : Before(at, l) \in 1..Cardinality(at)
      /\ \A k \in at, l \in at : k < l => Before(at, k) < Before(at, l)
  BY <1>1, NthFacts
<1>4. 1 \in 1..Cardinality(at)
  BY <1>1, <1>3
<1>5. j \in at /\ Before(at, j) = 1
  BY <1>3, <1>4
<1> HIDE DEF j
<1>6. ASSUME NEW l \in 1..(j - 1), labels[l] = labels[i] PROVE FALSE
  <2>1. j \in 1..n
    BY <1>2, <1>5
  <2>2. l \in 1..n /\ l < j
    BY <1>6, <2>1
  <2>3. l \in at
    BY <1>2, <1>6, <2>2
  <2>4. Before(at, l) < 1 /\ Before(at, l) \in 1..Cardinality(at)
    BY <1>3, <1>5, <2>2, <2>3
  <2>5. QED
    BY <1>3, <2>4
<1>7. j \in DOMAIN labels /\ labels[j] = labels[i]
  BY <1>2, <1>5
<1>8. \A l \in 1..(j - 1) : labels[l] # labels[i]
  BY <1>6
<1>9. QED
  BY <1>7, <1>8 DEF ByLabel

(***************************************************************************)
(* The editor after REFRESH, after ACTIVATE, and what it commits.          *)
(***************************************************************************)
LEMMA SyncedColumns ==
  ASSUME ValuesDiffer, NEW d, DOMAIN d = Parts, d.kind \in Kinds, d.field \in Fields,
         ChosenOnce(d.sel), Once(d.saved), NEW rows, Once(rows), NEW c
  PROVE  LET e == Synced(d, rows, c)
         IN  /\ Columns(e) /\ ChosenOnce(e.sel)
             /\ e.text = d.text /\ e.kind = d.kind /\ e.field = d.field
<1> DEFINE e == Synced(d, rows, c)
           S == Keys \ ToSet(RowKeys(d.sel))
<1>1. CASE d.kind \in {"lookup", "picker"}
  <2>1. e = [d EXCEPT !.avail = rows]
    BY <1>1 DEF Synced
  <2>2. /\ e.avail = rows /\ e.sel = d.sel /\ e.text = d.text /\ e.kind = d.kind
        /\ e.field = d.field /\ e.saved = d.saved
    BY <2>1 DEF Parts
  <2> HIDE DEF e
  <2>3. QED
    BY <1>1, <2>2 DEF Columns, e
<1>2. CASE d.kind = "multi"
  <2> DEFINE named == Named(d.sel, rows, c)
  <2>1. e = [d EXCEPT !.avail = Kept(rows, S), !.sel = named]
    BY <1>2 DEF Synced, Without
  <2>2. ChosenOnce(named) /\ RowKeys(named) = RowKeys(d.sel)
    BY NamedChosen
  <2>3. Once(Kept(rows, S)) /\ ToSet(Kept(rows, S)) = ToSet(rows) \cap S
    BY KeptOnce
  <2> HIDE DEF named
  <2>4. e.avail = Kept(rows, S) /\ e.sel = named /\ e.text = d.text /\ e.kind = d.kind
        /\ e.field = d.field /\ e.saved = d.saved
    BY <2>1 DEF Parts
  <2> HIDE DEF e
  <2>5. ToSet(RowKeys(e.sel)) \cap ToSet(e.avail) = {}
    BY <2>2, <2>3, <2>4
  <2>6. QED
    BY <2>2, <2>3, <2>4, <2>5 DEF Columns, e
<1>3. CASE d.kind = "oc"
  <2> DEFINE all == Scope[d.field]
  <2>1. e = [d EXCEPT !.avail = Kept(all, S)]
    BY <1>3 DEF Synced, Without
  <2>2. Once(all)
    BY ScopeOnce
  <2>3. Once(Kept(all, S)) /\ ToSet(Kept(all, S)) = ToSet(all) \cap S
    BY <2>2, KeptOnce
  <2>4. e.avail = Kept(all, S) /\ e.sel = d.sel /\ e.text = d.text /\ e.kind = d.kind
        /\ e.field = d.field /\ e.saved = d.saved
    BY <2>1 DEF Parts
  <2> HIDE DEF e
  <2>5. ToSet(RowKeys(e.sel)) \cap ToSet(e.avail) = {}
    BY <2>3, <2>4
  <2>6. QED
    BY <2>3, <2>4, <2>5 DEF Columns, e
<1>4. QED
  BY <1>1, <1>2, <1>3 DEF Kinds

LEMMA StagingOnce ==
  ASSUME ValuesDiffer, NEW d, d.kind \in Kinds, d.field \in Fields, ChosenOnce(d.sel)
  PROVE  Committable(Staging(d))
<1>1. CASE d.kind = "lookup"
  <2>1. CASE d.text \in Numbers
    <3>1. Once(<<d.text>>)
      BY <2>1, PickingAssumption, SingleOnce
    <3>2. Staging(d) = Commit(<<d.text>>)
      BY <1>1, <2>1 DEF Staging
    <3>3. QED
      BY <3>1, <3>2 DEF Commit, Committable
  <2>2. CASE d.text \notin Numbers
    BY <1>1, <2>2 DEF Staging, Committable
  <2>3. QED
    BY <2>1, <2>2
<1>2. CASE d.kind = "oc"
  <2> DEFINE ks == Kept(Scope[d.field], ToSet(RowKeys(d.sel)))
  <2>1. Once(ks)
    BY ScopeOnce, KeptOnce
  <2>2. Staging(d) = Commit(ks)
    BY <1>2 DEF Staging
  <2> HIDE DEF ks
  <2>3. QED
    BY <2>1, <2>2 DEF Commit, Committable
<1>3. CASE d.kind \notin {"lookup", "oc"}
  <2>1. Staging(d) = Commit(RowKeys(d.sel))
    BY <1>3 DEF Staging
  <2>2. QED
    BY <2>1 DEF Commit, Committable, ChosenOnce
<1>4. QED
  BY <1>1, <1>2, <1>3

LEMMA VisibleKeys ==
  ASSUME NEW d, ChosenOnce(d.sel), Once(d.avail), Once(d.saved)
  PROVE  ToSet(Visible(d)) \subseteq Keys
<1> DEFINE ks == RowKeys(d.sel)
           A  == Kept(ks, Keys \ ToSet(d.avail))
           B  == Kept(d.avail, Keys \ ToSet(ks))
           C  == Kept(d.saved, Keys \ (ToSet(ks) \cup ToSet(d.avail)))
<1>1. Once(ks) /\ Once(d.avail)
  BY DEF ChosenOnce
<1>2. Once(A) /\ Once(B) /\ Once(C)
  BY <1>1, KeptOnce
<1>3. Visible(d) = (IF d.text # Empty THEN d.avail \o A ELSE ks \o B) \o C
  BY DEF Visible, Without
<1> HIDE DEF A, B, C, ks
<1>4. Visible(d) \in Seq(Keys)
  BY <1>1, <1>2, <1>3 DEF Once
<1>5. QED
  BY <1>4 DEF ToSet

\* What a step does to the editor, in the three ways there are.
LEMMA OpenedOnce ==
  ASSUME ValuesDiffer, PickInv, OnceInv, NEW i \in DOMAIN form.vals, Activate(i)
  PROVE  OnceInv'
<1> DEFINE f   == FieldAt(i)
           ks  == form.vals[i]
           sel == IF Kind[f] = "oc" THEN Kept(Scope[f], ToSet(ks)) ELSE ks
           e   == [at |-> i, entry |-> form.entry, field |-> f, kind |-> Kind[f],
                   text |-> IF Kind[f] = "lookup" /\ ks # <<>> THEN ks[1] ELSE Empty,
                   avail |-> <<>>, sel |-> Rows(sel), saved |-> ks, answered |-> FALSE]
           d   == Synced(e, results.rows, cache)
<1>1. f \in Fields /\ Kind[f] \in Kinds
  <2>1. form.entry \in Entries /\ i \in 1..Len(FieldsOf[form.entry])
    BY DEF PickInv, FormOK
  <2>2. FieldsOf[form.entry] \in Seq(Fields)
    BY <2>1, PickingAssumption
  <2>3. QED
    BY <2>1, <2>2, PickingAssumption DEF FieldAt
<1>2. dialog' = d /\ staged' = Staging(d) /\ UNCHANGED <<form, results>>
  <2>1. d = Seeded(i)
    BY DEF Seeded
  <2>2. UNCHANGED results
    BY DEF Activate, Ask, search
  <2>3. QED
    BY <2>1, <2>2 DEF Activate
<1>3. Once(ks) /\ Once(results.rows)
  BY DEF OnceInv
<1> HIDE DEF f
<1>4. Once(sel)
  BY <1>1, <1>3, ScopeOnce, KeptOnce
<1>5. /\ DOMAIN e = Parts /\ e.kind = Kind[f] /\ e.field = f /\ e.sel = Rows(sel)
      /\ e.saved = ks
  BY DEF Parts
<1> HIDE DEF e, sel, ks
<1>6. ChosenOnce(e.sel)
  BY <1>4, <1>5, RowsChosen
<1>7. Columns(d) /\ ChosenOnce(d.sel) /\ d.kind = Kind[f] /\ d.field = f
  BY <1>1, <1>3, <1>5, <1>6, SyncedColumns
<1> HIDE DEF d
<1>8. Committable(Staging(d))
  BY <1>1, <1>7, StagingOnce
<1>9. QED
  BY <1>2, <1>7, <1>8 DEF OnceInv

LEMMA MovedOnce ==
  ASSUME ValuesDiffer, PickInv, OnceInv, IsOpen,
         NEW e, DOMAIN e = Parts, e.kind = dialog.kind, e.field = dialog.field,
         e.saved = dialog.saved, ChosenOnce(e.sel),
         Edited(Synced(e, results.rows, cache))
  PROVE  OnceInv'
<1> DEFINE d == Synced(e, results.rows, cache)
<1>1. dialog' = d /\ staged' = Staging(d) /\ UNCHANGED <<form, results>>
  BY DEF Edited, search
<1>2. dialog.kind \in Kinds /\ dialog.field \in Fields
  BY DEF PickInv, DialogOK, IsOpen
<1>3. Once(results.rows) /\ Once(e.saved)
  BY DEF OnceInv, Columns, IsOpen
<1>4. Columns(d) /\ ChosenOnce(d.sel) /\ d.kind \in Kinds /\ d.field \in Fields
  BY <1>2, <1>3, SyncedColumns
<1> HIDE DEF d
<1>5. Committable(Staging(d))
  BY <1>4, StagingOnce
<1>6. QED
  BY <1>1, <1>4, <1>5 DEF OnceInv

LEMMA EditOnce ==
  ASSUME ValuesDiffer, PickInv, OnceInv, Edit
  PROVE  OnceInv'
<1>1. IsOpen
  BY DEF Edit, MirrorFocused, PickAt, MoveIn, MoveOut
<1>2. /\ DOMAIN dialog = Parts /\ dialog.kind \in Kinds /\ dialog.field \in Fields
      /\ ChosenOnce(dialog.sel) /\ Once(dialog.avail) /\ Once(dialog.saved)
      /\ Once(results.rows)
  BY <1>1 DEF PickInv, DialogOK, IsOpen, OnceInv, Columns
<1>3. CASE MirrorFocused
  <2>1. PICK k \in Keys : Edited([dialog EXCEPT !.text = k])
    BY <1>3, PickingAssumption DEF MirrorFocused
  <2> DEFINE d == [dialog EXCEPT !.text = k]
  <2>2. /\ d.kind = dialog.kind /\ d.field = dialog.field /\ d.sel = dialog.sel
        /\ d.avail = dialog.avail /\ d.saved = dialog.saved
    BY <1>2 DEF Parts
  <2>3. dialog' = d /\ staged' = Staging(d) /\ UNCHANGED <<form, results>>
    BY <2>1 DEF Edited, search
  <2> HIDE DEF d
  <2>4. Committable(Staging(d))
    BY <1>2, <2>2, StagingOnce
  <2>5. Columns(d)
    BY <1>1, <2>2 DEF Columns, OnceInv, IsOpen
  <2>6. QED
    BY <2>3, <2>4, <2>5 DEF OnceInv
<1>4. CASE PickAt
  <2>1. dialog.kind = "picker"
    BY <1>4 DEF PickAt
  <2>2. PICK k \in ToSet(Visible(dialog)) : Edited([dialog EXCEPT !.sel = Rows(<<k>>)])
    BY <1>4 DEF PickAt
  <2>3. k \in Keys
    BY <1>2, VisibleKeys
  <2> DEFINE d == [dialog EXCEPT !.sel = Rows(<<k>>)]
  <2>4. /\ d.kind = dialog.kind /\ d.field = dialog.field /\ d.sel = Rows(<<k>>)
        /\ d.avail = dialog.avail /\ d.saved = dialog.saved
    BY <1>2 DEF Parts
  <2>5. dialog' = d /\ staged' = Staging(d) /\ UNCHANGED <<form, results>>
    BY <2>2 DEF Edited, search
  <2> HIDE DEF d
  <2>6. ChosenOnce(d.sel)
    BY <2>3, <2>4, SingleOnce, RowsChosen
  <2>7. Committable(Staging(d))
    BY <1>2, <2>4, <2>6, StagingOnce
  <2>8. Columns(d)
    BY <1>2, <2>1, <2>4, <2>6 DEF Columns
  <2>9. QED
    BY <2>5, <2>7, <2>8 DEF OnceInv
<1>5. CASE MoveIn
  <2> DEFINE shown == [j \in DOMAIN dialog.avail |-> Label[dialog.avail[j]]]
  <2>1. PICK i \in DOMAIN dialog.avail :
          LET k == dialog.avail[ByLabel(shown, i)]
          IN  /\ k \notin ToSet(RowKeys(dialog.sel))
              /\ Edited(Synced([dialog EXCEPT !.sel = Append(@, [key |-> k, label |-> Label[k]])],
                               results.rows, cache))
    BY <1>5 DEF MoveIn
  <2> DEFINE k == dialog.avail[ByLabel(shown, i)]
             sel == Append(dialog.sel, [key |-> k, label |-> Label[k]])
             e == [dialog EXCEPT !.sel = sel]
  <2>2. /\ k \notin ToSet(RowKeys(dialog.sel))
        /\ Edited(Synced(e, results.rows, cache))
    BY <2>1
  <2>3. k \in Keys
    <3>1. dialog.avail \in Seq(Keys)
      BY <1>2 DEF Once
    <3>2. Len(dialog.avail) \in Nat /\ DOMAIN dialog.avail = 1..Len(dialog.avail)
      BY <3>1
    <3>3. DOMAIN shown = 1..Len(dialog.avail)
      BY <3>2
    <3> HIDE DEF shown
    <3>4. ByLabel(shown, i) \in 1..Len(dialog.avail)
      BY <3>2, <3>3, FirstLabel
    <3>5. QED
      BY <3>1, <3>2, <3>4
  <2> HIDE DEF k
  <2>4. ChosenOnce(sel)
    BY <1>2, <2>2, <2>3, MovedIn
  <2> HIDE DEF sel
  <2>5. /\ DOMAIN e = Parts /\ e.kind = dialog.kind /\ e.field = dialog.field /\ e.sel = sel
        /\ e.saved = dialog.saved
    BY <1>2 DEF Parts
  <2> HIDE DEF e
  <2>6. QED
    BY <1>1, <2>2, <2>4, <2>5, MovedOnce
<1>6. CASE MoveOut
  <2> DEFINE shown == [j \in DOMAIN dialog.sel |-> dialog.sel[j].label]
  <2>1. PICK i \in DOMAIN dialog.sel :
          Edited(Synced([dialog EXCEPT !.sel = RemoveAt(@, ByLabel(shown, i))],
                        results.rows, cache))
    BY <1>6 DEF MoveOut
  <2> DEFINE j == ByLabel(shown, i)
             sel == RemoveAt(dialog.sel, j)
             e == [dialog EXCEPT !.sel = sel]
  <2>2. Edited(Synced(e, results.rows, cache))
    BY <2>1
  <2>3. j \in DOMAIN dialog.sel
    <3>1. dialog.sel \in Seq(Chosen)
      BY <1>2 DEF ChosenOnce
    <3>2. Len(dialog.sel) \in Nat /\ DOMAIN dialog.sel = 1..Len(dialog.sel)
      BY <3>1
    <3>3. DOMAIN shown = 1..Len(dialog.sel)
      BY <3>2
    <3> HIDE DEF shown
    <3>4. QED
      BY <3>2, <3>3, FirstLabel
  <2> HIDE DEF j
  <2>4. ChosenOnce(sel)
    BY <1>2, <2>3, MovedOut
  <2> HIDE DEF sel
  <2>5. /\ DOMAIN e = Parts /\ e.kind = dialog.kind /\ e.field = dialog.field /\ e.sel = sel
        /\ e.saved = dialog.saved
    BY <1>2 DEF Parts
  <2> HIDE DEF e
  <2>6. QED
    BY <1>1, <2>2, <2>4, <2>5, MovedOnce
<1>7. QED
  BY <1>3, <1>4, <1>5, <1>6 DEF Edit

LEMMA PumpOnce ==
  ASSUME ValuesDiffer, PickInv, OnceInv, Pump
  PROVE  OnceInv'
<1>1. Queued /\ Once(results.rows) /\ Columns(dialog) /\ Committable(staged)
      /\ "vals" \in DOMAIN form /\ \A i \in DOMAIN form.vals : Once(form.vals[i])
  BY DEF PickInv, OnceInv
<1> DEFINE r == Head(resps)
<1>2. PumpSearch(r) \/ PumpName(r) \/ PumpEntry(r)
  BY DEF Pump
<1>3. r \in Answers /\ r.what = r.job.what
  <2>1. resps # <<>>
    BY DEF Pump
  <2>2. r \in Answers /\ r \in ToSet(resps)
    BY <1>1, <2>1, HeadSet DEF Queued
  <2>3. QED
    BY <1>1, <2>2 DEF Queued
<1> HIDE DEF r
<1>4. ASSUME NEW rows, Once(rows), NEW c
      PROVE  Columns(Refreshed(dialog, rows, c))
  <2>1. CASE ~IsOpen
    BY <2>1 DEF Refreshed, Columns, IsOpen
  <2>2. CASE IsOpen
    <3>1. /\ DOMAIN dialog = Parts /\ dialog.kind \in Kinds /\ dialog.field \in Fields
          /\ ChosenOnce(dialog.sel) /\ Once(dialog.saved)
      BY <1>1, <2>2 DEF PickInv, DialogOK, Columns, IsOpen
    <3>2. Columns(Synced(dialog, rows, c))
      BY <1>4, <3>1, SyncedColumns
    <3>3. QED
      BY <2>2, <3>2 DEF Refreshed, IsOpen
  <2>3. QED
    BY <2>1, <2>2
<1>5. CASE PumpSearch(r) /\ Accepts(r.job.ask)
  <2> DEFINE q == r.job.ask
             rows == IF r.ok THEN Found(q.field, q.term) ELSE <<>>
             d == Refreshed(dialog, rows, cache)
  <2>1. /\ results'.rows = rows /\ UNCHANGED <<form, staged>>
        /\ dialog' = IF IsOpen THEN [d EXCEPT !.answered = TRUE] ELSE d
    BY <1>5 DEF PumpSearch
  <2>2. q.field \in Fields
    <3>1. r.job \in SearchJobs
      BY <1>3, <1>5 DEF PumpSearch, Answers, Jobs, SearchJobs, NameJobSet, EntryJobs
    <3>2. QED
      BY <3>1 DEF SearchJobs, Request
  <2> HIDE DEF q
  <2>3. Once(rows)
    BY <2>2, FoundOnce, NoneOnce
  <2> HIDE DEF rows
  <2>4. Columns(d)
    BY <1>4, <2>3
  <2>5. Columns(dialog')
    <3>1. CASE IsOpen
      <4>1. DOMAIN d = Parts /\ d.kind = dialog.kind
        <5>1. DOMAIN dialog = Parts /\ dialog.kind \in Kinds /\ dialog.field \in Fields
          BY <3>1 DEF PickInv, DialogOK, IsOpen
        <5>2. d = Synced(dialog, rows, cache)
          BY <3>1 DEF Refreshed, IsOpen
        <5>3. QED
          BY <5>1, <5>2, SyncedFacts
      <4>2. d # NoDialog
        BY <4>1 DEF NoDialog, Parts
      <4>3. dialog' = [d EXCEPT !.answered = TRUE]
        BY <2>1, <3>1
      <4> HIDE DEF d
      <4>4. /\ dialog'.sel = d.sel /\ dialog'.avail = d.avail /\ dialog'.saved = d.saved
            /\ dialog'.kind = d.kind
        BY <4>1, <4>3 DEF Parts
      <4>5. QED
        BY <2>4, <4>2, <4>4 DEF Columns
    <3>2. CASE ~IsOpen
      BY <2>1, <2>4, <3>2
    <3>3. QED
      BY <3>1, <3>2
  <2>6. QED
    BY <1>1, <2>1, <2>3, <2>5 DEF OnceInv
<1>6. CASE PumpSearch(r) /\ ~Accepts(r.job.ask)
  <2>1. UNCHANGED <<results, dialog, form, staged>>
    BY <1>6 DEF PumpSearch
  <2>2. QED
    BY <1>1, <2>1 DEF OnceInv
<1>7. CASE PumpName(r)
  <2>1. UNCHANGED <<results, form, staged>> /\ dialog' = Refreshed(dialog, results.rows, cache')
    BY <1>7 DEF PumpName, search
  <2>2. Columns(dialog')
    BY <1>1, <1>4, <2>1
  <2>3. QED
    BY <1>1, <2>1, <2>2 DEF OnceInv
<1>8. CASE PumpEntry(r)
  <2>1. UNCHANGED <<results, staged>> /\ dialog' = Refreshed(dialog, results.rows, cache)
        /\ r.what = "entry"
        /\ form' = [entry |-> r.job.entry, vals |-> Stored[r.job.entry]]
    BY <1>8 DEF PumpEntry, search
  <2>2. r.job.entry \in Entries
    BY <1>3, <2>1 DEF Answers, Jobs, SearchJobs, NameJobSet, EntryJobs
  <2>3. "vals" \in DOMAIN form' /\ \A i \in DOMAIN form'.vals : Once(form'.vals[i])
    BY <2>1, <2>2, StoredOnce
  <2>4. Columns(dialog')
    BY <1>1, <1>4, <2>1
  <2>5. QED
    BY <1>1, <2>1, <2>3, <2>4 DEF OnceInv
<1>9. QED
  BY <1>2, <1>5, <1>6, <1>7, <1>8

LEMMA OnceStep ==
  ASSUME ValuesDiffer, PickInv, OnceInv, [Next]_vars
  PROVE  OnceInv'
<1>1. ASSUME NEW i \in DOMAIN form.vals, Activate(i) PROVE OnceInv'
  BY <1>1, OpenedOnce
<1>2. ASSUME NEW t \in Terms \cup Numbers, Type(t) PROVE OnceInv'
  <2> DEFINE d == [dialog EXCEPT !.text = t]
  <2>1. /\ dialog' = d /\ UNCHANGED <<form, results>>
        /\ staged' = IF d.kind = "lookup" THEN Staging(d) ELSE staged
        /\ IsOpen
    BY <1>2 DEF Type, Ask
  <2>2. /\ DOMAIN dialog = Parts /\ dialog.kind \in Kinds /\ dialog.field \in Fields
        /\ ChosenOnce(dialog.sel)
    BY <2>1 DEF PickInv, DialogOK, IsOpen, OnceInv, Columns
  <2>3. /\ d.kind = dialog.kind /\ d.field = dialog.field /\ d.sel = dialog.sel
        /\ d.avail = dialog.avail /\ d.saved = dialog.saved
    BY <2>2 DEF Parts
  <2> HIDE DEF d
  <2>4. Committable(staged')
    BY <2>1, <2>2, <2>3, StagingOnce DEF OnceInv
  <2>5. Columns(d)
    BY <2>1, <2>3 DEF Columns, OnceInv, IsOpen
  <2>6. QED
    BY <2>1, <2>4, <2>5 DEF OnceInv
<1>3. CASE Edit
  BY <1>3, EditOnce
<1>4. CASE Ok
  <2>1. UNCHANGED results /\ dialog' = NoDialog /\ staged' = NoCommit
    BY <1>4 DEF Ok, search
  <2>2. "vals" \in DOMAIN form' /\ \A i \in DOMAIN form'.vals : Once(form'.vals[i])
    <3>1. CASE staged # NoCommit /\ dialog.at \in DOMAIN form.vals
      <4>1. form' = [form EXCEPT !.vals[dialog.at] = staged.vals]
        BY <1>4, <3>1 DEF Ok
      <4>2. Once(staged.vals)
        BY <3>1 DEF OnceInv, Committable
      <4>3. /\ form'.vals = [form.vals EXCEPT ![dialog.at] = staged.vals]
            /\ "vals" \in DOMAIN form'
        BY <4>1 DEF OnceInv
      <4>4. QED
        BY <4>2, <4>3 DEF OnceInv
    <3>2. CASE ~(staged # NoCommit /\ dialog.at \in DOMAIN form.vals)
      BY <1>4, <3>2 DEF Ok, OnceInv
    <3>3. QED
      BY <3>1, <3>2
  <2>3. QED
    BY <2>1, <2>2 DEF OnceInv, Columns, Committable
<1>5. CASE Cancel
  BY <1>5 DEF Cancel, search, OnceInv, Columns, Committable
<1>6. CASE Render \/ (\E e \in Entries : RequestLeaf(e)) \/ Reload \/ Work \/ UNCHANGED vars
  <2>1. UNCHANGED <<results, form, dialog, staged>>
    BY <1>6 DEF Render, RequestLeaf, Reload, Work, vars, search
  <2>2. QED
    BY <2>1 DEF OnceInv
<1>7. CASE Pump
  BY <1>7, PumpOnce
<1>8. QED
  BY <1>1, <1>2, <1>3, <1>4, <1>5, <1>6, <1>7 DEF Next

\* Columns and commits never hold a value twice, and so neither does a form:
\* a second copy of a member would be refused by the server, or written. The rows
\* found and the values stored may not, which is all that is assumed.
THEOREM EachValueOnce == ASSUME ValuesDiffer PROVE Spec => []NothingTwice
<1>1. Init => OnceInv
  <2> SUFFICES ASSUME Init PROVE OnceInv
    OBVIOUS
  <2>1. results.rows = <<>> /\ dialog = NoDialog /\ staged = NoCommit
    BY DEF Init
  <2>2. PICK e \in Entries : form = [entry |-> e, vals |-> Stored[e]]
    BY DEF Init
  <2>3. "vals" \in DOMAIN form /\ \A i \in DOMAIN form.vals : Once(form.vals[i])
    BY <2>2, StoredOnce
  <2>4. QED
    BY <2>1, <2>3, NoneOnce DEF OnceInv, Columns, Committable
<1>2. PickInv /\ OnceInv /\ [Next]_vars => OnceInv'
  BY OnceStep
<1>3. OnceInv => NothingTwice
  <2> SUFFICES ASSUME OnceInv, IsOpen, dialog.kind \in {"multi", "oc"}
               PROVE  IsInjective(RowKeys(dialog.sel) \o dialog.avail)
    BY DEF NothingTwice
  <2> DEFINE ks == RowKeys(dialog.sel)
  <2>1. Once(ks) /\ Once(dialog.avail) /\ ToSet(ks) \cap ToSet(dialog.avail) = {}
    BY DEF OnceInv, Columns, IsOpen, ChosenOnce
  <2> HIDE DEF ks
  <2>2. IsInjective(ks \o dialog.avail)
    BY <2>1, ConcatOnce DEF Once
  <2>3. QED
    BY <2>2 DEF ks
<1>4. QED
  BY PickCorrect, <1>1, <1>2, <1>3, PTL DEF Spec
=============================================================================
