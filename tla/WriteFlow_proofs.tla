-------------------------- MODULE WriteFlow_proofs --------------------------
(***************************************************************************)
(* Proofs about WriteFlow: requests, intents, answers and batches agree,   *)
(* and the flow keeps the promise of SavePromise, for every number of      *)
(* saves and legs.  At the end, proofs about AtomicCreate, which is one of *)
(* its requests as the worker carries it out.                              *)
(***************************************************************************)
EXTENDS WriteFlow, AtomicCreate, SequenceTheorems, FiniteSetTheorems, TLAPS

FlowInv == TypeOK /\ BatchAccounting /\ Correlation

-----------------------------------------------------------------------------
(***************************************************************************)
(* Tables and queues.                                                      *)
(***************************************************************************)
LEMMA IdsOfAppend ==
  ASSUME NEW R, NEW s \in Seq(R), NEW e \in R
  PROVE  /\ Ids(Append(s, e)) = Ids(s) \cup {e.id}
         /\ Distinct(s) /\ e.id \notin Ids(s) => Distinct(Append(s, e))
<1> DEFINE t == Append(s, e)
<1>1. /\ Len(t) = Len(s) + 1 /\ t[Len(s) + 1] = e
      /\ \A i \in 1..Len(s) : t[i] = s[i]
  OBVIOUS
<1>2. Len(s) \in Nat
  OBVIOUS
<1> HIDE DEF t
<1>3. Ids(t) = Ids(s) \cup {e.id}
  BY <1>1, <1>2 DEF Ids
<1>4. ASSUME Distinct(s), e.id \notin Ids(s) PROVE Distinct(t)
  BY <1>1, <1>2, <1>4 DEF Distinct, Ids
<1>5. QED
  BY <1>3, <1>4 DEF t

LEMMA IdsOfTail ==
  ASSUME NEW R, NEW s \in Seq(R), s # <<>>, Distinct(s)
  PROVE  /\ Head(s).id \in Ids(s)
         /\ Ids(Tail(s)) = Ids(s) \ {Head(s).id}
         /\ Distinct(Tail(s))
<1> DEFINE t == Tail(s)
<1>1. /\ Len(t) = Len(s) - 1 /\ Head(s) = s[1]
      /\ \A i \in 1..Len(t) : t[i] = s[i + 1]
  OBVIOUS
<1>2. Len(s) \in Nat \ {0}
  OBVIOUS
<1> HIDE DEF t
<1>3. Head(s).id \in Ids(s)
  BY <1>1, <1>2 DEF Ids
<1>4. Ids(t) \subseteq Ids(s) \ {Head(s).id}
  <2> SUFFICES ASSUME NEW i \in 1..Len(t) PROVE t[i].id \in Ids(s) \ {Head(s).id}
    BY DEF Ids
  <2>1. i + 1 \in 1..Len(s) /\ i + 1 # 1 /\ 1 \in 1..Len(s)
    BY <1>1, <1>2
  <2>2. QED
    BY <2>1, <1>1 DEF Ids, Distinct
<1>5. Ids(s) \ {Head(s).id} \subseteq Ids(t)
  <2> SUFFICES ASSUME NEW i \in 1..Len(s), s[i].id # Head(s).id PROVE s[i].id \in Ids(t)
    BY DEF Ids
  <2>1. i # 1
    BY <1>1
  <2>2. i - 1 \in 1..Len(t) /\ (i - 1) + 1 = i
    BY <2>1, <1>1, <1>2
  <2>3. t[i - 1] = s[i]
    BY <2>2, <1>1
  <2>4. QED
    BY <2>2, <2>3 DEF Ids
<1>6. Distinct(t)
  <2> SUFFICES ASSUME NEW i \in 1..Len(t), NEW j \in 1..Len(t), t[i].id = t[j].id PROVE i = j
    BY DEF Distinct
  <2>1. i + 1 \in 1..Len(s) /\ j + 1 \in 1..Len(s)
    BY <1>1, <1>2
  <2>2. s[i + 1].id = s[j + 1].id
    BY <1>1
  <2>3. i + 1 = j + 1
    BY <2>1, <2>2 DEF Distinct
  <2>4. QED
    BY <2>3
<1>7. QED
  BY <1>3, <1>4, <1>5, <1>6 DEF t

-----------------------------------------------------------------------------
(***************************************************************************)
(* What the invariant says of one pending write, and of a live batch.      *)
(***************************************************************************)
LEMMA PendingFacts ==
  ASSUME TypeOK, OneAnswerEach
  PROVE  /\ nextId \in Nat \ {0} /\ nextId \notin DOMAIN pending
         /\ nextId \notin Ids(queue) /\ nextId \notin Ids(resps)
         /\ \A i \in DOMAIN pending : i \in Nat \ {0} /\ i < nextId /\ pending[i] \in Intent
                                      /\ pending[i].save \in Saves
  BY DEF TypeOK, OneAnswerEach

\* histories of saves already there are kept by a new one, whose own start fresh
LEMMA NewSaveFacts ==
  ASSUME TypeOK, NEW n \in Nat, NewSave(n)
  PROVE  /\ Fresh \notin Saves /\ Saves' = Saves \cup {Fresh} /\ Fresh \in Nat
         /\ size' \in Seq(Nat) /\ todo' \in Seq(SUBSET Nat) /\ told' \in Seq(Seq(Report))
         /\ Len(todo') = Len(size') /\ Len(told') = Len(size')
         /\ size'[Fresh] = n /\ todo'[Fresh] = 1..n /\ told'[Fresh] = <<>>
         /\ \A s \in Saves : size'[s] = size[s] /\ todo'[s] = todo[s] /\ told'[s] = told[s]
<1>1. Len(size) \in Nat /\ Len(todo) = Len(size) /\ Len(told) = Len(size)
  BY DEF TypeOK
<1>2. 1..n \in SUBSET Nat /\ <<>> \in Seq(Report)
  OBVIOUS
<1>3. /\ size' \in Seq(Nat) /\ todo' \in Seq(SUBSET Nat) /\ told' \in Seq(Seq(Report))
  BY <1>2 DEF TypeOK, NewSave
<1>4. /\ Len(size') = Len(size) + 1 /\ size'[Len(size) + 1] = n
      /\ \A s \in 1..Len(size) : size'[s] = size[s]
  BY DEF TypeOK, NewSave
<1>5. /\ Len(todo') = Len(todo) + 1 /\ todo'[Len(todo) + 1] = 1..n
      /\ \A s \in 1..Len(todo) : todo'[s] = todo[s]
  BY <1>2 DEF TypeOK, NewSave
<1>6. /\ Len(told') = Len(told) + 1 /\ told'[Len(told) + 1] = <<>>
      /\ \A s \in 1..Len(told) : told'[s] = told[s]
  BY <1>2 DEF TypeOK, NewSave
<1>7. Fresh = Len(size) + 1 /\ Saves = 1..Len(size) /\ Saves' = 1..Len(size')
  BY DEF Fresh, Saves
<1>8. Fresh \notin Saves /\ Saves' = Saves \cup {Fresh} /\ Fresh \in Nat
  BY <1>1, <1>4, <1>7
<1>9. QED
  BY <1>1, <1>3, <1>4, <1>5, <1>6, <1>7, <1>8

(***************************************************************************)
(* One request sent, in place of the intents that `table` leaves out.      *)
(***************************************************************************)
LEMMA SendStep ==
  ASSUME TypeOK, OneAnswerEach,
         NEW table, NEW op, NEW asserted \in BOOLEAN, NEW intent \in Intent,
         op \in {"modify", "modrdn", "add", "atomic"}, intent.batch = 0,
         DOMAIN table \subseteq DOMAIN pending,
         \A i \in DOMAIN table : table[i] = pending[i],
         Send(table, op, asserted, intent),
         resps' \in Seq(Response), Distinct(resps'),
         DOMAIN table = Ids(queue) \cup Ids(resps'), Ids(queue) \cap Ids(resps') = {}
  PROVE  /\ nextId' = nextId + 1
         /\ DOMAIN pending' = DOMAIN table \cup {nextId}
         /\ pending'[nextId] = intent
         /\ \A i \in DOMAIN table : pending'[i] = pending[i]
         /\ pending' = [i \in DOMAIN pending' |-> pending'[i]]
         /\ queue' \in Seq(Request) /\ Len(queue') = Len(queue) + 1
         /\ queue'[Len(queue) + 1] = [id |-> nextId, op |-> op, asserted |-> asserted]
         /\ \A i \in 1..Len(queue) : queue'[i] = queue[i]
         /\ OneAnswerEach'
<1> DEFINE job == [id |-> nextId, op |-> op, asserted |-> asserted]
<1>1. nextId \in Nat \ {0} /\ nextId \notin DOMAIN pending
  BY PendingFacts
<1>2. job \in Request /\ job.id = nextId
  BY <1>1 DEF Request
<1>3. queue' = Append(queue, job) /\ nextId' = nextId + 1
  BY DEF Send, Alloc
<1> HIDE DEF job
<1>4. queue \in Seq(Request)
  BY DEF TypeOK
<1>5. /\ queue' \in Seq(Request) /\ Len(queue') = Len(queue) + 1 /\ queue'[Len(queue) + 1] = job
      /\ \A i \in 1..Len(queue) : queue'[i] = queue[i]
  BY <1>2, <1>3, <1>4
<1>6. pending' = Extend(table, [i \in {nextId} |-> intent])
  BY DEF Send
<1>7. /\ DOMAIN pending' = DOMAIN table \cup {nextId}
      /\ pending'[nextId] = intent
      /\ \A i \in DOMAIN table : i # nextId => pending'[i] = table[i]
      /\ pending' = [i \in DOMAIN pending' |-> pending'[i]]
  BY <1>6 DEF Extend
<1>8. \A i \in DOMAIN table : pending'[i] = pending[i]
  BY <1>1, <1>7
<1>9. nextId \notin Ids(queue) /\ nextId \notin Ids(resps')
  BY <1>1
<1>10. Ids(queue') = Ids(queue) \cup {nextId} /\ Distinct(queue')
  BY <1>2, <1>3, <1>4, <1>9, IdsOfAppend DEF OneAnswerEach
<1>11. \A i \in DOMAIN pending' : pending'[i].batch < nextId'
  <2>1. \A i \in DOMAIN table : pending[i].batch < nextId /\ pending[i].batch \in Nat
    BY DEF OneAnswerEach, TypeOK, Intent
  <2>2. QED
    BY <2>1, <1>1, <1>3, <1>7, <1>8
<1>12. OneAnswerEach'
  BY <1>7, <1>9, <1>10, <1>11 DEF OneAnswerEach
<1>13. QED
  BY <1>3, <1>5, <1>7, <1>8, <1>12 DEF job

(***************************************************************************)
(* A batch whose legs, and the histories of whose save, are kept.          *)
(***************************************************************************)
LegsAccounted(b) ==
  /\ batches[b] = Cardinality(LegsOf(b)) /\ batches[b] > 0
  /\ \A i, j \in LegsOf(b) : pending[i].save = pending[j].save
  /\ \A i \in LegsOf(b) :
       /\ told[pending[i].save] = <<>>
       /\ todo[pending[i].save] \subseteq {pending[j].part : j \in LegsOf(b)}

LEMMA BatchKept ==
  ASSUME BatchAccounting, NEW b \in DOMAIN batches,
         b \in DOMAIN batches', batches'[b] = batches[b],
         LegsOf(b)' = LegsOf(b),
         \A i \in LegsOf(b) : /\ pending'[i] = pending[i]
                              /\ told'[pending[i].save] = told[pending[i].save]
                              /\ todo'[pending[i].save] \subseteq todo[pending[i].save]
  PROVE  LegsAccounted(b)'
<1> DEFINE L == LegsOf(b)
<1>1. /\ batches[b] = Cardinality(L) /\ batches[b] > 0
      /\ \A i, j \in L : pending[i].save = pending[j].save
      /\ \A i \in L : /\ told[pending[i].save] = <<>>
                      /\ todo[pending[i].save] \subseteq {pending[j].part : j \in L}
  BY DEF BatchAccounting
<1>2. LegsOf(b)' = L
  OBVIOUS
<1> HIDE DEF L
<1>3. /\ batches'[b] = Cardinality(L) /\ batches'[b] > 0
      /\ \A i, j \in L : pending'[i].save = pending'[j].save
  BY <1>1 DEF L
<1>4. \A i \in L : /\ told'[pending'[i].save] = <<>>
                   /\ todo'[pending'[i].save] \subseteq {pending'[j].part : j \in L}
  <2> SUFFICES ASSUME NEW i \in L
               PROVE  /\ told'[pending'[i].save] = <<>>
                      /\ todo'[pending'[i].save] \subseteq {pending'[j].part : j \in L}
    OBVIOUS
  <2>1. {pending'[j].part : j \in L} = {pending[j].part : j \in L}
    BY DEF L
  <2>2. QED
    BY <1>1, <2>1 DEF L
<1>5. QED
  BY <1>2, <1>3, <1>4 DEF LegsAccounted

-----------------------------------------------------------------------------
(***************************************************************************)
(* A save of one request, or of one request and a follow-up.               *)
(***************************************************************************)
LEMMA AloneStep ==
  ASSUME FlowInv,
         NEW n \in {1, 2}, NEW op \in {"modify", "modrdn", "add", "atomic"},
         NEW asserted \in BOOLEAN, NEW intent \in Intent,
         intent.save = Fresh, intent.part = 1, intent.batch = 0,
         \/ intent.kind \in {"Save", "Create"} /\ n = 1
         \/ intent.kind \in {"RenameThenModify", "CompanionThenPrimary"} /\ n = 2,
         asserted => intent.kind = "Save",
         Alone(n, op, asserted, intent)
  PROVE  FlowInv'
<1>1. TypeOK /\ OneAnswerEach /\ SavesApart /\ Stages /\ Truthful /\ BatchAccounting
  BY DEF FlowInv, Correlation
<1>2. NewSave(n) /\ Send(pending, op, asserted, intent) /\ batches' = batches /\ resps' = resps
  BY DEF Alone
<1>3. /\ Fresh \notin Saves /\ Saves' = Saves \cup {Fresh} /\ Fresh \in Nat
      /\ size' \in Seq(Nat) /\ todo' \in Seq(SUBSET Nat) /\ told' \in Seq(Seq(Report))
      /\ Len(todo') = Len(size') /\ Len(told') = Len(size')
      /\ size'[Fresh] = n /\ todo'[Fresh] = 1..n /\ told'[Fresh] = <<>>
      /\ \A s \in Saves : size'[s] = size[s] /\ todo'[s] = todo[s] /\ told'[s] = told[s]
  <2>1. n \in Nat
    OBVIOUS
  <2>2. QED
    BY <1>1, <1>2, <2>1, NewSaveFacts
<1>4. /\ nextId' = nextId + 1
      /\ DOMAIN pending' = DOMAIN pending \cup {nextId}
      /\ pending'[nextId] = intent
      /\ \A i \in DOMAIN pending : pending'[i] = pending[i]
      /\ pending' = [i \in DOMAIN pending' |-> pending'[i]]
      /\ queue' \in Seq(Request) /\ Len(queue') = Len(queue) + 1
      /\ queue'[Len(queue) + 1] = [id |-> nextId, op |-> op, asserted |-> asserted]
      /\ \A i \in 1..Len(queue) : queue'[i] = queue[i]
      /\ OneAnswerEach'
  <2>1. resps' \in Seq(Response) /\ Distinct(resps')
        /\ DOMAIN pending = Ids(queue) \cup Ids(resps') /\ Ids(queue) \cap Ids(resps') = {}
    BY <1>1, <1>2 DEF TypeOK, OneAnswerEach
  <2>2. QED
    BY <1>1, <1>2, <2>1, SendStep
<1>fresh. /\ nextId' = nextId + 1
      /\ DOMAIN pending' = DOMAIN pending \cup {nextId}
      /\ pending'[nextId] = intent
      /\ \A i \in DOMAIN pending : pending'[i] = pending[i]
  BY <1>4
<1>5. /\ nextId \in Nat \ {0} /\ nextId \notin DOMAIN pending
      /\ \A i \in DOMAIN pending : i \in Nat \ {0} /\ i < nextId /\ pending[i] \in Intent
                                   /\ pending[i].save \in Saves
  BY <1>1, PendingFacts
<1>queued. /\ Len(queue') = Len(queue) + 1
      /\ queue'[Len(queue) + 1].id = nextId /\ queue'[Len(queue) + 1].asserted = asserted
      /\ \A i \in 1..Len(queue) : queue'[i] = queue[i]
  BY <1>4
<1>kept. \A i \in DOMAIN pending :
        LET s == pending[i].save
        IN  /\ pending'[i] = pending[i]
            /\ size'[s] = size[s] /\ todo'[s] = todo[s] /\ told'[s] = told[s]
  BY <1>3, <1>fresh, <1>5
<1>saves. Saves' = Saves \cup {Fresh} /\ Fresh \notin Saves
  BY <1>3
<1>6. TypeOK'
  <2>1. DOMAIN pending' \subseteq 1..(nextId' - 1) /\ nextId' \in Nat \ {0}
    BY <1>fresh, <1>5
  <2>2. \A i \in DOMAIN pending' : pending'[i] \in Intent /\ pending'[i].save \in Saves'
    <3>1. intent.save \in Saves'
      BY <1>3
    <3>2. QED
      BY <3>1, <1>saves, <1>fresh, <1>5
  <2>3. DOMAIN batches' \subseteq 1..(nextId' - 1) /\ batches' \in [DOMAIN batches' -> Nat]
    BY <1>1, <1>2, <1>fresh, <1>5 DEF TypeOK
  <2>4. resps' \in Seq(Response)
    BY <1>1, <1>2 DEF TypeOK
  <2>5. QED
    BY <1>3, <1>4, <2>1, <2>2, <2>3, <2>4 DEF TypeOK
<1>7. SavesApart'
  <2>1. \A i \in DOMAIN pending : pending[i].save # intent.save
    BY <1>saves, <1>5
  <2> SUFFICES ASSUME NEW i \in DOMAIN pending', NEW j \in DOMAIN pending',
                      pending'[i].save = pending'[j].save, i # j
               PROVE  /\ pending'[i].kind = "CombinedLeg" /\ pending'[j].kind = "CombinedLeg"
                      /\ pending'[i].batch = pending'[j].batch
    BY DEF SavesApart
  <2>2. i \in DOMAIN pending /\ j \in DOMAIN pending
    BY <2>1, <1>fresh
  <2>3. QED
    BY <2>2, <1>1, <1>fresh DEF SavesApart
<1>8. Stages'
  <2> SUFFICES ASSUME NEW i \in DOMAIN pending'
               PROVE  /\ pending'[i].kind # "CombinedLeg" => told'[pending'[i].save] = <<>>
                      /\ pending'[i].kind \in {"Save", "Create", "PrimaryAfterCompanion"} =>
                           todo'[pending'[i].save] \subseteq {pending'[i].part}
                      /\ pending'[i].kind \in {"RenameThenModify", "CompanionThenPrimary"} =>
                           pending'[i].part = 1 /\ todo'[pending'[i].save] \subseteq {1, 2}
                      /\ pending'[i].kind = "PrimaryAfterCompanion" => pending'[i].part = 2
    BY DEF Stages
  <2>1. CASE i \in DOMAIN pending
    BY <2>1, <1>1, <1>kept DEF Stages
  <2>2. CASE i = nextId
    <3>1. 1..1 = {1} /\ 1..2 = {1, 2}
      OBVIOUS
    <3>2. QED
      BY <2>2, <3>1, <1>3, <1>fresh
  <2>3. QED
    BY <2>1, <2>2, <1>fresh
<1>9. Truthful'
  <2>1. \A i \in 1..Len(queue) : queue[i].id \in DOMAIN pending
    BY <1>1 DEF OneAnswerEach, Ids
  <2>2. \A i \in 1..Len(resps) : resps[i].id \in DOMAIN pending
    BY <1>1 DEF OneAnswerEach, Ids
  <2>3. ASSUME NEW i \in 1..Len(queue'), queue'[i].asserted
        PROVE  \/ pending'[queue'[i].id].kind = "CombinedLeg"
               \/ /\ pending'[queue'[i].id].kind = "Save"
                  /\ todo'[pending'[queue'[i].id].save] = 1..size'[pending'[queue'[i].id].save]
    <3>1. CASE i \in 1..Len(queue)
      BY <2>1, <2>3, <3>1, <1>1, <1>kept, <1>queued DEF Truthful, Untouched
    <3>2. CASE i = Len(queue) + 1
      BY <2>3, <3>2, <1>3, <1>fresh, <1>queued
    <3>3. Len(queue) \in Nat
      BY <1>1 DEF TypeOK
    <3>4. QED
      BY <3>1, <3>2, <3>3, <1>queued
  <2>4. ASSUME NEW i \in 1..Len(resps)
        PROVE  /\ resps[i].kind = "ok" =>
                    pending'[resps[i].id].part \notin todo'[pending'[resps[i].id].save]
               /\ resps[i].kind = "conflict" =>
                    \/ pending'[resps[i].id].kind = "CombinedLeg"
                    \/ /\ pending'[resps[i].id].kind = "Save"
                       /\ todo'[pending'[resps[i].id].save] = 1..size'[pending'[resps[i].id].save]
    BY <2>2, <1>1, <1>kept DEF Truthful, Untouched
  <2>5. QED
    BY <2>3, <2>4, <1>2 DEF Truthful, Untouched
<1>10. BatchAccounting'
  <2> SUFFICES ASSUME NEW b \in DOMAIN batches PROVE LegsAccounted(b)'
    BY <1>2 DEF BatchAccounting, LegsAccounted
  <2>1. LegsOf(b)' = LegsOf(b)
    BY <1>fresh, <1>5 DEF LegsOf
  <2>2. \A i \in LegsOf(b) : i \in DOMAIN pending
    BY DEF LegsOf
  <2>3. QED
    BY <2>1, <2>2, <1>1, <1>2, <1>3, <1>fresh, <1>5, BatchKept
<1>11. QED
  BY <1>4, <1>6, <1>7, <1>8, <1>9, <1>10 DEF FlowInv, Correlation

-----------------------------------------------------------------------------
(***************************************************************************)
(* A request served, whatever the verdict.                                 *)
(***************************************************************************)
LEMMA QueueHead ==
  ASSUME TypeOK, OneAnswerEach, queue # <<>>
  PROVE  /\ Head(queue) \in Request /\ Head(queue) = queue[1] /\ 1 \in 1..Len(queue)
         /\ Head(queue).id \in DOMAIN pending
         /\ Tail(queue) \in Seq(Request)
         /\ \A i \in 1..Len(Tail(queue)) :
              /\ Tail(queue)[i] = queue[i + 1] /\ i + 1 \in 1..Len(queue)
              /\ queue[i + 1].id \in DOMAIN pending /\ queue[i + 1].id # Head(queue).id
<1>1. queue \in Seq(Request) /\ Len(queue) \in Nat \ {0}
  BY DEF TypeOK
<1>2. /\ Head(queue) \in Request /\ Head(queue) = queue[1] /\ 1 \in 1..Len(queue)
      /\ Tail(queue) \in Seq(Request)
      /\ \A i \in 1..Len(Tail(queue)) : Tail(queue)[i] = queue[i + 1] /\ i + 1 \in 1..Len(queue)
  BY <1>1
<1>3. \A i \in 1..Len(queue) : queue[i].id \in DOMAIN pending
  BY DEF OneAnswerEach, Ids
<1>4. \A i \in 1..Len(Tail(queue)) : queue[i + 1].id # queue[1].id
  <2> TAKE i \in 1..Len(Tail(queue))
  <2>1. i + 1 # 1 /\ i + 1 \in 1..Len(queue)
    BY <1>2
  <2>2. QED
    BY <2>1, <1>2 DEF OneAnswerEach, Distinct
<1>5. QED
  BY <1>2, <1>3, <1>4

LEMMA LandedFacts ==
  ASSUME TypeOK, OneAnswerEach, queue # <<>>, NEW p, p = pending[Head(queue).id], Landed
  PROVE  /\ todo' \in Seq(SUBSET Nat) /\ Len(todo') = Len(todo)
         /\ \A s \in Saves : todo'[s] \subseteq todo[s]
         /\ \A s \in Saves : s # p.save => todo'[s] = todo[s]
         /\ p.part \notin todo'[p.save]
         /\ todo'[p.save] = todo[p.save] \ {p.part}
<1>1. todo' = [todo EXCEPT ![p.save] = @ \ {p.part}]
  BY DEF Landed
<1>2. p.save \in Saves /\ Saves = 1..Len(todo) /\ todo \in Seq(SUBSET Nat)
  BY QueueHead DEF TypeOK, Saves
<1>3. QED
  BY <1>1, <1>2

LEMMA ServeStep ==
  ASSUME FlowInv, NEW kind \in {"ok", "conflict", "error"}, Answer(kind),
         \/ Landed /\ kind # "conflict"
         \/ UNCHANGED todo /\ kind # "ok" /\ (kind = "conflict" => Head(queue).asserted)
  PROVE  FlowInv'
<1> DEFINE h == Head(queue).id
           p == pending[h]
           r == [id |-> h, kind |-> kind]
<1>1. TypeOK /\ OneAnswerEach /\ SavesApart /\ Stages /\ Truthful /\ BatchAccounting
  BY DEF FlowInv, Correlation
<1>2. /\ queue # <<>> /\ queue' = Tail(queue) /\ resps' = Append(resps, r)
      /\ nextId' = nextId /\ pending' = pending /\ batches' = batches
      /\ size' = size /\ told' = told
  BY DEF Answer, flowVars
<1>3. /\ Head(queue) = queue[1] /\ 1 \in 1..Len(queue)
      /\ h \in DOMAIN pending
      /\ queue' \in Seq(Request)
      /\ \A i \in 1..Len(queue') :
           /\ queue'[i] = queue[i + 1] /\ i + 1 \in 1..Len(queue)
           /\ queue[i + 1].id \in DOMAIN pending /\ queue[i + 1].id # h
  BY <1>1, <1>2, QueueHead
<1>4. /\ p \in Intent /\ p.save \in Saves
      /\ \A i \in DOMAIN pending : pending[i].save \in Saves
  BY <1>1, <1>3 DEF TypeOK
<1>5. /\ todo' \in Seq(SUBSET Nat) /\ Len(todo') = Len(todo)
      /\ \A s \in Saves : todo'[s] \subseteq todo[s]
      /\ \A s \in Saves : s # p.save => todo'[s] = todo[s]
      /\ kind = "ok" => p.part \notin todo'[p.save]
      /\ kind = "conflict" => todo' = todo /\ queue[1].asserted
  <2>1. CASE Landed /\ kind # "conflict"
    BY <2>1, <1>1, <1>2, LandedFacts
  <2>2. CASE UNCHANGED todo /\ kind # "ok" /\ (kind = "conflict" => Head(queue).asserted)
    BY <2>2, <1>1, <1>3 DEF TypeOK
  <2>3. QED
    BY <2>1, <2>2
<1>6. r \in Response /\ r.id = h /\ r.kind = kind
  BY <1>1, <1>3 DEF Response, TypeOK
<1>7. resps \in Seq(Response)
  BY <1>1 DEF TypeOK
<1> HIDE DEF r
<1>8. /\ resps' \in Seq(Response) /\ Len(resps') = Len(resps) + 1 /\ resps'[Len(resps) + 1] = r
      /\ \A i \in 1..Len(resps) : resps'[i] = resps[i]
  BY <1>2, <1>6, <1>7
<1>9. Saves' = Saves
  BY <1>2 DEF Saves
<1>10. TypeOK'
  <2>1. /\ nextId' \in Nat \ {0} /\ DOMAIN pending' \subseteq 1..(nextId' - 1)
        /\ \A i \in DOMAIN pending' : pending'[i] \in Intent /\ pending'[i].save \in Saves'
        /\ pending' = [i \in DOMAIN pending' |-> pending'[i]]
        /\ DOMAIN batches' \subseteq 1..(nextId' - 1) /\ batches' \in [DOMAIN batches' -> Nat]
    BY <1>1, <1>2, <1>9 DEF TypeOK
  <2>2. /\ size' \in Seq(Nat) /\ Len(todo') = Len(size')
        /\ told' \in Seq(Seq(Report)) /\ Len(told') = Len(size')
    BY <1>1, <1>2, <1>5 DEF TypeOK
  <2>3. QED
    BY <2>1, <2>2, <1>3, <1>5, <1>8 DEF TypeOK
<1>11. OneAnswerEach'
  <2>1. queue \in Seq(Request) /\ Distinct(queue) /\ Distinct(resps)
    BY <1>1 DEF TypeOK, OneAnswerEach
  <2>2. h \in Ids(queue) /\ Ids(queue') = Ids(queue) \ {h} /\ Distinct(queue')
    BY <2>1, <1>2, IdsOfTail
  <2>3. h \notin Ids(resps)
    BY <2>2, <1>1 DEF OneAnswerEach
  <2>4. Ids(resps') = Ids(resps) \cup {h} /\ Distinct(resps')
    BY <2>1, <2>3, <1>2, <1>6, <1>7, IdsOfAppend
  <2>5. QED
    BY <2>2, <2>3, <2>4, <1>1, <1>2 DEF OneAnswerEach
<1>12. SavesApart'
  BY <1>1, <1>2 DEF SavesApart
<1>13. Stages'
  BY <1>1, <1>2, <1>4, <1>5 DEF Stages
<1>14. ASSUME NEW i \in DOMAIN pending, i # h, pending[i].kind = "Save"
       PROVE  todo'[pending[i].save] = todo[pending[i].save]
  BY <1>14, <1>1, <1>3, <1>4, <1>5 DEF SavesApart
<1>15. \A i \in 1..Len(resps) : resps[i].id \in DOMAIN pending /\ resps[i].id # h
  <2>1. \A i \in 1..Len(resps) : resps[i].id \in Ids(resps)
    BY DEF Ids
  <2>2. h \in Ids(queue)
    BY <1>3 DEF Ids
  <2>3. QED
    BY <2>1, <2>2, <1>1 DEF OneAnswerEach
<1>16. Truthful'
  <2>1. ASSUME NEW i \in 1..Len(queue'), queue'[i].asserted
        PROVE  \/ pending[queue'[i].id].kind = "CombinedLeg"
               \/ /\ pending[queue'[i].id].kind = "Save"
                  /\ todo'[pending[queue'[i].id].save] = 1..size[pending[queue'[i].id].save]
    <3>1. /\ queue'[i] = queue[i + 1] /\ i + 1 \in 1..Len(queue)
          /\ queue[i + 1].id \in DOMAIN pending /\ queue[i + 1].id # h
      BY <1>3
    <3> DEFINE q == pending[queue[i + 1].id]
    <3>2. q.kind = "CombinedLeg" \/ (q.kind = "Save" /\ todo[q.save] = 1..size[q.save])
      BY <2>1, <3>1, <1>1 DEF Truthful, Untouched
    <3>3. q.kind = "Save" => todo'[q.save] = todo[q.save]
      BY <3>1, <1>14
    <3>4. QED
      BY <3>1, <3>2, <3>3
  <2>2. ASSUME NEW i \in 1..Len(resps')
        PROVE  /\ resps'[i].kind = "ok" =>
                    pending[resps'[i].id].part \notin todo'[pending[resps'[i].id].save]
               /\ resps'[i].kind = "conflict" =>
                    \/ pending[resps'[i].id].kind = "CombinedLeg"
                    \/ /\ pending[resps'[i].id].kind = "Save"
                       /\ todo'[pending[resps'[i].id].save] = 1..size[pending[resps'[i].id].save]
    <3>1. CASE i \in 1..Len(resps)
      BY <3>1, <1>1, <1>4, <1>5, <1>8, <1>14, <1>15 DEF Truthful, Untouched
    <3>2. CASE i = Len(resps) + 1
      BY <3>2, <1>1, <1>3, <1>5, <1>6, <1>8 DEF Truthful, Untouched
    <3>3. Len(resps) \in Nat
      BY <1>7
    <3>4. QED
      BY <3>1, <3>2, <3>3, <1>8
  <2>3. QED
    BY <2>1, <2>2, <1>2 DEF Truthful, Untouched
<1>17. BatchAccounting'
  <2> SUFFICES ASSUME NEW b \in DOMAIN batches PROVE LegsAccounted(b)'
    BY <1>2 DEF BatchAccounting, LegsAccounted
  <2>1. LegsOf(b)' = LegsOf(b)
    BY <1>2 DEF LegsOf
  <2>2. \A i \in LegsOf(b) : i \in DOMAIN pending
    BY DEF LegsOf
  <2>3. QED
    BY <2>1, <2>2, <1>1, <1>2, <1>4, <1>5, BatchKept
<1>18. QED
  BY <1>10, <1>11, <1>12, <1>13, <1>16, <1>17 DEF FlowInv, Correlation

-----------------------------------------------------------------------------
(***************************************************************************)
(* An answer taken from the queue with its intent.                         *)
(***************************************************************************)
LEMMA TakenFacts ==
  ASSUME TypeOK, OneAnswerEach, resps # <<>>
  PROVE  /\ Answered \in DOMAIN pending /\ Answered = resps[1].id /\ 1 \in 1..Len(resps)
         /\ Head(resps) = resps[1] /\ Head(resps) \in Response
         /\ Meant \in Intent /\ Meant.save \in Saves
         /\ DOMAIN Taken = DOMAIN pending \ {Answered}
         /\ \A i \in DOMAIN Taken : Taken[i] = pending[i]
         /\ Taken = [i \in DOMAIN Taken |-> Taken[i]]
         /\ Tail(resps) \in Seq(Response) /\ Distinct(Tail(resps))
         /\ Ids(Tail(resps)) = Ids(resps) \ {Answered}
         /\ Answered \notin Ids(queue)
         /\ \A i \in 1..Len(Tail(resps)) :
              /\ Tail(resps)[i] = resps[i + 1] /\ i + 1 \in 1..Len(resps)
              /\ resps[i + 1].id \in DOMAIN Taken
<1>1. resps \in Seq(Response) /\ Len(resps) \in Nat \ {0} /\ Distinct(resps)
  BY DEF TypeOK, OneAnswerEach
<1>2. /\ Head(resps) = resps[1] /\ 1 \in 1..Len(resps) /\ Head(resps) \in Response
      /\ Tail(resps) \in Seq(Response)
      /\ \A i \in 1..Len(Tail(resps)) : Tail(resps)[i] = resps[i + 1] /\ i + 1 \in 1..Len(resps)
  BY <1>1
<1>3. /\ Answered \in Ids(resps) /\ Ids(Tail(resps)) = Ids(resps) \ {Answered}
      /\ Distinct(Tail(resps))
  BY <1>1, IdsOfTail DEF Answered
<1>4. Answered \in DOMAIN pending /\ Answered \notin Ids(queue)
  BY <1>3 DEF OneAnswerEach
<1>5. Meant \in Intent /\ Meant.save \in Saves
  BY <1>4 DEF TypeOK, Meant
<1>6. /\ DOMAIN Taken = DOMAIN pending \ {Answered}
      /\ \A i \in DOMAIN Taken : Taken[i] = pending[i]
      /\ Taken = [i \in DOMAIN Taken |-> Taken[i]]
  BY DEF Taken, Without
<1>7. \A i \in 1..Len(Tail(resps)) : resps[i + 1].id \in DOMAIN Taken
  <2> TAKE i \in 1..Len(Tail(resps))
  <2>1. Tail(resps)[i].id \in Ids(Tail(resps))
    BY DEF Ids
  <2>2. resps[i + 1].id \in Ids(resps) \ {Answered}
    BY <2>1, <1>2, <1>3
  <2>3. QED
    BY <2>2, <1>6 DEF OneAnswerEach
<1>8. QED
  BY <1>2, <1>3, <1>4, <1>5, <1>6, <1>7 DEF Answered

LEMMA TellFacts ==
  ASSUME TypeOK, OneAnswerEach, resps # <<>>, NEW r \in Report, Tell(r)
  PROVE  /\ told' \in Seq(Seq(Report)) /\ Len(told') = Len(told)
         /\ told'[Meant.save] = Append(told[Meant.save], r)
         /\ \A s \in Saves : s # Meant.save => told'[s] = told[s]
<1> DEFINE m == Meant.save
<1>1. m \in Saves /\ Saves = 1..Len(told) /\ told \in Seq(Seq(Report))
  BY TakenFacts DEF TypeOK, Saves
<1>2. told' = [told EXCEPT ![m] = Append(told[m], r)]
  BY DEF Tell
<1> HIDE DEF m
<1>3. Append(told[m], r) \in Seq(Report)
  BY <1>1
<1>4. QED
  BY <1>1, <1>2, <1>3 DEF m

(***************************************************************************)
(* The answer closes its write.  The batch of an answered leg is one less, *)
(* or is gone; the others are kept.                                        *)
(***************************************************************************)
LEMMA CloseStep ==
  ASSUME FlowInv, resps # <<>>, Close,
         told' = told \/ \E r \in Report : Tell(r),
         DOMAIN batches' \subseteq DOMAIN batches,
         batches' = [b \in DOMAIN batches' |-> batches'[b]],
         \A b \in DOMAIN batches' :
           IF Meant.kind = "CombinedLeg" /\ b = Meant.batch
           THEN /\ batches'[b] = batches[b] - 1 /\ batches[b] # 1
                /\ told' = told /\ Head(resps).kind = "ok"
           ELSE batches'[b] = batches[b]
  PROVE  FlowInv'
<1>1. TypeOK /\ OneAnswerEach /\ SavesApart /\ Stages /\ Truthful /\ BatchAccounting
  BY DEF FlowInv, Correlation
<1>2. /\ resps' = Tail(resps) /\ pending' = Taken
      /\ nextId' = nextId /\ queue' = queue /\ size' = size /\ todo' = todo
  BY DEF Close
<1>3. /\ Answered \in DOMAIN pending /\ Answered = resps[1].id /\ 1 \in 1..Len(resps)
      /\ Head(resps) = resps[1] /\ Meant = pending[Answered]
      /\ Meant \in Intent /\ Meant.save \in Saves
  BY <1>1, TakenFacts DEF Meant
<1>4. /\ DOMAIN pending' = DOMAIN pending \ {Answered}
      /\ \A i \in DOMAIN pending' : pending'[i] = pending[i]
      /\ pending' = [i \in DOMAIN pending' |-> pending'[i]]
  BY <1>1, <1>2, TakenFacts
<1>5. /\ resps' \in Seq(Response) /\ Distinct(resps') /\ Ids(resps') = Ids(resps) \ {Answered}
      /\ Answered \notin Ids(queue)
      /\ \A i \in 1..Len(resps') :
           /\ resps'[i] = resps[i + 1] /\ i + 1 \in 1..Len(resps)
           /\ resps[i + 1].id \in DOMAIN pending'
  BY <1>1, <1>2, TakenFacts
<1>6. /\ told' \in Seq(Seq(Report)) /\ Len(told') = Len(told)
      /\ \A s \in Saves : s # Meant.save => told'[s] = told[s]
  <2>1. CASE told' = told
    BY <2>1, <1>1 DEF TypeOK
  <2>2. CASE \E r \in Report : Tell(r)
    BY <2>2, <1>1, TellFacts
  <2>3. QED
    BY <2>1, <2>2
<1>7. Saves' = Saves
  BY <1>2 DEF Saves
<1>8. \A i \in DOMAIN pending : pending[i].save \in Saves /\ pending[i] \in Intent
  BY <1>1 DEF TypeOK
<1>9. \A b \in DOMAIN batches : batches[b] \in Nat /\ batches[b] > 0
  BY <1>1 DEF TypeOK, BatchAccounting
<1>10. TypeOK'
  <2>1. DOMAIN pending' \subseteq 1..(nextId' - 1) /\ nextId' \in Nat \ {0}
    BY <1>1, <1>2, <1>4 DEF TypeOK
  <2>2. \A i \in DOMAIN pending' : pending'[i] \in Intent /\ pending'[i].save \in Saves'
    BY <1>4, <1>7, <1>8
  <2>3. DOMAIN batches' \subseteq 1..(nextId' - 1)
    BY <1>1, <1>2 DEF TypeOK
  <2>4. \A b \in DOMAIN batches' : batches'[b] \in Nat
    BY <1>9
  <2>5. batches' \in [DOMAIN batches' -> Nat]
    BY <2>4
  <2>6. /\ queue' \in Seq(Request) /\ size' \in Seq(Nat) /\ todo' \in Seq(SUBSET Nat)
        /\ Len(todo') = Len(size') /\ Len(told') = Len(size')
    BY <1>1, <1>2, <1>6 DEF TypeOK
  <2>7. QED
    BY <1>4, <1>5, <1>6, <2>1, <2>2, <2>3, <2>5, <2>6 DEF TypeOK
<1>11. OneAnswerEach'
  <2>1. DOMAIN pending' = Ids(queue) \cup Ids(resps')
    BY <1>1, <1>4, <1>5 DEF OneAnswerEach
  <2>2. \A i \in DOMAIN pending' : pending'[i].batch < nextId
    BY <1>1, <1>4 DEF OneAnswerEach
  <2>3. QED
    BY <2>1, <2>2, <1>1, <1>2, <1>5 DEF OneAnswerEach
<1>12. SavesApart'
  BY <1>1, <1>4 DEF SavesApart
<1>13. ASSUME NEW i \in DOMAIN pending', pending[i].save = Meant.save
       PROVE  /\ Meant.kind = "CombinedLeg" /\ pending[i].kind = "CombinedLeg"
              /\ pending[i].batch = Meant.batch
  BY <1>13, <1>1, <1>3, <1>4 DEF SavesApart
<1>14. Stages'
  <2>1. ASSUME NEW i \in DOMAIN pending'
        PROVE  pending[i].kind # "CombinedLeg" => told'[pending[i].save] = told[pending[i].save]
    BY <1>4, <1>6, <1>8, <1>13
  <2>2. QED
    BY <2>1, <1>1, <1>2, <1>4 DEF Stages
<1>15. Truthful'
  <2>1. ASSUME NEW i \in 1..Len(queue)
        PROVE  queue[i].id \in DOMAIN pending'
    BY <1>1, <1>4, <1>5 DEF OneAnswerEach, Ids
  <2>2. ASSUME NEW i \in 1..Len(queue), queue[i].asserted
        PROVE  \/ pending'[queue[i].id].kind = "CombinedLeg"
               \/ /\ pending'[queue[i].id].kind = "Save"
                  /\ todo[pending'[queue[i].id].save] = 1..size[pending'[queue[i].id].save]
    BY <2>1, <2>2, <1>1, <1>4 DEF Truthful, Untouched
  <2>3. ASSUME NEW i \in 1..Len(resps')
        PROVE  /\ resps'[i].kind = "ok" =>
                    pending'[resps'[i].id].part \notin todo[pending'[resps'[i].id].save]
               /\ resps'[i].kind = "conflict" =>
                    \/ pending'[resps'[i].id].kind = "CombinedLeg"
                    \/ /\ pending'[resps'[i].id].kind = "Save"
                       /\ todo[pending'[resps'[i].id].save] = 1..size[pending'[resps'[i].id].save]
    BY <1>1, <1>4, <1>5 DEF Truthful, Untouched
  <2>4. QED
    BY <2>2, <2>3, <1>2 DEF Truthful, Untouched
<1>16. BatchAccounting'
  <2> SUFFICES ASSUME NEW b \in DOMAIN batches' PROVE LegsAccounted(b)'
    BY DEF BatchAccounting, LegsAccounted
  <2>1. \A i \in LegsOf(b) : i \in DOMAIN pending /\ pending[i].batch = b
    BY DEF LegsOf
  <2>2. CASE Meant.kind = "CombinedLeg" /\ b = Meant.batch
    <3> DEFINE L == LegsOf(b)
               K == LegsOf(b)'
    <3>1. K = L \ {Answered} /\ Answered \in L
      BY <2>2, <1>3, <1>4 DEF LegsOf
    <3>2. /\ batches[b] = Cardinality(L) /\ batches[b] > 1 /\ batches[b] \in Nat
          /\ \A i, j \in L : pending[i].save = pending[j].save
          /\ \A i \in L : /\ told[pending[i].save] = <<>>
                          /\ todo[pending[i].save] \subseteq {pending[j].part : j \in L}
      BY <2>2, <1>1, <1>9 DEF BatchAccounting
    <3>3. IsFiniteSet(L)
      <4>1. L \subseteq 1..(nextId - 1) /\ nextId - 1 \in Nat
        BY <2>1, <1>1 DEF TypeOK
      <4>2. QED
        BY <4>1, FS_Interval, FS_Subset
    <3>4. Cardinality(K) = Cardinality(L) - 1
      BY <3>1, <3>3, FS_RemoveElement
    <3>5. /\ batches'[b] = batches[b] - 1 /\ told' = told /\ resps[1].kind = "ok"
      BY <2>2, <1>3
    <3>6. Meant.part \notin todo[Meant.save]
      BY <3>5, <1>1, <1>3 DEF Truthful
    <3>7. \A i \in K : pending'[i] = pending[i]
      BY <3>1, <1>4 DEF LegsOf
    <3> HIDE DEF L, K
    <3>8. ASSUME NEW i \in K
          PROVE  /\ told'[pending'[i].save] = <<>>
                 /\ todo'[pending'[i].save] \subseteq {pending'[j].part : j \in K}
      <4>1. pending[i].save = Meant.save /\ pending'[i] = pending[i]
        BY <3>1, <3>2, <3>7, <1>3
      <4>2. todo[Meant.save] \subseteq {pending[j].part : j \in L}
        BY <3>1, <3>2, <1>3
      <4>3. todo[Meant.save] \subseteq {pending[j].part : j \in K}
        BY <4>2, <3>1, <3>6, <1>3
      <4>4. {pending[j].part : j \in K} = {pending'[j].part : j \in K}
        BY <3>7
      <4>5. QED
        BY <4>1, <4>3, <4>4, <3>1, <3>2, <3>5, <1>2
    <3>9. \A i, j \in K : pending'[i].save = pending'[j].save
      BY <3>1, <3>2, <3>7
    <3>10. batches'[b] = Cardinality(K) /\ batches'[b] > 0
      BY <3>2, <3>4, <3>5
    <3>11. QED
      BY <3>8, <3>9, <3>10 DEF LegsAccounted, K
  <2>3. CASE ~(Meant.kind = "CombinedLeg" /\ b = Meant.batch)
    <3>1. Answered \notin LegsOf(b)
      BY <2>3, <1>3 DEF LegsOf
    <3>2. LegsOf(b)' = LegsOf(b)
      BY <3>1, <1>4 DEF LegsOf
    <3>3. ASSUME NEW i \in LegsOf(b)
          PROVE  /\ pending'[i] = pending[i] /\ told'[pending[i].save] = told[pending[i].save]
      <4>1. i \in DOMAIN pending' /\ pending'[i] = pending[i]
        BY <2>1, <3>1, <1>4
      <4>2. pending[i].save # Meant.save
        BY <4>1, <2>1, <2>3, <1>13
      <4>3. QED
        BY <4>1, <4>2, <2>1, <1>6, <1>8
    <3>4. b \in DOMAIN batches /\ batches'[b] = batches[b]
      BY <2>3
    <3>5. QED
      BY <3>2, <3>3, <3>4, <1>1, <1>2, BatchKept
  <2>4. QED
    BY <2>2, <2>3
<1>17. QED
  BY <1>10, <1>11, <1>12, <1>14, <1>15, <1>16 DEF FlowInv, Correlation

-----------------------------------------------------------------------------
(***************************************************************************)
(* The answer to a first write leads to the second.                        *)
(***************************************************************************)
LEMMA FollowUpStep ==
  ASSUME FlowInv, resps # <<>>, Head(resps).kind = "ok",
         Meant.kind \in {"RenameThenModify", "CompanionThenPrimary"},
         NEW op \in {"modify", "modrdn", "add", "atomic"}, NEW intent \in Intent,
         intent.kind \in {"Save", "PrimaryAfterCompanion"},
         intent.save = Meant.save, intent.part = 2, intent.batch = 0,
         FollowUp(op, FALSE, intent)
  PROVE  FlowInv'
<1>1. TypeOK /\ OneAnswerEach /\ SavesApart /\ Stages /\ Truthful /\ BatchAccounting
  BY DEF FlowInv, Correlation
<1>2. /\ resps' = Tail(resps) /\ Send(Taken, op, FALSE, intent)
      /\ batches' = batches /\ size' = size /\ todo' = todo /\ told' = told
  BY DEF FollowUp, histVars
<1>3. /\ Answered \in DOMAIN pending /\ Answered = resps[1].id /\ 1 \in 1..Len(resps)
      /\ Head(resps) = resps[1] /\ Meant = pending[Answered]
      /\ Meant \in Intent /\ Meant.save \in Saves
  BY <1>1, TakenFacts DEF Meant
<1>4. /\ DOMAIN Taken = DOMAIN pending \ {Answered}
      /\ \A i \in DOMAIN Taken : Taken[i] = pending[i]
      /\ resps' \in Seq(Response) /\ Distinct(resps') /\ Ids(resps') = Ids(resps) \ {Answered}
      /\ Answered \notin Ids(queue)
      /\ \A i \in 1..Len(resps') :
           /\ resps'[i] = resps[i + 1] /\ i + 1 \in 1..Len(resps)
           /\ resps[i + 1].id \in DOMAIN Taken
  BY <1>1, <1>2, TakenFacts
<1>5. DOMAIN Taken = Ids(queue) \cup Ids(resps') /\ Ids(queue) \cap Ids(resps') = {}
  BY <1>1, <1>4 DEF OneAnswerEach
<1>6. /\ nextId' = nextId + 1
      /\ DOMAIN pending' = DOMAIN Taken \cup {nextId}
      /\ pending'[nextId] = intent
      /\ \A i \in DOMAIN Taken : pending'[i] = pending[i]
      /\ pending' = [i \in DOMAIN pending' |-> pending'[i]]
      /\ queue' \in Seq(Request) /\ Len(queue') = Len(queue) + 1
      /\ queue'[Len(queue) + 1] = [id |-> nextId, op |-> op, asserted |-> FALSE]
      /\ \A i \in 1..Len(queue) : queue'[i] = queue[i]
      /\ OneAnswerEach'
  <2>1. DOMAIN Taken \subseteq DOMAIN pending
    BY <1>4
  <2>2. QED
    BY <2>1, <1>1, <1>2, <1>4, <1>5, SendStep
<1>7. /\ nextId' = nextId + 1
      /\ DOMAIN pending' = DOMAIN Taken \cup {nextId}
      /\ pending'[nextId] = intent
      /\ \A i \in DOMAIN Taken : pending'[i] = pending[i]
  BY <1>6
<1>8. /\ nextId \in Nat \ {0} /\ nextId \notin DOMAIN pending
      /\ \A i \in DOMAIN pending : i \in Nat \ {0} /\ i < nextId /\ pending[i] \in Intent
                                   /\ pending[i].save \in Saves
  BY <1>1, PendingFacts
<1>9. Saves' = Saves
  BY <1>2 DEF Saves
<1>10. ASSUME NEW i \in DOMAIN Taken PROVE pending[i].save # Meant.save
  BY <1>1, <1>3, <1>4 DEF SavesApart
<1>11. told[Meant.save] = <<>> /\ todo[Meant.save] \subseteq {2}
  <2>1. Meant.part \notin todo[Meant.save]
    BY <1>1, <1>3 DEF Truthful
  <2>2. /\ Meant.part = 1 /\ todo[Meant.save] \subseteq {1, 2} /\ told[Meant.save] = <<>>
    BY <1>1, <1>3 DEF Stages
  <2>3. QED
    BY <2>1, <2>2
<1>12. TypeOK'
  <2>1. DOMAIN pending' \subseteq 1..(nextId' - 1) /\ nextId' \in Nat \ {0}
    BY <1>4, <1>7, <1>8
  <2>2. \A i \in DOMAIN pending' : pending'[i] \in Intent /\ pending'[i].save \in Saves'
    BY <1>3, <1>4, <1>7, <1>8, <1>9
  <2>3. DOMAIN batches' \subseteq 1..(nextId' - 1) /\ batches' \in [DOMAIN batches' -> Nat]
    BY <1>1, <1>2, <1>7, <1>8 DEF TypeOK
  <2>4. /\ size' \in Seq(Nat) /\ todo' \in Seq(SUBSET Nat) /\ told' \in Seq(Seq(Report))
        /\ Len(todo') = Len(size') /\ Len(told') = Len(size')
    BY <1>1, <1>2 DEF TypeOK
  <2>5. QED
    BY <1>4, <1>6, <2>1, <2>2, <2>3, <2>4 DEF TypeOK
<1>13. SavesApart'
  BY <1>1, <1>4, <1>7, <1>8, <1>10 DEF SavesApart
<1>14. Stages'
  <2> SUFFICES ASSUME NEW i \in DOMAIN pending'
               PROVE  /\ pending'[i].kind # "CombinedLeg" => told[pending'[i].save] = <<>>
                      /\ pending'[i].kind \in {"Save", "Create", "PrimaryAfterCompanion"} =>
                           todo[pending'[i].save] \subseteq {pending'[i].part}
                      /\ pending'[i].kind \in {"RenameThenModify", "CompanionThenPrimary"} =>
                           pending'[i].part = 1 /\ todo[pending'[i].save] \subseteq {1, 2}
                      /\ pending'[i].kind = "PrimaryAfterCompanion" => pending'[i].part = 2
    BY <1>2 DEF Stages
  <2>1. CASE i \in DOMAIN Taken
    <3>1. i \in DOMAIN pending /\ pending'[i] = pending[i]
      BY <2>1, <1>4, <1>7
    <3>2. QED
      BY <3>1, <1>1 DEF Stages
  <2>2. CASE i = nextId
    BY <2>2, <1>7, <1>11
  <2>3. QED
    BY <2>1, <2>2, <1>7
<1>15. Truthful'
  <2>1. \A i \in 1..Len(queue) : queue[i].id \in DOMAIN Taken
    BY <1>5 DEF Ids
  <2>2. /\ Len(queue) \in Nat /\ Len(queue') = Len(queue) + 1
        /\ ~queue'[Len(queue) + 1].asserted
        /\ \A i \in 1..Len(queue) : queue'[i] = queue[i]
    BY <1>1, <1>6 DEF TypeOK
  <2>3. ASSUME NEW i \in 1..Len(queue'), queue'[i].asserted
        PROVE  \/ pending'[queue'[i].id].kind = "CombinedLeg"
               \/ /\ pending'[queue'[i].id].kind = "Save"
                  /\ todo[pending'[queue'[i].id].save] = 1..size[pending'[queue'[i].id].save]
    <3>1. i \in 1..Len(queue)
      BY <2>2, <2>3
    <3>2. QED
      BY <3>1, <2>1, <2>2, <2>3, <1>1, <1>4, <1>7 DEF Truthful, Untouched
  <2>4. ASSUME NEW i \in 1..Len(resps')
        PROVE  /\ resps'[i].kind = "ok" =>
                    pending'[resps'[i].id].part \notin todo[pending'[resps'[i].id].save]
               /\ resps'[i].kind = "conflict" =>
                    \/ pending'[resps'[i].id].kind = "CombinedLeg"
                    \/ /\ pending'[resps'[i].id].kind = "Save"
                       /\ todo[pending'[resps'[i].id].save] = 1..size[pending'[resps'[i].id].save]
    BY <1>1, <1>4, <1>7 DEF Truthful, Untouched
  <2>5. QED
    BY <2>3, <2>4, <1>2 DEF Truthful, Untouched
<1>16. BatchAccounting'
  <2> SUFFICES ASSUME NEW b \in DOMAIN batches PROVE LegsAccounted(b)'
    BY <1>2 DEF BatchAccounting, LegsAccounted
  <2>1. \A i \in LegsOf(b) : i \in DOMAIN Taken
    BY <1>3, <1>4 DEF LegsOf
  <2>2. LegsOf(b)' = LegsOf(b)
    BY <2>1, <1>4, <1>7, <1>8 DEF LegsOf
  <2>3. QED
    BY <2>1, <2>2, <1>1, <1>2, <1>7, BatchKept
<1>17. QED
  BY <1>6, <1>12, <1>13, <1>14, <1>15, <1>16 DEF FlowInv, Correlation

-----------------------------------------------------------------------------
(***************************************************************************)
(* The legs of a membership save, all sent at once under a new batch.      *)
(***************************************************************************)
LEMMA IdsOfConcat ==
  ASSUME NEW R, NEW s \in Seq(R), NEW t \in Seq(R),
         Distinct(s), Distinct(t), Ids(s) \cap Ids(t) = {}
  PROVE  Ids(s \o t) = Ids(s) \cup Ids(t) /\ Distinct(s \o t)
<1> DEFINE u == s \o t
<1>1. /\ Len(s) \in Nat /\ Len(t) \in Nat /\ Len(u) = Len(s) + Len(t)
      /\ \A i \in 1..Len(s) : u[i] = s[i]
      /\ \A i \in 1..Len(u) : i > Len(s) => u[i] = t[i - Len(s)]
  OBVIOUS
<1> HIDE DEF u
<1>2. \A i \in 1..Len(u) : \/ i \in 1..Len(s) /\ u[i] = s[i]
                           \/ i - Len(s) \in 1..Len(t) /\ u[i] = t[i - Len(s)]
  BY <1>1
<1>3. \A j \in 1..Len(t) : j + Len(s) \in 1..Len(u) /\ u[j + Len(s)] = t[j]
  <2> TAKE j \in 1..Len(t)
  <2>1. j + Len(s) \in 1..Len(u) /\ j + Len(s) > Len(s) /\ (j + Len(s)) - Len(s) = j
    BY <1>1
  <2>2. QED
    BY <2>1, <1>1
<1>4. \A i \in 1..Len(s) : i \in 1..Len(u) /\ u[i] = s[i]
  BY <1>1
<1>5. Ids(u) = Ids(s) \cup Ids(t)
  <2>1. Ids(u) \subseteq Ids(s) \cup Ids(t)
    BY <1>2 DEF Ids
  <2>2. Ids(s) \subseteq Ids(u)
    BY <1>4 DEF Ids
  <2>3. Ids(t) \subseteq Ids(u)
    BY <1>3 DEF Ids
  <2>4. QED
    BY <2>1, <2>2, <2>3
<1>6. ASSUME NEW i \in 1..Len(u), NEW j \in 1..Len(u), u[i].id = u[j].id PROVE i = j
  <2>1. CASE i \in 1..Len(s) /\ j \in 1..Len(s)
    BY <2>1, <1>4, <1>6 DEF Distinct
  <2>2. CASE i \notin 1..Len(s) /\ j \notin 1..Len(s)
    <3>1. i - Len(s) \in 1..Len(t) /\ j - Len(s) \in 1..Len(t)
          /\ t[i - Len(s)].id = t[j - Len(s)].id
      BY <2>2, <1>2, <1>6
    <3>2. i - Len(s) = j - Len(s)
      BY <3>1 DEF Distinct
    <3>3. QED
      BY <3>2, <1>1
  <2>3. ASSUME NEW k \in 1..Len(u), NEW l \in 1..Len(u), k \in 1..Len(s), l \notin 1..Len(s)
        PROVE  u[k].id # u[l].id
    <3>1. u[k].id \in Ids(s)
      BY <2>3, <1>4 DEF Ids
    <3>2. u[l].id \in Ids(t)
      BY <2>3, <1>2 DEF Ids
    <3>3. QED
      BY <3>1, <3>2
  <2>4. QED
    BY <2>1, <2>2, <2>3, <1>6
<1>7. QED
  BY <1>5, <1>6 DEF Distinct, u

LEMMA BatchedIntent ==
  ASSUME NEW m \in Intent, NEW b \in Nat
  PROVE  /\ [m EXCEPT !.batch = b] \in Intent
         /\ [m EXCEPT !.batch = b].kind = m.kind /\ [m EXCEPT !.batch = b].save = m.save
         /\ [m EXCEPT !.batch = b].part = m.part /\ [m EXCEPT !.batch = b].batch = b
  BY DEF Intent

LEMMA CombinedStep ==
  ASSUME FlowInv, NEW n \in Nat \ {0}, NEW known \in SUBSET (1..n), SubmitCombined(n, known)
  PROVE  FlowInv'
<1> DEFINE legs == [p \in 1..n |-> [id |-> nextId + p - 1, op |-> "modify",
                                    asserted |-> p \in known]]
           new == nextId..(nextId + n - 1)
           leg(i) == [Means("CombinedLeg", Fresh, i - nextId + 1) EXCEPT !.batch = nextId]
<1>1. TypeOK /\ OneAnswerEach /\ SavesApart /\ Stages /\ Truthful /\ BatchAccounting
  BY DEF FlowInv, Correlation
<1>2. /\ NewSave(n) /\ queue' = queue \o legs
      /\ pending' = Extend(pending, [i \in new |-> leg(i)])
      /\ batches' = Extend(batches, [b \in {nextId} |-> n])
      /\ nextId' = nextId + n /\ resps' = resps
  BY DEF SubmitCombined, Alloc
<1>3. /\ Fresh \notin Saves /\ Saves' = Saves \cup {Fresh} /\ Fresh \in Nat
      /\ size' \in Seq(Nat) /\ todo' \in Seq(SUBSET Nat) /\ told' \in Seq(Seq(Report))
      /\ Len(todo') = Len(size') /\ Len(told') = Len(size')
      /\ size'[Fresh] = n /\ todo'[Fresh] = 1..n /\ told'[Fresh] = <<>>
      /\ \A s \in Saves : size'[s] = size[s] /\ todo'[s] = todo[s] /\ told'[s] = told[s]
  BY <1>1, <1>2, NewSaveFacts
<1>4. /\ nextId \in Nat \ {0} /\ nextId \notin DOMAIN pending
      /\ \A i \in DOMAIN pending : i \in Nat \ {0} /\ i < nextId /\ pending[i] \in Intent
                                   /\ pending[i].save \in Saves
  BY <1>1, PendingFacts
<1>5. \A i \in new : /\ leg(i) \in Intent /\ leg(i).kind = "CombinedLeg" /\ leg(i).save = Fresh
                     /\ leg(i).batch = nextId /\ leg(i).part = i - nextId + 1
                     /\ i \in Nat \ {0} /\ i < nextId + n
  <2> TAKE i \in new
  <2> DEFINE m == Means("CombinedLeg", Fresh, i - nextId + 1)
  <2>1. i \in Nat \ {0} /\ i < nextId + n /\ i - nextId + 1 \in Nat
    BY <1>4
  <2>2. /\ m \in Intent /\ m.kind = "CombinedLeg" /\ m.save = Fresh /\ m.part = i - nextId + 1
    BY <2>1, <1>3 DEF Means, Intent
  <2>3. leg(i) = [m EXCEPT !.batch = nextId]
    OBVIOUS
  <2> HIDE DEF m, leg
  <2>4. QED
    BY <2>1, <2>2, <2>3, <1>4, BatchedIntent
<1>6. new \cap DOMAIN pending = {}
  BY <1>4
<1> HIDE DEF leg
<1>7. /\ DOMAIN pending' = DOMAIN pending \cup new
      /\ \A i \in new : pending'[i] = leg(i)
      /\ \A i \in DOMAIN pending : pending'[i] = pending[i]
      /\ pending' = [i \in DOMAIN pending' |-> pending'[i]]
  BY <1>2, <1>6 DEF Extend
<1>8. nextId \notin DOMAIN batches
  BY <1>1 DEF TypeOK
<1>9. /\ DOMAIN batches' = DOMAIN batches \cup {nextId}
      /\ batches'[nextId] = n
      /\ \A b \in DOMAIN batches : batches'[b] = batches[b]
      /\ batches' = [b \in DOMAIN batches' |-> batches'[b]]
  BY <1>2, <1>8 DEF Extend
<1>10. /\ legs \in Seq(Request) /\ Len(legs) = n
       /\ \A p \in 1..n : legs[p].id = nextId + p - 1
  <2>1. \A p \in 1..n : [id |-> nextId + p - 1, op |-> "modify", asserted |-> p \in known] \in Request
    BY <1>4 DEF Request
  <2>2. QED
    BY <2>1
<1> HIDE DEF legs
<1>11. Ids(legs) = new /\ Distinct(legs)
  <2>1. Ids(legs) \subseteq new
    BY <1>4, <1>10 DEF Ids
  <2>2. ASSUME NEW i \in new PROVE i \in Ids(legs)
    <3>1. i - nextId + 1 \in 1..n /\ nextId + (i - nextId + 1) - 1 = i
      BY <1>4
    <3>2. QED
      BY <3>1, <1>10 DEF Ids
  <2>3. ASSUME NEW p \in 1..n, NEW q \in 1..n, legs[p].id = legs[q].id PROVE p = q
    <3>1. nextId + p - 1 = nextId + q - 1
      BY <2>3, <1>10
    <3>2. QED
      BY <3>1, <1>4
  <2>4. QED
    BY <2>1, <2>2, <2>3, <1>10 DEF Distinct
<1>12. /\ queue \in Seq(Request) /\ Distinct(queue) /\ Ids(queue) \subseteq DOMAIN pending
       /\ Len(queue) \in Nat
  BY <1>1 DEF TypeOK, OneAnswerEach
<1>13. Ids(queue') = Ids(queue) \cup new /\ Distinct(queue')
  <2>1. Ids(queue) \cap Ids(legs) = {}
    BY <1>6, <1>11, <1>12
  <2>2. QED
    <3>1. Ids(queue \o legs) = Ids(queue) \cup Ids(legs) /\ Distinct(queue \o legs)
      BY <2>1, <1>10, <1>11, <1>12, IdsOfConcat
    <3>2. QED
      BY <3>1, <1>2, <1>11
<1>14. queue' \in Seq(Request)
  BY <1>2, <1>10, <1>12
<1>15. \A i \in 1..Len(queue') : \/ i \in 1..Len(queue) /\ queue'[i] = queue[i]
                                 \/ queue'[i].id \in new
  <2>1. \A i \in 1..Len(queue') : \/ i \in 1..Len(queue) /\ queue'[i] = queue[i]
                                  \/ i - Len(queue) \in 1..Len(legs) /\ queue'[i] = legs[i - Len(queue)]
    BY <1>2, <1>10, <1>12
  <2>2. \A p \in 1..Len(legs) : legs[p].id \in new
    BY <1>11 DEF Ids
  <2>3. QED
    BY <2>1, <2>2
<1> HIDE DEF new
<1>16. \A i \in DOMAIN pending :
         LET s == pending[i].save
         IN  /\ pending'[i] = pending[i] /\ s \in Saves
             /\ size'[s] = size[s] /\ todo'[s] = todo[s] /\ told'[s] = told[s]
  BY <1>3, <1>4, <1>7
<1>17. TypeOK'
  <2>1. DOMAIN pending' \subseteq 1..(nextId' - 1) /\ nextId' \in Nat \ {0}
    <3>1. ASSUME NEW i \in DOMAIN pending' PROVE i \in Nat \ {0} /\ i < nextId + n
      BY <1>4, <1>5, <1>7
    <3>2. QED
      BY <3>1, <1>2, <1>4
  <2>2. \A i \in DOMAIN pending' : pending'[i] \in Intent /\ pending'[i].save \in Saves'
    <3>1. Saves' = Saves \cup {Fresh}
      BY <1>3
    <3>2. QED
      BY <3>1, <1>4, <1>5, <1>7
  <2>3. DOMAIN batches' \subseteq 1..(nextId' - 1)
    <3>1. \A b \in DOMAIN batches : b \in Nat \ {0} /\ b < nextId
      BY <1>1, <1>4 DEF TypeOK
    <3>2. \A b \in DOMAIN batches' : b \in DOMAIN batches \/ b = nextId
      BY <1>9
    <3>3. nextId' = nextId + n
      BY <1>2
    <3>4. QED
      BY <3>1, <3>2, <3>3, <1>4
  <2>4. \A b \in DOMAIN batches' : batches'[b] \in Nat
    BY <1>1, <1>9 DEF TypeOK
  <2>5. batches' \in [DOMAIN batches' -> Nat]
    BY <2>4, <1>9
  <2>6. resps' \in Seq(Response)
    BY <1>1, <1>2 DEF TypeOK
  <2>7. QED
    BY <1>3, <1>7, <1>14, <2>1, <2>2, <2>3, <2>5, <2>6 DEF TypeOK
<1>18. OneAnswerEach'
  <2>1. DOMAIN pending' = Ids(queue') \cup Ids(resps)
    BY <1>1, <1>7, <1>13 DEF OneAnswerEach
  <2>2. Ids(queue') \cap Ids(resps) = {}
    BY <1>1, <1>6, <1>13 DEF OneAnswerEach
  <2>3. \A i \in DOMAIN pending' : pending'[i].batch < nextId'
    <3>1. \A i \in DOMAIN pending : pending[i].batch < nextId /\ pending[i].batch \in Nat
      BY <1>1 DEF OneAnswerEach, TypeOK, Intent
    <3>2. \A i \in new : pending'[i].batch = nextId
      BY <1>5, <1>7
    <3>3. nextId' = nextId + n
      BY <1>2
    <3>4. QED
      BY <3>1, <3>2, <3>3, <1>4, <1>7
  <2>4. QED
    BY <2>1, <2>2, <2>3, <1>1, <1>2, <1>13 DEF OneAnswerEach
<1>19. SavesApart'
  <2> SUFFICES ASSUME NEW i \in DOMAIN pending', NEW j \in DOMAIN pending',
                      pending'[i].save = pending'[j].save, i # j
               PROVE  /\ pending'[i].kind = "CombinedLeg" /\ pending'[j].kind = "CombinedLeg"
                      /\ pending'[i].batch = pending'[j].batch
    BY DEF SavesApart
  <2>1. Fresh \notin Saves
    BY <1>3
  <2>2. CASE i \in DOMAIN pending /\ j \in DOMAIN pending
    BY <2>2, <1>1, <1>7 DEF SavesApart
  <2>3. CASE i \in new /\ j \in new
    BY <2>3, <1>5, <1>7
  <2>4. i \in DOMAIN pending \cup new /\ j \in DOMAIN pending \cup new
    BY <1>7
  <2>5. \A k \in DOMAIN pending : pending'[k].save # Fresh
    BY <2>1, <1>4, <1>7
  <2>6. \A k \in new : pending'[k].save = Fresh
    BY <1>5, <1>7
  <2>7. QED
    BY <2>2, <2>3, <2>4, <2>5, <2>6
<1>20. Stages'
  <2> SUFFICES ASSUME NEW i \in DOMAIN pending'
               PROVE  /\ pending'[i].kind # "CombinedLeg" => told'[pending'[i].save] = <<>>
                      /\ pending'[i].kind \in {"Save", "Create", "PrimaryAfterCompanion"} =>
                           todo'[pending'[i].save] \subseteq {pending'[i].part}
                      /\ pending'[i].kind \in {"RenameThenModify", "CompanionThenPrimary"} =>
                           pending'[i].part = 1 /\ todo'[pending'[i].save] \subseteq {1, 2}
                      /\ pending'[i].kind = "PrimaryAfterCompanion" => pending'[i].part = 2
    BY DEF Stages
  <2>1. CASE i \in DOMAIN pending
    <3>1. i \in DOMAIN pending /\ Stages
      BY <2>1, <1>1
    <3>2. QED
      BY <3>1, <1>16 DEF Stages
  <2>2. CASE i \in new
    BY <2>2, <1>5, <1>7
  <2>3. QED
    BY <2>1, <2>2, <1>7
<1>21. Truthful'
  <2>1. \A i \in 1..Len(queue) : queue[i].id \in DOMAIN pending
    BY <1>12 DEF Ids
  <2>2. \A i \in 1..Len(resps) : resps[i].id \in DOMAIN pending
    BY <1>1 DEF OneAnswerEach, Ids
  <2>3. ASSUME NEW i \in 1..Len(queue'), queue'[i].asserted
        PROVE  \/ pending'[queue'[i].id].kind = "CombinedLeg"
               \/ /\ pending'[queue'[i].id].kind = "Save"
                  /\ todo'[pending'[queue'[i].id].save] = 1..size'[pending'[queue'[i].id].save]
    <3>1. CASE i \in 1..Len(queue) /\ queue'[i] = queue[i]
      BY <2>1, <2>3, <3>1, <1>1, <1>16 DEF Truthful, Untouched
    <3>2. CASE queue'[i].id \in new
      BY <3>2, <1>5, <1>7
    <3>3. QED
      BY <3>1, <3>2, <1>15
  <2>4. ASSUME NEW i \in 1..Len(resps)
        PROVE  /\ resps[i].kind = "ok" =>
                    pending'[resps[i].id].part \notin todo'[pending'[resps[i].id].save]
               /\ resps[i].kind = "conflict" =>
                    \/ pending'[resps[i].id].kind = "CombinedLeg"
                    \/ /\ pending'[resps[i].id].kind = "Save"
                       /\ todo'[pending'[resps[i].id].save] = 1..size'[pending'[resps[i].id].save]
    BY <2>2, <1>1, <1>16 DEF Truthful, Untouched
  <2>5. QED
    BY <2>3, <2>4, <1>2 DEF Truthful, Untouched
<1>22. BatchAccounting'
  <2> SUFFICES ASSUME NEW b \in DOMAIN batches' PROVE LegsAccounted(b)'
    BY DEF BatchAccounting, LegsAccounted
  <2>1. CASE b \in DOMAIN batches
    <3>1. b # nextId
      BY <2>1, <1>8
    <3>2. LegsOf(b)' = LegsOf(b)
      BY <3>1, <1>5, <1>7 DEF LegsOf
    <3>3. \A i \in LegsOf(b) : i \in DOMAIN pending
      BY DEF LegsOf
    <3>4. QED
      BY <2>1, <3>2, <3>3, <1>1, <1>9, <1>16, BatchKept
  <2>2. CASE b = nextId
    <3>1. LegsOf(b)' = new
      <4>1. \A i \in DOMAIN pending : pending[i].batch # nextId
        BY <1>1, <1>4 DEF OneAnswerEach, TypeOK, Intent
      <4>2. QED
        BY <2>2, <4>1, <1>5, <1>7 DEF LegsOf
    <3>2. Cardinality(new) = n
      <4>1. nextId \in Int /\ nextId + n - 1 \in Int /\ nextId <= nextId + n - 1
        BY <1>4
      <4>2. (nextId + n - 1) - nextId + 1 = n
        BY <1>4
      <4>3. QED
        BY <4>1, <4>2, FS_Interval DEF new
    <3>3. \A i \in new : pending'[i].save = Fresh /\ pending'[i].part = i - nextId + 1
      BY <1>5, <1>7
    <3>4. todo'[Fresh] \subseteq {pending'[j].part : j \in new}
      <4> SUFFICES ASSUME NEW p \in 1..n PROVE p \in {pending'[j].part : j \in new}
        BY <1>3
      <4>1. nextId + p - 1 \in new /\ (nextId + p - 1) - nextId + 1 = p
        BY <1>4 DEF new
      <4>2. QED
        BY <4>1, <3>3
    <3>5. told'[Fresh] = <<>> /\ batches'[b] = n /\ n > 0
      BY <2>2, <1>3, <1>9
    <3>6. QED
      BY <3>1, <3>2, <3>3, <3>4, <3>5 DEF LegsAccounted
  <2>3. QED
    BY <2>1, <2>2, <1>9
<1>23. QED
  BY <1>17, <1>18, <1>19, <1>20, <1>21, <1>22 DEF FlowInv, Correlation

-----------------------------------------------------------------------------
(***************************************************************************)
(* Every step keeps the invariant.                                         *)
(***************************************************************************)
LEMMA PlainFacts ==
  ASSUME NEW k \in {"success", "conflict", "error"}, NEW b \in BOOLEAN
  PROVE  /\ Plain(k) \in Report /\ Plain(k).kind = k
         /\ [Plain(k) EXCEPT !.renamed = b] \in Report /\ [Plain(k) EXCEPT !.renamed = b].kind = k
         /\ [Plain(k) EXCEPT !.orphan = b] \in Report /\ [Plain(k) EXCEPT !.orphan = b].kind = k
<1> DEFINE p == Plain(k)
<1>1. p \in Report /\ p.kind = k
  BY DEF Plain, Report
<1> HIDE DEF p
<1>2. /\ [p EXCEPT !.renamed = b] \in Report /\ [p EXCEPT !.renamed = b].kind = k
      /\ [p EXCEPT !.orphan = b] \in Report /\ [p EXCEPT !.orphan = b].kind = k
  BY <1>1 DEF Report
<1>3. QED
  BY <1>1, <1>2 DEF p

LEMMA MeansFacts ==
  ASSUME NEW k \in {"Save", "RenameThenModify", "Create", "CompanionThenPrimary",
                    "PrimaryAfterCompanion"},
         NEW s \in Nat, NEW q \in Nat, NEW m,
         m = Means(k, s, q) \/ m = [Means(k, s, q) EXCEPT !.renamed = TRUE]
  PROVE  m \in Intent /\ m.kind = k /\ m.save = s /\ m.part = q /\ m.batch = 0
<1> DEFINE o == Means(k, s, q)
<1>1. o \in Intent /\ o.kind = k /\ o.save = s /\ o.part = q /\ o.batch = 0
  BY DEF Means, Intent
<1>2. m = o \/ m = [o EXCEPT !.renamed = TRUE]
  OBVIOUS
<1> HIDE DEF o
<1>3. QED
  BY <1>1, <1>2 DEF Intent

LEMMA BatchOfMeant ==
  ASSUME FlowInv, resps # <<>>, Meant.kind = "CombinedLeg"
  PROVE  Live(Meant.batch) => Answered \in LegsOf(Meant.batch)
  BY TakenFacts DEF FlowInv, Correlation, LegsOf, Meant

LEMMA SubmitStep ==
  ASSUME FlowInv, Submit
  PROVE  FlowInv'
<1>1. Fresh \in Nat
  BY DEF FlowInv, TypeOK, Fresh
<1>2. ASSUME NEW asserted \in BOOLEAN, SubmitModify(asserted) PROVE FlowInv'
  <2> DEFINE m == Means("Save", Fresh, 1)
  <2>1. m \in Intent /\ m.kind = "Save" /\ m.save = Fresh /\ m.part = 1 /\ m.batch = 0
    BY <1>1, MeansFacts
  <2>2. Alone(1, "modify", asserted, m)
    BY <1>2 DEF SubmitModify
  <2> HIDE DEF m
  <2>3. QED
    BY <2>1, <2>2, AloneStep
<1>3. CASE SubmitRenameOnly
  <2> DEFINE m == [Means("Save", Fresh, 1) EXCEPT !.renamed = TRUE]
  <2>1. m \in Intent /\ m.kind = "Save" /\ m.save = Fresh /\ m.part = 1 /\ m.batch = 0
    BY <1>1, MeansFacts
  <2>2. Alone(1, "modrdn", FALSE, m)
    BY <1>3 DEF SubmitRenameOnly
  <2> HIDE DEF m
  <2>3. QED
    BY <2>1, <2>2, AloneStep
<1>4. CASE SubmitRename
  <2> DEFINE m == Means("RenameThenModify", Fresh, 1)
  <2>1. m \in Intent /\ m.kind = "RenameThenModify" /\ m.save = Fresh /\ m.part = 1 /\ m.batch = 0
    BY <1>1, MeansFacts
  <2>2. Alone(2, "modrdn", FALSE, m)
    BY <1>4 DEF SubmitRename
  <2> HIDE DEF m
  <2>3. QED
    BY <2>1, <2>2, AloneStep
<1>5. CASE SubmitCreate \/ SubmitCreateAtomic
  <2> DEFINE m == Means("Create", Fresh, 1)
  <2>1. m \in Intent /\ m.kind = "Create" /\ m.save = Fresh /\ m.part = 1 /\ m.batch = 0
    BY <1>1, MeansFacts
  <2>2. Alone(1, "add", FALSE, m) \/ Alone(1, "atomic", FALSE, m)
    BY <1>5 DEF SubmitCreate, SubmitCreateAtomic
  <2> HIDE DEF m
  <2>3. QED
    BY <2>1, <2>2, AloneStep
<1>6. CASE SubmitCreateWithCompanion
  <2> DEFINE m == Means("CompanionThenPrimary", Fresh, 1)
  <2>1. m \in Intent /\ m.kind = "CompanionThenPrimary" /\ m.save = Fresh /\ m.part = 1
        /\ m.batch = 0
    BY <1>1, MeansFacts
  <2>2. Alone(2, "add", FALSE, m)
    BY <1>6 DEF SubmitCreateWithCompanion
  <2> HIDE DEF m
  <2>3. QED
    BY <2>1, <2>2, AloneStep
<1>7. ASSUME NEW n \in 1..MaxLegs, NEW known \in SUBSET (1..n), SubmitCombined(n, known)
      PROVE  FlowInv'
  <2>1. n \in Nat \ {0}
    BY WriteFlowAssumption
  <2>2. QED
    BY <2>1, <1>7, CombinedStep
<1>8. QED
  BY <1>2, <1>3, <1>4, <1>5, <1>6, <1>7 DEF Submit

LEMMA WorkerStep ==
  ASSUME FlowInv, Worker
  PROVE  FlowInv'
<1>1. CASE WorkerWrites
  BY <1>1, ServeStep DEF WorkerWrites
<1>2. CASE WorkerConflict
  BY <1>2, ServeStep DEF WorkerConflict
<1>3. CASE WorkerRefuses
  BY <1>3, ServeStep DEF WorkerRefuses
<1>4. CASE WorkerLosesAnswer
  BY <1>4, ServeStep DEF WorkerLosesAnswer
<1>5. QED
  BY <1>1, <1>2, <1>3, <1>4 DEF Worker

\* an answer that closes a write that is no leg
LEMMA PlainCloseStep ==
  ASSUME FlowInv, resps # <<>>, Meant.kind # "CombinedLeg",
         NEW r \in Report, Tell(r), Close, UNCHANGED batches
  PROVE  FlowInv'
<1>1. batches' = [b \in DOMAIN batches' |-> batches'[b]]
  BY DEF FlowInv, TypeOK
<1>2. QED
  BY <1>1, CloseStep

LEMMA LegStep ==
  ASSUME FlowInv, OnLeg \/ OnLegRefused
  PROVE  FlowInv'
<1> DEFINE b == Meant.batch
<1>1. /\ batches \in [DOMAIN batches -> Nat]
      /\ resps # <<>> /\ Meant.kind = "CombinedLeg" /\ Close
  BY DEF FlowInv, TypeOK, OnLeg, OnLegRefused, Polled
<1>2. ASSUME batches' = Without(batches, b), told' = told \/ \E r \in Report : Tell(r)
      PROVE  FlowInv'
  <2>1. /\ DOMAIN batches' = DOMAIN batches \ {b}
        /\ \A c \in DOMAIN batches' : batches'[c] = batches[c]
        /\ batches' = [c \in DOMAIN batches' |-> batches'[c]]
    BY <1>2 DEF Without
  <2>2. QED
    BY <2>1, <1>1, <1>2, CloseStep
<1>3. CASE OnLegRefused
  <2>1. batches' = Without(batches, b) /\ Tell(Plain("error"))
    BY <1>3 DEF OnLegRefused, BatchAborted
  <2>2. QED
    BY <2>1, <1>2, PlainFacts
<1>4. CASE OnLeg
  <2>1. CASE batches' = Without(batches, b) /\ Tell(Plain("success"))
    BY <2>1, <1>2, PlainFacts
  <2>2. CASE Live(b) /\ batches[b] # 1 /\ batches' = [batches EXCEPT ![b] = @ - 1] /\ told' = told
    <3>1. /\ DOMAIN batches' = DOMAIN batches
          /\ batches'[b] = batches[b] - 1
          /\ \A c \in DOMAIN batches : c # b => batches'[c] = batches[c]
          /\ batches' = [c \in DOMAIN batches' |-> batches'[c]]
      BY <2>2, <1>1 DEF Live
    <3>2. Head(resps).kind = "ok"
      BY <1>4 DEF OnLeg, Polled
    <3>3. QED
      BY <2>2, <3>1, <3>2, <1>1, CloseStep
  <2>3. CASE ~Live(b) /\ batches' = batches /\ told' = told
    <3>1. batches' = [c \in DOMAIN batches' |-> batches'[c]] /\ b \notin DOMAIN batches'
      BY <2>3, <1>1 DEF Live
    <3>2. QED
      BY <2>3, <3>1, <1>1, CloseStep
  <2>4. QED
    BY <1>4, <2>1, <2>2, <2>3 DEF OnLeg
<1>5. QED
  BY <1>3, <1>4

LEMMA ResponseStep ==
  ASSUME FlowInv, OnResponse
  PROVE  FlowInv'
<1>1. CASE OnSaved
  <2> DEFINE r == [Plain("success") EXCEPT !.renamed = Meant.renamed]
  <2>1. resps # <<>> /\ Meant.kind # "CombinedLeg" /\ Tell(r) /\ Close /\ UNCHANGED batches
    BY <1>1 DEF OnSaved, Polled
  <2>2. Meant.renamed \in BOOLEAN
    BY <2>1, TakenFacts DEF FlowInv, Correlation, Intent
  <2>3. r \in Report
    BY <2>2, PlainFacts
  <2> HIDE DEF r
  <2>4. QED
    BY <2>1, <2>3, PlainCloseStep
<1>2. CASE OnCreated
  BY <1>2, PlainFacts, PlainCloseStep DEF OnCreated, Polled
<1>3. CASE OnConflict
  BY <1>3, PlainFacts, PlainCloseStep DEF OnConflict, Polled
<1>4. CASE OnError
  <2> DEFINE r == [Plain("error") EXCEPT !.orphan = Meant.kind = "PrimaryAfterCompanion"]
  <2>1. resps # <<>> /\ Meant.kind # "CombinedLeg" /\ Tell(r) /\ Close /\ UNCHANGED batches
    BY <1>4 DEF OnError, Polled
  <2>2. r \in Report
    BY PlainFacts
  <2> HIDE DEF r
  <2>3. QED
    BY <2>1, <2>2, PlainCloseStep
<1>5. CASE OnLeg \/ OnLegRefused
  BY <1>5, LegStep
<1>6. CASE OnRenamed
  <2> DEFINE m == [Means("Save", Meant.save, 2) EXCEPT !.renamed = TRUE]
  <2>1. /\ resps # <<>> /\ Head(resps).kind = "ok" /\ Meant.kind = "RenameThenModify"
        /\ FollowUp("modify", FALSE, m)
    BY <1>6 DEF OnRenamed, Polled
  <2>2. Meant.save \in Nat
    BY <2>1, TakenFacts DEF FlowInv, Correlation, Intent
  <2>3. m \in Intent /\ m.kind = "Save" /\ m.save = Meant.save /\ m.part = 2 /\ m.batch = 0
    BY <2>2, MeansFacts
  <2> HIDE DEF m
  <2>4. QED
    BY <2>1, <2>3, FollowUpStep
<1>7. CASE OnCompanion
  <2> DEFINE m == Means("PrimaryAfterCompanion", Meant.save, 2)
  <2>1. /\ resps # <<>> /\ Head(resps).kind = "ok" /\ Meant.kind = "CompanionThenPrimary"
        /\ FollowUp("add", FALSE, m)
    BY <1>7 DEF OnCompanion, Polled
  <2>2. Meant.save \in Nat
    BY <2>1, TakenFacts DEF FlowInv, Correlation, Intent
  <2>3. m \in Intent /\ m.kind = "PrimaryAfterCompanion" /\ m.save = Meant.save /\ m.part = 2
        /\ m.batch = 0
    BY <2>2, MeansFacts
  <2> HIDE DEF m
  <2>4. QED
    BY <2>1, <2>3, FollowUpStep
<1>8. QED
  BY <1>1, <1>2, <1>3, <1>4, <1>5, <1>6, <1>7 DEF OnResponse

LEMMA FlowStep ==
  ASSUME FlowInv, [Next]_vars
  PROVE  FlowInv'
<1>1. CASE UNCHANGED vars
  <2>1. /\ UNCHANGED <<nextId, pending, batches, queue, resps, size, todo, told>>
    BY <1>1 DEF vars, flowVars, histVars
  <2>2. TypeOK'
    BY <2>1 DEF FlowInv, TypeOK, Saves
  <2>3. BatchAccounting'
    BY <2>1 DEF FlowInv, BatchAccounting, LegsOf
  <2>4. Correlation'
    BY <2>1 DEF FlowInv, Correlation, OneAnswerEach, SavesApart, Stages, Truthful, Untouched
  <2>5. QED
    BY <2>2, <2>3, <2>4 DEF FlowInv
<1>2. QED
  BY <1>1, SubmitStep, WorkerStep, ResponseStep DEF Next

LEMMA FlowInit == Init => FlowInv
<1> SUFFICES ASSUME Init PROVE FlowInv
  OBVIOUS
<1>1. TypeOK
  BY DEF Init, TypeOK, Saves
<1>2. BatchAccounting
  BY DEF Init, BatchAccounting
<1>3. OneAnswerEach
  BY DEF Init, OneAnswerEach, Ids, Distinct
<1>4. SavesApart /\ Stages /\ Truthful
  BY DEF Init, SavesApart, Stages, Truthful
<1>5. QED
  BY <1>1, <1>2, <1>3, <1>4 DEF FlowInv, Correlation

LEMMA FlowAlways == Spec => []FlowInv
<1>1. Init => FlowInv
  BY FlowInit
<1>2. FlowInv /\ [Next]_vars => FlowInv'
  BY FlowStep
<1>3. QED
  BY <1>1, <1>2, PTL DEF Spec

(***************************************************************************)
(* Type correctness of the write flow.                                     *)
(***************************************************************************)
THEOREM FlowTypeCorrect == Spec => []TypeOK
<1>1. FlowInv => TypeOK
  BY DEF FlowInv
<1>2. QED
  BY <1>1, FlowAlways, PTL

(***************************************************************************)
(* A live batch's counter is the number of answers still to come, whatever *)
(* else shares the id space (submit_combined and on_response).             *)
(***************************************************************************)
THEOREM BatchesCorrect == Spec => []BatchAccounting
<1>1. FlowInv => BatchAccounting
  BY DEF FlowInv
<1>2. QED
  BY <1>1, FlowAlways, PTL

(***************************************************************************)
(* Requests, intents and answers agree: every answer finds its own intent, *)
(* once, and tells the truth about what has landed.                        *)
(***************************************************************************)
THEOREM AnswersCorrelate == Spec => []Correlation
<1>1. FlowInv => Correlation
  BY DEF FlowInv
<1>2. QED
  BY <1>1, FlowAlways, PTL

-----------------------------------------------------------------------------
(***************************************************************************)
(* The refinement: what each step is to SavePromise.                       *)
(***************************************************************************)
Kinds == {"open", "success", "conflict", "error"}

LEMMA OutcomeType ==
  ASSUME TypeOK
  PROVE  /\ outcome \in Seq(Kinds) /\ Len(outcome) = Len(told) /\ DOMAIN outcome = Saves
         /\ \A s \in Saves : outcome[s] = Verdict(told[s])
<1>1. /\ told \in Seq(Seq(Report)) /\ Len(told) \in Nat /\ Saves = 1..Len(told)
  BY DEF TypeOK, Saves
<1>2. \A s \in Saves : Verdict(told[s]) \in Kinds
  <2> TAKE s \in Saves
  <2>1. told[s] \in Seq(Report)
    BY <1>1
  <2>2. told[s] # <<>> => told[s][1] \in Report
    BY <2>1
  <2>3. QED
    BY <2>2 DEF Verdict, Kinds, Report
<1>3. outcome = [s \in Saves |-> Verdict(told[s])]
  BY <1>1 DEF outcome
<1>4. QED
  BY <1>1, <1>2, <1>3

LEMMA StartRefined ==
  ASSUME TypeOK, TypeOK', NEW n \in Nat, NewSave(n)
  PROVE  Promise!Start(n)
<1> DEFINE a == Append(outcome, "open")
<1>1. /\ Fresh \notin Saves /\ Saves' = Saves \cup {Fresh}
      /\ told'[Fresh] = <<>> /\ \A s \in Saves : told'[s] = told[s]
  BY NewSaveFacts
<1>2. /\ outcome \in Seq(Kinds) /\ Len(outcome) = Len(told) /\ DOMAIN outcome = Saves
      /\ \A s \in Saves : outcome[s] = Verdict(told[s])
  BY OutcomeType
<1>3. Saves = 1..Len(told) /\ Fresh = Len(told) + 1 /\ Len(told) \in Nat
  BY DEF TypeOK, Saves, Fresh
<1>4. "open" \in Kinds
  BY DEF Kinds
<1>5. /\ a = [s \in DOMAIN a |-> a[s]] /\ DOMAIN a = Saves' /\ a[Fresh] = "open"
      /\ \A s \in Saves : a[s] = outcome[s]
  <2> DEFINE o == outcome
  <2>1. /\ o \in Seq(Kinds) /\ Len(o) = Len(told) /\ a = Append(o, "open")
    BY <1>2
  <2> HIDE DEF o, a
  <2>2. /\ a \in Seq(Kinds) /\ Len(a) = Len(o) + 1 /\ a[Len(o) + 1] = "open"
        /\ \A i \in 1..Len(o) : a[i] = o[i]
    BY <2>1, <1>4
  <2>3. a = [s \in DOMAIN a |-> a[s]] /\ DOMAIN a = 1..Len(a)
    BY <2>2
  <2>4. 1..Len(a) = Saves'
    BY <2>1, <2>2, <1>1, <1>3
  <2>5. QED
    BY <2>1, <2>2, <2>3, <2>4, <1>3 DEF o
<1>6. outcome' = [s \in Saves' |-> Verdict(told'[s])]
  <2>1. Saves' = 1..Len(told')
    BY DEF TypeOK, Saves
  <2>2. QED
    BY <2>1 DEF outcome, Verdict
<1> HIDE DEF a
<1>7. Verdict(told'[Fresh]) = "open"
  BY <1>1 DEF Verdict
<1>8. \A s \in Saves' : a[s] = Verdict(told'[s])
  BY <1>1, <1>2, <1>5, <1>7
<1>9. outcome' = a
  BY <1>5, <1>6, <1>8
<1>10. QED
  BY <1>9 DEF Promise!Start, NewSave, a

LEMMA ServeRefined ==
  ASSUME FlowInv, NEW kind, Answer(kind), Landed \/ UNCHANGED todo
  PROVE  (\E s \in 1..Len(todo) : Promise!Land(s)) \/ UNCHANGED <<size, todo, outcome>>
<1>1. TypeOK /\ OneAnswerEach /\ queue # <<>> /\ size' = size /\ told' = told
  BY DEF FlowInv, Correlation, Answer
<1>2. outcome' = outcome
  BY <1>1 DEF outcome, Verdict
<1>3. CASE Landed
  <2> DEFINE p == pending[Head(queue).id]
  <2>1. todo' = [todo EXCEPT ![p.save] = @ \ {p.part}]
    BY <1>3 DEF Landed
  <2>2. p.save \in 1..Len(todo) /\ todo \in Seq(SUBSET Nat)
    BY <1>1, QueueHead DEF TypeOK, Saves
  <2> HIDE DEF p
  <2>3. CASE p.part \in todo[p.save]
    BY <2>1, <2>2, <2>3, <1>1, <1>2 DEF Promise!Land
  <2>4. CASE p.part \notin todo[p.save]
    <3>1. todo[p.save] \ {p.part} = todo[p.save]
      BY <2>4
    <3>2. todo' = todo
      BY <2>1, <2>2, <3>1
    <3>3. QED
      BY <3>2, <1>1, <1>2
  <2>5. QED
    BY <2>3, <2>4
<1>4. QED
  BY <1>1, <1>2, <1>3

\* only the first report of a save decides its outcome
LEMMA TellOutcome ==
  ASSUME TypeOK, OneAnswerEach, resps # <<>>, NEW r \in Report, Tell(r), UNCHANGED size
  PROVE  IF told[Meant.save] = <<>>
         THEN outcome[Meant.save] = "open" /\ outcome' = [outcome EXCEPT ![Meant.save] = r.kind]
         ELSE outcome' = outcome
<1> DEFINE m == Meant.save
<1>1. /\ Len(told') = Len(told) /\ told'[m] = Append(told[m], r)
      /\ \A s \in Saves : s # m => told'[s] = told[s]
  BY TellFacts
<1>2. m \in Saves /\ Saves = 1..Len(told) /\ told \in Seq(Seq(Report))
  BY TakenFacts DEF TypeOK, Saves
<1>3. outcome = [s \in Saves |-> Verdict(told[s])]
  BY <1>2 DEF outcome
<1>4. outcome' = [s \in Saves |-> Verdict(told'[s])]
  BY <1>1, <1>2 DEF outcome, Verdict
<1> HIDE DEF m
<1>5. told[m] \in Seq(Report)
  BY <1>2
<1>6. told[m] = <<>> => Verdict(told[m]) = "open" /\ Verdict(told'[m]) = r.kind
  BY <1>1 DEF Verdict
<1>7. told[m] # <<>> => Verdict(told'[m]) = Verdict(told[m])
  BY <1>1, <1>5 DEF Verdict
<1>8. \A s \in Saves : s # m => Verdict(told'[s]) = Verdict(told[s])
  BY <1>1
<1>9. CASE told[m] = <<>>
  BY <1>2, <1>3, <1>4, <1>6, <1>8, <1>9 DEF m
<1>10. CASE told[m] # <<>>
  BY <1>2, <1>3, <1>4, <1>7, <1>8, <1>10 DEF m
<1>11. QED
  BY <1>9, <1>10

\* when a report is justified
LEMMA Justified ==
  ASSUME FlowInv, resps # <<>>
  PROVE  /\ Meant.kind # "CombinedLeg" => told[Meant.save] = <<>>
         /\ /\ Head(resps).kind = "ok"
            /\ Meant.kind \in {"Save", "Create", "PrimaryAfterCompanion"}
            => todo[Meant.save] = {}
         /\ Head(resps).kind = "conflict" /\ Meant.kind = "Save" =>
              todo[Meant.save] = 1..size[Meant.save]
         /\ /\ Head(resps).kind = "ok" /\ Meant.kind = "CombinedLeg"
            /\ Live(Meant.batch) /\ batches[Meant.batch] = 1
            => todo[Meant.save] = {} /\ told[Meant.save] = <<>>
<1>1. TypeOK /\ OneAnswerEach /\ Stages /\ Truthful /\ BatchAccounting
  BY DEF FlowInv, Correlation
<1>2. /\ Answered \in DOMAIN pending /\ Answered = resps[1].id /\ 1 \in 1..Len(resps)
      /\ Head(resps) = resps[1] /\ Meant = pending[Answered]
  BY <1>1, TakenFacts DEF Meant
<1>3. /\ Head(resps).kind = "ok" => Meant.part \notin todo[Meant.save]
      /\ Head(resps).kind = "conflict" /\ Meant.kind = "Save" =>
           todo[Meant.save] = 1..size[Meant.save]
  BY <1>1, <1>2 DEF Truthful, Untouched
<1>4. /\ Meant.kind # "CombinedLeg" => told[Meant.save] = <<>>
      /\ Meant.kind \in {"Save", "Create", "PrimaryAfterCompanion"} =>
           todo[Meant.save] \subseteq {Meant.part}
  BY <1>1, <1>2 DEF Stages
<1>5. ASSUME Head(resps).kind = "ok", Meant.kind = "CombinedLeg",
             Live(Meant.batch), batches[Meant.batch] = 1
      PROVE  todo[Meant.save] = {} /\ told[Meant.save] = <<>>
  <2> DEFINE L == LegsOf(Meant.batch)
  <2>1. /\ Cardinality(L) = 1
        /\ \A i, j \in L : pending[i].save = pending[j].save
        /\ \A i \in L : /\ told[pending[i].save] = <<>>
                        /\ todo[pending[i].save] \subseteq {pending[j].part : j \in L}
    BY <1>1, <1>5 DEF BatchAccounting, Live
  <2>2. Answered \in L
    BY <1>5, BatchOfMeant
  <2>3. IsFiniteSet(L)
    <3>1. L \subseteq 1..(nextId - 1) /\ nextId - 1 \in Nat
      BY <1>1 DEF TypeOK, LegsOf
    <3>2. IsFiniteSet(1..(nextId - 1))
      BY <3>1, FS_Interval
    <3>3. QED
      BY <3>1, <3>2, FS_Subset
  <2> HIDE DEF L
  <2>4. L = {Answered}
    <3>1. Cardinality(L \ {Answered}) = Cardinality(L) - 1
      BY <2>2, <2>3, FS_RemoveElement
    <3>2. IsFiniteSet(L \ {Answered})
      BY <2>2, <2>3, FS_RemoveElement
    <3>3. L \ {Answered} = {}
      <4>1. Cardinality(L \ {Answered}) = 0
        BY <2>1, <3>1
      <4>2. QED
        BY <3>2, <4>1, FS_EmptySet
    <3>4. QED
      BY <2>2, <3>3
  <2>5. todo[Meant.save] \subseteq {Meant.part} /\ told[Meant.save] = <<>>
    BY <2>1, <2>4, <1>2
  <2>6. QED
    BY <2>5, <1>3, <1>5
<1>6. QED
  BY <1>3, <1>4, <1>5

LEMMA ReportRefined ==
  ASSUME FlowInv, resps # <<>>, Close, NEW r \in Report, Tell(r),
         told[Meant.save] = <<>> =>
           \/ r.kind = "success" /\ todo[Meant.save] = {}
           \/ r.kind = "conflict" /\ todo[Meant.save] = 1..size[Meant.save]
           \/ r.kind = "error"
  PROVE  \/ \E s \in 1..Len(todo) : Promise!Succeed(s) \/ Promise!Retry(s) \/ Promise!Fail(s)
         \/ UNCHANGED <<size, todo, outcome>>
<1>1. TypeOK /\ OneAnswerEach /\ size' = size /\ todo' = todo
  BY DEF FlowInv, Correlation, Close
<1>2. Meant.save \in 1..Len(todo)
  BY <1>1, TakenFacts DEF TypeOK, Saves
<1>3. IF told[Meant.save] = <<>>
      THEN outcome[Meant.save] = "open" /\ outcome' = [outcome EXCEPT ![Meant.save] = r.kind]
      ELSE outcome' = outcome
  BY <1>1, TellOutcome
<1>4. CASE told[Meant.save] # <<>>
  BY <1>1, <1>3, <1>4
<1>5. CASE told[Meant.save] = <<>>
  <2>1. Promise!Report(Meant.save, r.kind)
    BY <1>1, <1>3, <1>5 DEF Promise!Report
  <2>2. \/ r.kind = "success" /\ todo[Meant.save] = {}
        \/ r.kind = "conflict" /\ todo[Meant.save] = 1..size[Meant.save]
        \/ r.kind = "error"
    BY <1>5
  <2>3. Promise!Succeed(Meant.save) \/ Promise!Retry(Meant.save) \/ Promise!Fail(Meant.save)
    BY <2>1, <2>2 DEF Promise!Succeed, Promise!Retry, Promise!Fail
  <2>4. QED
    BY <2>3, <1>2
<1>6. QED
  BY <1>4, <1>5


LEMMA StepRefined ==
  ASSUME FlowInv, FlowInv', [Next]_vars
  PROVE  [Promise!Next]_(Promise!vars)
<1> DEFINE Stutter == UNCHANGED <<size, todo, outcome>>
           Starts  == \E n \in {1, 2} \cup 1..MaxLegs : Promise!Start(n)
           Moves   == \E s \in 1..Len(todo) : \/ Promise!Land(s)    \/ Promise!Succeed(s)
                                              \/ Promise!Retry(s)   \/ Promise!Fail(s)
<1>1. TypeOK /\ TypeOK' /\ OneAnswerEach
  BY DEF FlowInv, Correlation
<1>2. SUFFICES Starts \/ Moves \/ Stutter
  BY DEF Promise!Next, Promise!vars
<1>3. told' = told => outcome' = outcome
  BY DEF outcome, Verdict
<1> HIDE DEF Stutter, Starts, Moves
<1>4. CASE UNCHANGED vars
  BY <1>3, <1>4 DEF vars, histVars, Stutter
<1>5. ASSUME NEW n \in {1, 2} \cup 1..MaxLegs, NewSave(n)
      PROVE  Starts
  <2>1. n \in Nat
    BY WriteFlowAssumption
  <2>2. Promise!Start(n)
    BY <2>1, <1>1, <1>5, StartRefined
  <2>3. QED
    BY <2>2 DEF Starts
<1>6. CASE Submit
  <2>1. CASE \E n \in 1..MaxLegs : \E known \in SUBSET (1..n) : SubmitCombined(n, known)
    BY <2>1, <1>5 DEF SubmitCombined
  <2>2. CASE NewSave(1) \/ NewSave(2)
    BY <2>2, <1>5
  <2>3. QED
    BY <1>6, <2>1, <2>2
      DEF Submit, SubmitModify, SubmitRenameOnly, SubmitRename, SubmitCreate,
          SubmitCreateAtomic, SubmitCreateWithCompanion, Alone
<1>7. CASE Worker
  <2>1. \E kind \in {"ok", "conflict", "error"} : Answer(kind) /\ (Landed \/ UNCHANGED todo)
    BY <1>7 DEF Worker, WorkerWrites, WorkerConflict, WorkerRefuses, WorkerLosesAnswer
  <2>2. (\E s \in 1..Len(todo) : Promise!Land(s)) \/ UNCHANGED <<size, todo, outcome>>
    BY <2>1, ServeRefined
  <2>3. QED
    BY <2>2 DEF Moves, Stutter
<1>8. ASSUME resps # <<>>, Close, NEW r \in Report, Tell(r),
             told[Meant.save] = <<>> =>
               \/ r.kind = "success" /\ todo[Meant.save] = {}
               \/ r.kind = "conflict" /\ todo[Meant.save] = 1..size[Meant.save]
               \/ r.kind = "error"
      PROVE  Moves \/ Stutter
  BY <1>8, ReportRefined DEF Moves, Stutter
<1>9. told' = told /\ size' = size /\ todo' = todo => Stutter
  BY <1>3 DEF Stutter
<1>10. ASSUME resps # <<>> PROVE Meant.renamed \in BOOLEAN
  BY <1>1, <1>10, TakenFacts DEF Intent
<1>11. CASE OnSaved
  <2> DEFINE r == [Plain("success") EXCEPT !.renamed = Meant.renamed]
  <2>1. resps # <<>> /\ Head(resps).kind = "ok" /\ Meant.kind = "Save" /\ Tell(r) /\ Close
    BY <1>11 DEF OnSaved, Polled
  <2>2. r \in Report /\ r.kind = "success"
    BY <2>1, <1>10, PlainFacts
  <2>3. todo[Meant.save] = {}
    BY <2>1, Justified
  <2> HIDE DEF r
  <2>4. QED
    BY <2>1, <2>2, <2>3, <1>8
<1>12. CASE OnCreated
  <2>1. /\ resps # <<>> /\ Head(resps).kind = "ok" /\ Tell(Plain("success")) /\ Close
        /\ Meant.kind \in {"Create", "PrimaryAfterCompanion"}
    BY <1>12 DEF OnCreated, Polled
  <2>2. todo[Meant.save] = {}
    BY <2>1, Justified
  <2>3. QED
    BY <2>1, <2>2, <1>8, PlainFacts
<1>13. CASE OnConflict
  <2>1. /\ resps # <<>> /\ Head(resps).kind = "conflict" /\ Meant.kind = "Save"
        /\ Tell(Plain("conflict")) /\ Close
    BY <1>13 DEF OnConflict, Polled
  <2>2. todo[Meant.save] = 1..size[Meant.save]
    BY <2>1, Justified
  <2>3. QED
    BY <2>1, <2>2, <1>8, PlainFacts
<1>14. CASE OnError
  <2> DEFINE r == [Plain("error") EXCEPT !.orphan = Meant.kind = "PrimaryAfterCompanion"]
  <2>1. resps # <<>> /\ Tell(r) /\ Close
    BY <1>14 DEF OnError, Polled
  <2>2. r \in Report /\ r.kind = "error"
    BY PlainFacts
  <2> HIDE DEF r
  <2>3. QED
    BY <2>1, <2>2, <1>8
<1>15. CASE OnLegRefused
  <2>1. resps # <<>> /\ Tell(Plain("error")) /\ Close
    BY <1>15 DEF OnLegRefused, BatchAborted, Polled
  <2>2. QED
    BY <2>1, <1>8, PlainFacts
<1>16. CASE OnLeg
  <2>1. resps # <<>> /\ Head(resps).kind = "ok" /\ Meant.kind = "CombinedLeg" /\ Close
    BY <1>16 DEF OnLeg, Polled
  <2>2. CASE Live(Meant.batch) /\ batches[Meant.batch] = 1 /\ Tell(Plain("success"))
    <3>1. todo[Meant.save] = {}
      BY <2>1, <2>2, Justified
    <3>2. QED
      BY <2>1, <2>2, <3>1, <1>8, PlainFacts
  <2>3. CASE told' = told
    <3>1. size' = size /\ todo' = todo
      BY <2>1 DEF Close
    <3>2. QED
      BY <2>3, <3>1, <1>9
  <2>4. QED
    BY <1>16, <2>2, <2>3 DEF OnLeg
<1>17. CASE OnRenamed \/ OnCompanion
  BY <1>9, <1>17 DEF OnRenamed, OnCompanion, FollowUp, histVars
<1>18. QED
  BY <1>4, <1>6, <1>7, <1>11, <1>12, <1>13, <1>14, <1>15, <1>16, <1>17 DEF Next, OnResponse

(***************************************************************************)
(* The write flow, with its ids, queues and batches, implements            *)
(* SavePromise: success only when all of a save has landed, a conflict     *)
(* only when none of it has, and the first report decides.                 *)
(***************************************************************************)
THEOREM FlowKeepsPromise == Spec => KeepsPromise
<1>1. Init => Promise!Init
  BY DEF Init, Promise!Init, outcome
<1>2. FlowInv /\ FlowInv' /\ [Next]_vars => [Promise!Next]_(Promise!vars)
  BY StepRefined
<1>3. QED
  BY <1>1, <1>2, FlowAlways, PTL DEF Spec, KeepsPromise, Promise!Spec

-----------------------------------------------------------------------------
(***************************************************************************)
(* What the reports say.                                                   *)
(***************************************************************************)

\* the DN moved away from is only carried by the intent that ends the save
RenameNamed == \A i \in DOMAIN pending : pending[i].renamed => pending[i].kind = "Save"

LEMMA IntentAdded ==
  ASSUME RenameNamed, NEW m, m.renamed => m.kind = "Save",
         pending' = Extend(pending, [i \in {nextId} |-> m])
           \/ pending' = Extend(Taken, [i \in {nextId} |-> m])
  PROVE  RenameNamed'
<1> DEFINE g == [i \in {nextId} |-> m]
<1>1. ASSUME NEW i \in DOMAIN pending'
      PROVE  pending'[i] = m \/ (i \in DOMAIN pending /\ pending'[i] = pending[i])
  <2>1. DOMAIN g = {nextId} /\ g[nextId] = m
    OBVIOUS
  <2>2. pending' = Extend(pending, g) \/ pending' = Extend(Taken, g)
    OBVIOUS
  <2> HIDE DEF g
  <2>3. CASE pending' = Extend(pending, g)
    BY <2>1, <2>3 DEF Extend
  <2>4. CASE pending' = Extend(Taken, g)
    BY <2>1, <2>4 DEF Extend, Taken, Without
  <2>5. QED
    BY <2>2, <2>3, <2>4
<1>2. QED
  BY <1>1 DEF RenameNamed

LEMMA IntentNamed ==
  ASSUME NEW k, NEW s, NEW q
  PROVE  /\ Means(k, s, q).renamed = FALSE
         /\ [Means("Save", s, q) EXCEPT !.renamed = TRUE].kind = "Save"
<1>1. ASSUME NEW c
      PROVE  /\ Means(c, s, q) = [kind |-> c, save |-> s, part |-> q, batch |-> 0, renamed |-> FALSE]
             /\ DOMAIN Means(c, s, q) = {"kind", "save", "part", "batch", "renamed"}
             /\ Means(c, s, q).renamed = FALSE /\ Means(c, s, q).kind = c
  BY DEF Means
<1>2. ASSUME NEW o, DOMAIN o = {"kind", "save", "part", "batch", "renamed"}
      PROVE  [o EXCEPT !.renamed = TRUE].kind = o.kind
  BY <1>2
<1>3. QED
  BY <1>1, <1>2

LEMMA RenameNamedStep ==
  ASSUME RenameNamed, [Next]_vars
  PROVE  RenameNamed'
<1>1. CASE pending' = pending \/ pending' = Taken
  BY <1>1 DEF RenameNamed, Taken, Without
<1>2. ASSUME NEW n, NEW op, NEW asserted, NEW m, m.renamed => m.kind = "Save",
             Alone(n, op, asserted, m)
      PROVE  RenameNamed'
  BY <1>2, IntentAdded DEF Alone, Send
<1>3. ASSUME NEW op, NEW m, m.renamed => m.kind = "Save", FollowUp(op, FALSE, m)
      PROVE  RenameNamed'
  BY <1>3, IntentAdded DEF FollowUp, Send
<1>4. CASE Submit
  <2>1. ASSUME NEW n \in 1..MaxLegs, NEW known \in SUBSET (1..n), SubmitCombined(n, known)
        PROVE  RenameNamed'
    <3> DEFINE new == nextId..(nextId + n - 1)
               leg(i) == [Means("CombinedLeg", Fresh, i - nextId + 1) EXCEPT !.batch = nextId]
    <3>1. ASSUME NEW i \in new PROVE leg(i).renamed = FALSE
      <4> DEFINE m == Means("CombinedLeg", Fresh, i - nextId + 1)
      <4>1. m.renamed = FALSE /\ DOMAIN m = {"kind", "save", "part", "batch", "renamed"}
        BY DEF Means
      <4>2. leg(i) = [m EXCEPT !.batch = nextId]
        OBVIOUS
      <4> HIDE DEF m, leg
      <4>3. QED
        BY <4>1, <4>2
    <3>2. pending' = Extend(pending, [i \in new |-> leg(i)])
      BY <2>1 DEF SubmitCombined
    <3> HIDE DEF leg
    <3>3. QED
      BY <3>1, <3>2 DEF RenameNamed, Extend
  <2>2. ASSUME NEW asserted \in BOOLEAN, SubmitModify(asserted) PROVE RenameNamed'
    BY <2>2, <1>2, IntentNamed DEF SubmitModify
  <2>3. CASE SubmitRenameOnly
    BY <2>3, <1>2, IntentNamed DEF SubmitRenameOnly
  <2>4. CASE SubmitRename
    BY <2>4, <1>2, IntentNamed DEF SubmitRename
  <2>5. CASE SubmitCreate
    BY <2>5, <1>2, IntentNamed DEF SubmitCreate
  <2>6. CASE SubmitCreateAtomic
    BY <2>6, <1>2, IntentNamed DEF SubmitCreateAtomic
  <2>7. CASE SubmitCreateWithCompanion
    BY <2>7, <1>2, IntentNamed DEF SubmitCreateWithCompanion
  <2>8. QED
    BY <1>4, <2>1, <2>2, <2>3, <2>4, <2>5, <2>6, <2>7 DEF Submit
<1>5. CASE Worker
  BY <1>1, <1>5
    DEF Worker, WorkerWrites, WorkerConflict, WorkerRefuses, WorkerLosesAnswer, Answer, flowVars
<1>6. CASE OnRenamed
  BY <1>3, <1>6, IntentNamed DEF OnRenamed
<1>7. CASE OnCompanion
  BY <1>3, <1>7, IntentNamed DEF OnCompanion
<1>8. CASE OnSaved \/ OnCreated \/ OnLeg \/ OnConflict \/ OnLegRefused \/ OnError
  BY <1>1, <1>8 DEF OnSaved, OnCreated, OnLeg, OnConflict, OnLegRefused, OnError, Close
<1>9. CASE UNCHANGED vars
  BY <1>1, <1>9 DEF vars, flowVars
<1>10. QED
  BY <1>4, <1>5, <1>6, <1>7, <1>8, <1>9 DEF Next, OnResponse

LEMMA RenameAlwaysNamed == Spec => []RenameNamed
<1>1. Init => RenameNamed
  BY DEF Init, RenameNamed
<1>2. RenameNamed /\ [Next]_vars => RenameNamed'
  BY RenameNamedStep
<1>3. QED
  BY <1>1, <1>2, PTL DEF Spec

\* a report, and what it may say of the save it closes
LEMMA ReportSays ==
  ASSUME FlowInv, resps # <<>>, NEW r \in Report, Tell(r),
         NEW s \in Saves, told'[s] # told[s]
  PROVE  s = Meant.save /\ told'[s][Len(told'[s])] = r
<1>1. s = Meant.save /\ told'[s] = Append(told[s], r)
  BY TellFacts DEF FlowInv, Correlation
<1>2. told[s] \in Seq(Report)
  BY DEF FlowInv, TypeOK, Saves
<1>3. QED
  BY <1>1, <1>2

LEMMA PlainSays ==
  ASSUME NEW k \in {"success", "conflict", "error"}, NEW b \in BOOLEAN
  PROVE  /\ Plain(k).renamed = FALSE /\ Plain(k).orphan = FALSE
         /\ [Plain(k) EXCEPT !.renamed = b].renamed = b
         /\ [Plain(k) EXCEPT !.renamed = b].orphan = FALSE
         /\ [Plain(k) EXCEPT !.orphan = b].orphan = b
         /\ [Plain(k) EXCEPT !.orphan = b].renamed = FALSE
<1> DEFINE p == Plain(k)
<1>1. p \in Report /\ p.renamed = FALSE /\ p.orphan = FALSE
  BY DEF Plain, Report
<1> HIDE DEF p
<1>2. /\ [p EXCEPT !.renamed = b].renamed = b /\ [p EXCEPT !.renamed = b].orphan = FALSE
      /\ [p EXCEPT !.orphan = b].orphan = b /\ [p EXCEPT !.orphan = b].renamed = FALSE
  BY <1>1 DEF Report
<1>3. QED
  BY <1>1, <1>2 DEF p

LEMMA SaysStep ==
  ASSUME FlowInv, RenameNamed, [Next]_vars, NEW s \in Saves, told'[s] # told[s]
  PROVE  LET r == told'[s][Len(told'[s])]
         IN  /\ r.orphan \/ r.renamed => 1 \notin todo[s]
             /\ r.kind = "error" /\ Meant.kind = "PrimaryAfterCompanion" => r.orphan
             /\ r.kind = "success" /\ Meant.renamed => r.renamed
<1> DEFINE Says(r) == /\ r.orphan \/ r.renamed => 1 \notin todo[Meant.save]
                      /\ r.kind = "error" /\ Meant.kind = "PrimaryAfterCompanion" => r.orphan
                      /\ r.kind = "success" /\ Meant.renamed => r.renamed
<1>1. ASSUME resps # <<>>, NEW r \in Report, Tell(r), Says(r)
      PROVE  Says(told'[s][Len(told'[s])]) /\ s = Meant.save
  BY <1>1, ReportSays
<1>2. SUFFICES Says(told'[s][Len(told'[s])]) /\ s = Meant.save
  OBVIOUS
<1> DEFINE Goal == Says(told'[s][Len(told'[s])]) /\ s = Meant.save
<1>3. ASSUME resps # <<>>
      PROVE  /\ Meant \in Intent
             /\ Meant.renamed => Meant.kind = "Save"
             /\ Meant.kind = "PrimaryAfterCompanion" => 1 \notin todo[Meant.save]
  <2>1. /\ Meant \in Intent /\ Answered \in DOMAIN pending /\ Meant = pending[Answered]
    BY <1>3, TakenFacts DEF FlowInv, Correlation, Meant
  <2>2. Meant.renamed => Meant.kind = "Save"
    BY <2>1 DEF RenameNamed
  <2>3. Meant.kind = "PrimaryAfterCompanion" =>
          Meant.part = 2 /\ todo[Meant.save] \subseteq {Meant.part}
    BY <2>1 DEF FlowInv, Correlation, Stages
  <2>4. QED
    BY <2>1, <2>2, <2>3
<1>4. ASSUME resps # <<>>, NEW k \in {"success", "conflict", "error"}, Tell(Plain(k)),
             k = "error" => Meant.kind # "PrimaryAfterCompanion",
             k = "success" => ~Meant.renamed
      PROVE  Goal
  <2>1. Plain(k) \in Report /\ Plain(k).kind = k /\ ~Plain(k).renamed /\ ~Plain(k).orphan
    BY PlainFacts, PlainSays
  <2>2. Says(Plain(k))
    BY <2>1, <1>4
  <2>3. QED
    BY <2>1, <2>2, <1>1, <1>4
<1>5. CASE OnSaved
  <2> DEFINE r == [Plain("success") EXCEPT !.renamed = Meant.renamed]
  <2>1. resps # <<>> /\ Head(resps).kind = "ok" /\ Meant.kind = "Save" /\ Tell(r)
    BY <1>5 DEF OnSaved, Polled
  <2>2. Meant.renamed \in BOOLEAN
    BY <2>1, <1>3 DEF Intent
  <2>3. r \in Report /\ r.kind = "success" /\ r.renamed = Meant.renamed /\ r.orphan = FALSE
    BY <2>2, PlainFacts, PlainSays
  <2>4. todo[Meant.save] = {}
    BY <2>1, Justified
  <2> HIDE DEF r
  <2>5. Says(r)
    BY <2>3, <2>4
  <2>6. QED
    BY <2>1, <2>3, <2>5, <1>1
<1>6. CASE OnError
  <2> DEFINE q == Meant.kind = "PrimaryAfterCompanion"
             r == [Plain("error") EXCEPT !.orphan = q]
  <2>1. resps # <<>> /\ Tell(r)
    BY <1>6 DEF OnError, Polled
  <2>2. q \in BOOLEAN
    OBVIOUS
  <2>3. r \in Report /\ r.kind = "error" /\ r.renamed = FALSE /\ r.orphan = q
    BY <2>2, PlainFacts, PlainSays
  <2> HIDE DEF r
  <2>4. Says(r)
    BY <2>1, <2>3, <1>3
  <2>5. QED
    BY <2>1, <2>3, <2>4, <1>1
<1>7. CASE OnCreated
  <2>1. /\ resps # <<>> /\ Meant.kind \in {"Create", "PrimaryAfterCompanion"}
        /\ Tell(Plain("success"))
    BY <1>7 DEF OnCreated, Polled
  <2>2. QED
    BY <2>1, <1>3, <1>4
<1>8. CASE OnConflict
  BY <1>4, <1>8 DEF OnConflict, Polled
<1>9. CASE OnLegRefused
  BY <1>4, <1>9 DEF OnLegRefused, BatchAborted, Polled
<1>10. CASE OnLeg
  <2>1. resps # <<>> /\ Meant.kind = "CombinedLeg" /\ Tell(Plain("success"))
    BY <1>10 DEF OnLeg, Polled
  <2>2. QED
    BY <2>1, <1>3, <1>4
<1>11. CASE Submit
  <2>1. ASSUME NEW n, NewSave(n) PROVE told'[s] = told[s]
    BY <2>1 DEF NewSave, FlowInv, TypeOK, Saves
  <2>2. \E n \in {1, 2} \cup 1..MaxLegs : NewSave(n)
    BY <1>11
      DEF Submit, SubmitModify, SubmitRenameOnly, SubmitRename, SubmitCreate,
          SubmitCreateAtomic, SubmitCreateWithCompanion, SubmitCombined, Alone
  <2>3. QED
    BY <2>1, <2>2
<1>12. CASE Worker \/ OnRenamed \/ OnCompanion \/ UNCHANGED vars
  BY <1>12
    DEF Worker, WorkerWrites, WorkerConflict, WorkerRefuses, WorkerLosesAnswer, Answer,
        OnRenamed, OnCompanion, FollowUp, vars, histVars
<1> HIDE DEF Says
<1>13. QED
  BY <1>5, <1>6, <1>7, <1>8, <1>9, <1>10, <1>11, <1>12 DEF Next, OnResponse

(***************************************************************************)
(* What a report adds to its outcome is true, and a primary's failure      *)
(* always names its companion, a rename always its old DN (the arms of     *)
(* on_response).                                                           *)
(***************************************************************************)
THEOREM ReportsAreTrue == Spec => ReportsNameWhatLanded
<1>1. FlowInv /\ RenameNamed /\ [Next]_vars =>
        [\A s \in Saves :
           told'[s] # told[s] =>
             LET r == told'[s][Len(told'[s])]
             IN  /\ r.orphan \/ r.renamed => 1 \notin todo[s]
                 /\ r.kind = "error" /\ Meant.kind = "PrimaryAfterCompanion" => r.orphan
                 /\ r.kind = "success" /\ Meant.renamed => r.renamed]_vars
  BY SaysStep
<1>2. QED
  BY <1>1, FlowAlways, RenameAlwaysNamed, PTL DEF Spec, ReportsNameWhatLanded
-----------------------------------------------------------------------------
(***************************************************************************)
(* The atomic create, one request of the flow as the worker carries it     *)
(* out: for every set of names, every request and every number of faults   *)
(* and of steps of other clients.                                          *)
(***************************************************************************)
Before    == {"start", "add", "commit"}
Diagnosis == {"replay", "undo"}

Work ==
  [phase : Before \cup Diagnosis, entries : Seq(Names), next : Nat,
   created : Seq(Names), culprit : Names \cup {NoName}, leftovers : SUBSET Names]

WorkOK ==
  \/ work = Idle
  \/ work \in Work /\ work.next \in 1..Len(work.entries)

AtomicTypeOK ==
  /\ dir \in [Names -> {"none", "us", "others"}]
  /\ WorkOK
  /\ faults \in Nat /\ others \in Nat

\* What the worker knows of what it wrote.  Until the commit that is nothing;
\* in the diagnosis, all of it is yet to be taken back, or will be named.
Accounted ==
  /\ work.phase \in Before => work.created = <<>> /\ \A n \in Names : dir[n] # "us"
  /\ work.phase \in Before \cup {"replay"} => work.culprit = NoName
  /\ work.phase \in Diagnosis =>
       \A n \in Names : dir[n] = "us" => n \in ToSet(work.created) \cup work.leftovers \cup {work.culprit}

\* What others, in o steps, did in directory d to the names in c, which the
\* diagnosis has created: nothing, or a delete, or a delete and an add.  A name
\* it created twice was deleted in between.
Fate(c, d, o) ==
  /\ \A i \in DOMAIN c : d[c[i]] = "none" => o >= 1
  /\ \A i \in DOMAIN c : d[c[i]] = "others" => o >= 2
  /\ \A i, j \in DOMAIN c : i # j /\ c[i] = c[j] => o >= 1

Disturbed == work.phase \in Diagnosis => Fate(work.created, dir, others)

AtomicInv == AtomicTypeOK /\ Accounted /\ Disturbed /\ AtomicAnswerIsTrue

-----------------------------------------------------------------------------
(***************************************************************************)
(* The worker's variable, and the list of what it created.                 *)
(***************************************************************************)
LEMMA FrontFacts ==
  ASSUME NEW R, NEW s \in Seq(R), s # <<>>
  PROVE  /\ Last(s) \in R /\ Last(s) = s[Len(s)] /\ Len(s) \in DOMAIN s
         /\ Front(s) \in Seq(R)
         /\ Len(Front(s)) = Len(s) - 1 /\ DOMAIN Front(s) = 1..(Len(s) - 1)
         /\ \A i \in DOMAIN Front(s) : i \in DOMAIN s /\ Front(s)[i] = s[i]
         /\ ToSet(s) = ToSet(Front(s)) \cup {Last(s)}
<1> DEFINE n == Len(s)
           f == Front(s)
<1>1. n \in Nat /\ n >= 1
  OBVIOUS
<1>2. DOMAIN s = 1..n /\ \A i \in 1..n : s[i] \in R
  OBVIOUS
<1>3. /\ f \in Seq(R) /\ Len(f) = n - 1 /\ DOMAIN f = 1..(n - 1)
      /\ \A i \in 1..(n - 1) : f[i] = s[i]
  <2>1. f = SubSeq(s, 1, n - 1)
    BY DEF Front
  <2>2. 1 \in Int /\ n - 1 \in Int /\ n - 1 >= 0 /\ \A i \in 1..(n - 1) : s[i] \in R
    BY <1>1, <1>2
  <2> HIDE DEF f, n
  <2>3. /\ f \in Seq(R) /\ Len(f) = IF 1 <= n - 1 THEN (n - 1) - 1 + 1 ELSE 0
        /\ \A i \in 1..((n - 1) - 1 + 1) : f[i] = s[1 + i - 1]
    BY <2>1, <2>2, SubSeqProperties
  <2>4. Len(f) = n - 1 /\ \A i \in 1..(n - 1) : i \in 1..((n - 1) - 1 + 1) /\ 1 + i - 1 = i
    BY <1>1, <2>3
  <2>5. DOMAIN f = 1..(n - 1)
    BY <2>3, <2>4
  <2>6. \A i \in 1..(n - 1) : f[i] = s[i]
    BY <2>3, <2>4
  <2>7. QED
    BY <2>3, <2>4, <2>5, <2>6
<1>4. Last(s) = s[n]
  BY DEF Last
<1> HIDE DEF n, f
<1>5. n \in 1..n /\ \A i \in 1..n : i \in 1..(n - 1) \/ i = n
  BY <1>1
<1>6. \A i \in 1..(n - 1) : i \in 1..n
  BY <1>1
<1>7. ToSet(s) = ToSet(f) \cup {s[n]}
  BY <1>2, <1>3, <1>5, <1>6 DEF ToSet
<1>8. QED
  BY <1>2, <1>3, <1>4, <1>5, <1>6, <1>7 DEF n, f

LEMMA AppendFacts ==
  ASSUME NEW R, NEW s \in Seq(R), NEW e \in R
  PROVE  /\ Append(s, e) \in Seq(R)
         /\ DOMAIN s = 1..Len(s) /\ DOMAIN Append(s, e) = 1..(Len(s) + 1)
         /\ Append(s, e)[Len(s) + 1] = e
         /\ \A i \in DOMAIN s : Append(s, e)[i] = s[i]
         /\ ToSet(Append(s, e)) = ToSet(s) \cup {e}
<1> DEFINE t == Append(s, e)
<1>1. /\ t \in Seq(R) /\ Len(s) \in Nat /\ DOMAIN s = 1..Len(s) /\ DOMAIN t = 1..(Len(s) + 1)
      /\ t[Len(s) + 1] = e /\ \A i \in 1..Len(s) : t[i] = s[i]
  OBVIOUS
<1> HIDE DEF t
<1>2. \A i \in 1..(Len(s) + 1) : i \in 1..Len(s) \/ i = Len(s) + 1
  BY <1>1
<1>3. ToSet(t) = ToSet(s) \cup {e}
  BY <1>1, <1>2 DEF ToSet
<1>4. QED
  BY <1>1, <1>3 DEF t

LEMMA WorkFacts ==
  ASSUME AtomicTypeOK, work.phase \in Before \cup Diagnosis
  PROVE  /\ work \in Work /\ work.next \in 1..Len(work.entries)
         /\ Current \in Names /\ ToSet(work.entries) \subseteq Names
         /\ Current \in ToSet(work.entries)
<1>1. work # Idle
  BY DEF Idle, Before, Diagnosis
<1>2. work \in Work /\ work.next \in 1..Len(work.entries)
  BY <1>1 DEF AtomicTypeOK, WorkOK
<1>3. work.entries \in Seq(Names) /\ work.next \in 1..Len(work.entries)
  BY <1>2 DEF Work
<1>4. QED
  BY <1>2, <1>3 DEF Current, ToSet

(***************************************************************************)
(* Type correctness.                                                       *)
(***************************************************************************)
LEMMA GoesType ==
  ASSUME AtomicTypeOK, NEW p \in Before \cup Diagnosis, work.phase \in Before \cup Diagnosis, Goes(p)
  PROVE  work' \in Work /\ work'.next \in 1..Len(work'.entries)
<1>1. work \in Work /\ work.next \in 1..Len(work.entries)
  BY WorkFacts
<1>2. work' = [work EXCEPT !.phase = p, !.next = 1]
  BY DEF Goes
<1>3. work' \in Work /\ work'.next = 1 /\ work'.entries = work.entries
  BY <1>1, <1>2 DEF Work
<1>4. 1 \in 1..Len(work.entries)
  BY <1>1
<1>5. QED
  BY <1>3, <1>4

LEMMA AtomicTypeStep ==
  ASSUME AtomicTypeOK, [AtomicNext]_atomicVars
  PROVE  AtomicTypeOK'
<1>1. others' \in Nat /\ faults' \in Nat
  <2>0. faults \in Nat /\ others \in Nat
    BY DEF AtomicTypeOK
  <2>1. CASE AtomicStep
    <3>1. others' = others
      BY <2>1 DEF AtomicStep, StartTxn, AddInTxn, Commit, ReplayAdd, Undo, Explain
    <3>2. NoFailure \/ MayFail
      BY <2>1, Zenon DEF AtomicStep, StartTxn, AddInTxn, Commit, ReplayAdd, Undo, Explain, NoFailure
    <3>3. QED
      BY <2>0, <3>1, <3>2 DEF NoFailure, MayFail
  <2>3. CASE (\E r \in Requests : StartAtomic(r)) \/ (\E n \in Names : OthersAct(n)) \/ UNCHANGED atomicVars
    BY <2>3 DEF StartAtomic, OthersAct, atomicVars, AtomicTypeOK
  <2>4. QED
    BY <2>1, <2>3 DEF AtomicNext
<1>2. dir' \in [Names -> {"none", "us", "others"}]
  <2>1. CASE StartTxn \/ AddInTxn \/ Explain \/ UNCHANGED atomicVars
    BY <2>1 DEF StartTxn, AddInTxn, Explain, atomicVars, AtomicTypeOK
  <2>2. CASE Commit
    BY <2>2 DEF Commit, AllAdded, AtomicTypeOK
  <2>3. CASE ReplayAdd
    BY <2>3 DEF ReplayAdd, AtomicTypeOK
  <2>4. CASE Undo
    BY <2>4 DEF Undo, AtomicTypeOK
  <2>5. CASE \E r \in Requests : StartAtomic(r)
    BY <2>5 DEF StartAtomic, AtomicTypeOK
  <2>6. CASE \E n \in Names : OthersAct(n)
    BY <2>6 DEF OthersAct, AtomicTypeOK
  <2>7. QED
    BY <2>1, <2>2, <2>3, <2>4, <2>5, <2>6 DEF AtomicNext, AtomicStep
<1>3. WorkOK'
  <2> USE DEF Before, Diagnosis, WorkOK
  <2>1. CASE StartTxn
    BY <2>1, GoesType DEF StartTxn, Replies
  <2>2. CASE AddInTxn
    <3>1. CASE work' = [work EXCEPT !.next = @ + 1] /\ ~IsLast /\ work.phase = "add"
      <4>1. work \in Work /\ work.next \in 1..Len(work.entries)
        BY <3>1, WorkFacts
      <4>2. work.next # Len(work.entries) /\ Len(work.entries) \in Nat
        BY <4>1, <3>1 DEF IsLast, Work
      <4>3. QED
        BY <4>1, <4>2, <3>1 DEF Work
    <3>2. QED
      BY <2>2, <3>1, GoesType DEF AddInTxn, Replies
  <2>3. CASE Commit
    BY <2>3, GoesType DEF Commit, Replies
  <2>4. CASE ReplayAdd
    <3>1. /\ work \in Work /\ work.next \in 1..Len(work.entries) /\ Current \in Names
          /\ Len(work.entries) \in Nat
      BY <2>4, WorkFacts DEF ReplayAdd, Work
    <3>2. CASE work' = [work EXCEPT !.culprit = Current, !.phase = "undo", !.created = Stopped]
      BY <3>1, <3>2 DEF Work, Stopped
    <3>3. CASE work' = [work EXCEPT !.created = Append(@, Current),
                                !.phase = IF IsLast THEN "undo" ELSE "replay",
                                !.next = IF IsLast THEN 1 ELSE @ + 1]
      <4> DEFINE c == Append(work.created, Current)
      <4>1. c \in Seq(Names)
        BY <3>1 DEF Work
      <4> HIDE DEF c
      <4>2. CASE IsLast
        <5>1. work' = [work EXCEPT !.created = c, !.phase = "undo", !.next = 1]
          BY <3>3, <4>2 DEF c
        <5>2. work' \in Work /\ work'.next = 1 /\ work'.entries = work.entries
          BY <3>1, <5>1, <4>1 DEF Work
        <5>3. QED
          BY <3>1, <5>2
      <4>3. CASE ~IsLast
        <5> DEFINE k == work.next + 1
        <5>1. k \in Nat /\ k \in 1..Len(work.entries)
          BY <3>1, <4>3 DEF IsLast
        <5>2. work' = [work EXCEPT !.created = c, !.phase = "replay", !.next = k]
          BY <3>3, <4>3 DEF c
        <5> HIDE DEF k
        <5>3. work' \in Work /\ work'.next = k /\ work'.entries = work.entries
          BY <3>1, <5>1, <5>2, <4>1 DEF Work
        <5>4. QED
          BY <5>1, <5>3
      <4>4. QED
        BY <4>2, <4>3
    <3>4. QED
      BY <2>4, <3>2, <3>3 DEF ReplayAdd
  <2>5. CASE Undo
    <3>1. work \in Work /\ work.created # <<>>
      BY <2>5, WorkFacts DEF Undo
    <3>2. Front(work.created) \in Seq(Names) /\ Last(work.created) \in Names
      BY <3>1, FrontFacts DEF Work
    <3>3. Leftovers(Last(work.created)) \in SUBSET Names
      BY <3>1, <3>2 DEF Work, Leftovers
    <3>4. work.next \in 1..Len(work.entries)
      BY <2>5, WorkFacts DEF Undo
    <3>5. \/ work' = [work EXCEPT !.created = Front(work.created)]
          \/ work' = [work EXCEPT !.created = Front(work.created),
                                  !.leftovers = Leftovers(Last(work.created))]
      BY <2>5 DEF Undo
    <3>6. work' \in Work /\ work'.next = work.next /\ work'.entries = work.entries
      <4>1. CASE work' = [work EXCEPT !.created = Front(work.created)]
        BY <3>1, <3>2, <4>1 DEF Work
      <4>2. CASE work' = [work EXCEPT !.created = Front(work.created),
                                      !.leftovers = Leftovers(Last(work.created))]
        BY <3>1, <3>2, <3>3, <4>2 DEF Work
      <4>3. QED
        BY <3>5, <4>1, <4>2
    <3>7. QED
      BY <3>4, <3>6
  <2>6. CASE Explain
    BY <2>6 DEF Explain, Replies
  <2>7. CASE \E r \in Requests : StartAtomic(r)
    <3>1. PICK r \in Requests : StartAtomic(r)
      BY <2>7
    <3>2. r \in Seq(Names) \ {<<>>} /\ <<>> \in Seq(Names) /\ Len(r) \in Nat \ {0}
      BY AtomicAssumption
    <3>3. QED
      BY <3>1, <3>2 DEF StartAtomic, Work
  <2>8. CASE (\E n \in Names : OthersAct(n)) \/ UNCHANGED atomicVars
    <3>1. work' = work
      BY <2>8 DEF OthersAct, atomicVars
    <3>2. QED
      BY <3>1 DEF AtomicTypeOK
  <2>9. QED
    BY <2>1, <2>2, <2>3, <2>4, <2>5, <2>6, <2>7, <2>8 DEF AtomicNext, AtomicStep
<1>4. QED
  BY <1>1, <1>2, <1>3 DEF AtomicTypeOK

(***************************************************************************)
(* The steps that go on with a request, seen from what it created.         *)
(***************************************************************************)
LEMMA AnsweredEnds ==
  ASSUME work' = Idle
  PROVE  Accounted' /\ Disturbed'
  BY DEF Accounted, Disturbed, Idle, Before, Diagnosis

LEMMA GoesOn ==
  ASSUME work \in Work, NEW p \in Before \cup Diagnosis, Goes(p)
  PROVE  /\ work'.phase = p /\ work'.created = work.created
         /\ work'.culprit = work.culprit /\ work'.leftovers = work.leftovers
  BY DEF Goes, Work

\* What a step of the replay does.
LEMMA ReplayAddFacts ==
  ASSUME AtomicTypeOK, ReplayAdd
  PROVE  /\ work \in Work /\ work.phase = "replay" /\ Current \in Names
         /\ work'.phase \in Diagnosis /\ work'.leftovers = work.leftovers
         /\ others' = others
         /\ \/ /\ dir[Current] = "none" /\ dir' = [dir EXCEPT ![Current] = "us"]
               /\ work'.created = Append(work.created, Current) /\ work'.culprit = work.culprit
            \/ /\ dir' = dir \/ dir' = [dir EXCEPT ![Current] = "us"]
               /\ work'.phase = "undo" /\ work'.created = work.created /\ work'.culprit = Current
<1>1. work \in Work /\ work.phase = "replay" /\ Current \in Names
  BY WorkFacts DEF ReplayAdd, Diagnosis
<1>2. CASE work' = [work EXCEPT !.culprit = Current, !.phase = "undo", !.created = Stopped]
  <2>1. work' = [work EXCEPT !.culprit = Current, !.phase = "undo", !.created = work.created]
    BY <1>2 DEF Stopped
  <2>2. /\ work'.phase = "undo" /\ work'.created = work.created /\ work'.culprit = Current
        /\ work'.leftovers = work.leftovers
    BY <1>1, <2>1 DEF Work
  <2>3. /\ dir' = dir \/ dir' = [dir EXCEPT ![Current] = "us"]
        /\ others' = others
    BY DEF ReplayAdd
  <2>4. QED
    BY <1>1, <2>2, <2>3 DEF Diagnosis
<1>3. CASE /\ dir[Current] = "none" /\ dir' = [dir EXCEPT ![Current] = "us"]
           /\ work' = [work EXCEPT !.created = Append(@, Current),
                                   !.phase = IF IsLast THEN "undo" ELSE "replay",
                                   !.next = IF IsLast THEN 1 ELSE @ + 1]
  BY <1>1, <1>3 DEF ReplayAdd, Work, Diagnosis
<1>4. QED
  BY <1>2, <1>3 DEF ReplayAdd

LEMMA UndoFacts ==
  ASSUME AtomicTypeOK, Undo
  PROVE  LET n == Last(work.created) IN
         /\ work \in Work /\ work.phase = "undo" /\ work.created # <<>> /\ n \in Names
         /\ work'.phase = "undo" /\ work'.created = Front(work.created)
         /\ work'.culprit = work.culprit /\ others' = others
         /\ \/ /\ dir' = [dir EXCEPT ![n] = "none"] /\ dir[n] # "none"
               /\ work'.leftovers \in {work.leftovers, work.leftovers \cup {n}}
            \/ dir' = dir /\ work'.leftovers = work.leftovers \cup {n}
<1>1. work \in Work /\ work.phase = "undo" /\ work.created # <<>>
  BY WorkFacts DEF Undo, Diagnosis
<1>2. Last(work.created) \in Names
  BY <1>1, FrontFacts DEF Work
<1>3. CASE work' = [work EXCEPT !.created = Front(work.created)]
  BY <1>1, <1>2, <1>3 DEF Undo, Work, Leftovers
<1>4. CASE work' = [work EXCEPT !.created = Front(work.created),
                                !.leftovers = Leftovers(Last(work.created))]
  BY <1>1, <1>2, <1>4 DEF Undo, Work, Leftovers
<1>5. QED
  BY <1>3, <1>4 DEF Undo

(***************************************************************************)
(* The worker accounts for what it wrote, whatever fails and whatever      *)
(* others do meanwhile.                                                    *)
(***************************************************************************)
LEMMA AccountedStep ==
  ASSUME AtomicTypeOK, Accounted, [AtomicNext]_atomicVars
  PROVE  Accounted'
<1>1. CASE work' = Idle
  BY <1>1, AnsweredEnds
<1>2. ASSUME work.phase \in Before, dir' = dir, NEW p \in Before \cup {"replay"}, Goes(p)
      PROVE  Accounted'
  <2>1. work \in Work
    BY <1>2, WorkFacts
  <2>2. /\ work'.phase = p /\ work'.created = work.created /\ work'.culprit = work.culprit
    BY <1>2, <2>1, GoesOn DEF Diagnosis
  <2>3. QED
    BY <1>2, <2>2 DEF Accounted
<1>3. CASE StartTxn
  BY <1>1, <1>2, <1>3 DEF StartTxn, Replies, Before
<1>4. CASE AddInTxn
  <2>1. CASE work' = [work EXCEPT !.next = @ + 1]
    <3>1. work \in Work /\ dir' = dir /\ work.phase = "add"
      BY <1>4, WorkFacts DEF AddInTxn, Before
    <3>2. work'.phase = "add" /\ work'.created = work.created /\ work'.culprit = work.culprit
      BY <2>1, <3>1 DEF Work
    <3>3. QED
      BY <3>1, <3>2 DEF Accounted, Before, Diagnosis
  <2>2. QED
    BY <1>1, <1>2, <1>4, <2>1 DEF AddInTxn, Replies, Before
<1>5. CASE Commit
  BY <1>1, <1>2, <1>5 DEF Commit, Replies, Before
<1>6. CASE ReplayAdd
  <2>1. work.created \in Seq(Names) /\ Current \in Names
    BY <1>6, ReplayAddFacts DEF Work
  <2>2. ToSet(Append(work.created, Current)) = ToSet(work.created) \cup {Current}
    BY <2>1, AppendFacts
  <2>3. dir \in [Names -> {"none", "us", "others"}]
    BY DEF AtomicTypeOK
  <2>4. /\ work.culprit = NoName /\ NoName \notin Names
        /\ \A n \in Names : dir[n] = "us" => n \in ToSet(work.created) \cup work.leftovers \cup {NoName}
    BY <1>6, ReplayAddFacts, AtomicAssumption DEF Accounted, Diagnosis
  <2>5. work'.phase \notin Before /\ (work'.phase = "replay" => work'.culprit = NoName)
    BY <1>6, <2>4, ReplayAddFacts DEF Diagnosis, Before
  <2>6. ASSUME NEW n \in Names, dir'[n] = "us"
        PROVE  n \in ToSet(work'.created) \cup work'.leftovers \cup {work'.culprit}
    <3>1. dir[n] = "us" \/ n = Current
      BY <1>6, <2>3, <2>6, ReplayAddFacts
    <3>2. n \in ToSet(work.created) \cup work.leftovers \/ n = Current
      BY <2>4, <3>1
    <3>3. QED
      BY <1>6, <2>2, <3>2, ReplayAddFacts
  <2>7. QED
    BY <2>5, <2>6 DEF Accounted
<1>7. CASE Undo
  <2>1. work.created \in Seq(Names) /\ work.created # <<>>
    BY <1>7, UndoFacts DEF Work
  <2>2. ToSet(work.created) = ToSet(Front(work.created)) \cup {Last(work.created)}
    BY <2>1, FrontFacts
  <2>3. dir \in [Names -> {"none", "us", "others"}]
    BY DEF AtomicTypeOK
  <2>4. \A n \in Names : dir[n] = "us" => n \in ToSet(work.created) \cup work.leftovers \cup {work.culprit}
    BY <1>7, UndoFacts DEF Accounted, Diagnosis
  <2>5. ASSUME NEW n \in Names, dir'[n] = "us"
        PROVE  n \in ToSet(work'.created) \cup work'.leftovers \cup {work'.culprit}
    BY <1>7, <2>2, <2>3, <2>4, <2>5, UndoFacts
  <2>6. QED
    BY <1>7, <2>5, UndoFacts DEF Accounted, Before
<1>8. CASE Explain
  BY <1>1, <1>8 DEF Explain, Replies
<1>9. CASE \E r \in Requests : StartAtomic(r)
  <2>1. PICK r \in Requests : StartAtomic(r)
    BY <1>9
  <2>2. /\ work'.phase = "start" /\ work'.created = <<>> /\ work'.culprit = NoName
        /\ \A n \in Names : dir'[n] # "us"
    BY <2>1 DEF StartAtomic
  <2>3. QED
    BY <2>2 DEF Accounted, Before, Diagnosis
<1>10. CASE \E n \in Names : OthersAct(n)
  <2>1. work' = work /\ \A n \in Names : dir'[n] = "us" => dir[n] = "us"
    BY <1>10 DEF OthersAct, AtomicTypeOK
  <2>2. QED
    BY <2>1 DEF Accounted
<1>11. CASE UNCHANGED atomicVars
  BY <1>11 DEF Accounted, atomicVars
<1>12. QED
  BY <1>3, <1>4, <1>5, <1>6, <1>7, <1>8, <1>9, <1>10, <1>11 DEF AtomicNext, AtomicStep

(***************************************************************************)
(* What others did to what the diagnosis has created.                      *)
(***************************************************************************)
LEMMA DisturbedStep ==
  ASSUME AtomicTypeOK, Accounted, Disturbed, [AtomicNext]_atomicVars
  PROVE  Disturbed'
<1>0. dir \in [Names -> {"none", "us", "others"}] /\ others \in Nat
  BY DEF AtomicTypeOK
<1>1. CASE work' = Idle
  BY <1>1, AnsweredEnds
<1>2. CASE work'.phase \in Before
  BY <1>2 DEF Disturbed, Before, Diagnosis
<1>3. ASSUME work.phase \in Before, Goes("replay") PROVE Disturbed'
  <2>1. work'.created = <<>>
    BY <1>3, WorkFacts, GoesOn DEF Diagnosis, Accounted
  <2>2. DOMAIN work'.created = {}
    BY <2>1
  <2>3. QED
    BY <2>2 DEF Disturbed, Fate
<1>4. CASE StartTxn \/ AddInTxn \/ Commit
  <2>1. work.phase \in Before
    BY <1>4 DEF StartTxn, AddInTxn, Commit, Before
  <2>2. work \in Work
    BY <2>1, WorkFacts
  <2>3. work' = Idle \/ work'.phase \in Before \/ Goes("replay")
    <3>1. CASE Goes("add")
      BY <2>2, <3>1, GoesOn DEF Before
    <3>2. CASE Goes("commit")
      BY <2>2, <3>2, GoesOn DEF Before
    <3>3. CASE work' = [work EXCEPT !.next = @ + 1]
      BY <2>1, <2>2, <3>3 DEF Work
    <3>4. QED
      BY <1>4, <3>1, <3>2, <3>3 DEF StartTxn, AddInTxn, Commit, Replies
  <2>4. QED
    BY <1>1, <1>2, <1>3, <2>1, <2>3
<1>5. CASE ReplayAdd
  <2> DEFINE c == work.created
  <2>1. c \in Seq(Names) /\ Current \in Names
    BY <1>5, ReplayAddFacts DEF Work
  <2>2. Fate(c, dir, others) /\ others' = others
    BY <1>5, ReplayAddFacts DEF Disturbed, Diagnosis
  <2>3. \A i \in DOMAIN c : c[i] \in Names
    BY <2>1
  <2>4. /\ DOMAIN c = 1..Len(c) /\ DOMAIN Append(c, Current) = 1..(Len(c) + 1)
        /\ Append(c, Current)[Len(c) + 1] = Current
        /\ \A i \in DOMAIN c : Append(c, Current)[i] = c[i]
    BY <2>1, AppendFacts
  <2>5. Len(c) \in Nat
    BY <2>1
  <2>6. \A i \in DOMAIN Append(c, Current) : i \in DOMAIN c \/ i = Len(c) + 1
    BY <2>4, <2>5
  <2> HIDE DEF c
  <2>7. CASE work'.created = c /\ (dir' = dir \/ dir' = [dir EXCEPT ![Current] = "us"])
    <3>1. \A n \in Names : dir'[n] = dir[n] \/ dir'[n] = "us"
      BY <2>7, <1>0
    <3>2. QED
      BY <2>2, <2>3, <2>7, <3>1 DEF Disturbed, Fate
  <2>8. CASE /\ work'.created = Append(c, Current) /\ dir[Current] = "none"
             /\ dir' = [dir EXCEPT ![Current] = "us"]
    <3>1. dir'[Current] = "us" /\ \A n \in Names : n # Current => dir'[n] = dir[n]
      BY <1>0, <2>1, <2>8
    <3>2. \A i \in DOMAIN c : c[i] = Current => others >= 1
      BY <2>2, <2>8 DEF Fate
    <3>3. QED
      BY <2>2, <2>3, <2>4, <2>6, <2>8, <3>1, <3>2 DEF Disturbed, Fate
  <2>9. QED
    BY <1>5, <2>7, <2>8, ReplayAddFacts DEF c
<1>6. CASE Undo
  <2> DEFINE c == work.created
             f == Front(c)
             n == Last(c)
  <2>1. c \in Seq(Names) /\ c # <<>> /\ work'.created = f /\ n \in Names
    BY <1>6, UndoFacts DEF Work
  <2>2. Fate(c, dir, others) /\ others' = others
    BY <1>6, UndoFacts DEF Disturbed, Diagnosis
  <2>3. /\ n = c[Len(c)] /\ Len(c) \in DOMAIN c /\ DOMAIN f = 1..(Len(c) - 1)
        /\ \A i \in DOMAIN f : i \in DOMAIN c /\ f[i] = c[i]
    BY <2>1, FrontFacts
  <2>4. \A i \in DOMAIN f : i # Len(c) /\ f[i] \in Names
    <3>1. Len(c) \in Nat
      BY <2>1
    <3>2. \A i \in 1..(Len(c) - 1) : i # Len(c)
      BY <3>1
    <3>3. \A i \in DOMAIN c : c[i] \in Names
      BY <2>1
    <3>4. QED
      BY <2>3, <3>2, <3>3
  <2>5. \/ dir' = dir
        \/ dir' = [dir EXCEPT ![n] = "none"]
    BY <1>6, UndoFacts
  <2> HIDE DEF c, f, n
  <2>6. \A i \in DOMAIN f : f[i] = n => others >= 1
    BY <2>2, <2>3, <2>4 DEF Fate
  <2>7. \A m \in Names : dir'[m] = dir[m] \/ (m = n /\ dir'[m] = "none")
    BY <1>0, <2>5
  <2>8. Fate(f, dir', others)
    BY <2>2, <2>3, <2>4, <2>6, <2>7 DEF Fate
  <2>9. QED
    BY <2>1, <2>2, <2>8 DEF Disturbed
<1>7. CASE Explain
  BY <1>1, <1>7 DEF Explain, Replies
<1>8. CASE \E r \in Requests : StartAtomic(r)
  <2>1. work'.phase = "start"
    BY <1>8 DEF StartAtomic
  <2>2. QED
    BY <1>2, <2>1 DEF Before
<1>9. CASE \E n \in Names : OthersAct(n)
  <2>1. PICK n \in Names : OthersAct(n)
    BY <1>9
  <2>2. work' = work /\ others' = others + 1
    BY <2>1 DEF OthersAct
  <2>3. \A m \in Names : \/ dir'[m] = dir[m]
                        \/ (dir[m] = "none" /\ dir'[m] = "others")
                        \/ dir'[m] = "none"
    BY <1>0, <2>1 DEF OthersAct
  <2>4. SUFFICES ASSUME work.phase \in Diagnosis PROVE Fate(work.created, dir', others')
    BY <2>2 DEF Disturbed
  <2>5. Fate(work.created, dir, others)
    BY <2>4 DEF Disturbed
  <2>6. \A i \in DOMAIN work.created : work.created[i] \in Names
    BY <2>4, WorkFacts DEF Work
  <2>7. others' >= 1 /\ (others >= 1 => others' >= 2) /\ (others >= 2 => others' >= 2)
    BY <1>0, <2>2
  <2>8. QED
    BY <2>3, <2>5, <2>6, <2>7 DEF Fate
<1>10. CASE UNCHANGED atomicVars
  BY <1>10 DEF Disturbed, atomicVars
<1>11. QED
  BY <1>4, <1>5, <1>6, <1>7, <1>8, <1>9, <1>10 DEF AtomicNext, AtomicStep

(***************************************************************************)
(* What an answer says is what the accounts say.                           *)
(***************************************************************************)
LEMMA AnswerStep ==
  ASSUME AtomicTypeOK, Accounted, AtomicAnswerIsTrue, [AtomicNext]_atomicVars
  PROVE  AtomicAnswerIsTrue'
<1>1. CASE report' = report
  BY <1>1 DEF AtomicAnswerIsTrue
<1>2. ASSUME NEW n, Replies(FALSE, "none", n) PROVE AtomicAnswerIsTrue'
  BY <1>2 DEF Replies, AtomicAnswerIsTrue
<1>3. ASSUME NEW n, Replies(FALSE, "nothing", n), Ours(dir', work.entries) \subseteq n
      PROVE  AtomicAnswerIsTrue'
  BY <1>3 DEF Replies, AtomicAnswerIsTrue
<1>4. CASE StartTxn
  BY <1>1, <1>2, <1>4 DEF StartTxn, Goes
<1>5. CASE AddInTxn
  <2>1. Ours(dir', work.entries) = {}
    BY <1>5, WorkFacts DEF AddInTxn, Accounted, Before, Ours
  <2>2. QED
    BY <1>1, <1>2, <1>3, <1>5, <2>1 DEF AddInTxn, Goes
<1>6. CASE Commit
  <2>1. Ours(dir', work.entries) \subseteq ToSet(work.entries)
    BY DEF Ours
  <2>2. CASE Replies(TRUE, "all", {}) /\ dir' = AllAdded
    <3>1. ToSet(work.entries) \subseteq Names
      BY <1>6, WorkFacts DEF Commit, Before
    <3>2. Ours(dir', work.entries) = ToSet(work.entries)
      BY <2>2, <3>1 DEF AllAdded, Ours
    <3>3. QED
      BY <2>2, <3>2 DEF Replies, AtomicAnswerIsTrue
  <2>3. QED
    BY <1>1, <1>2, <1>3, <1>6, <2>1, <2>2 DEF Commit, Goes
<1>7. CASE ReplayAdd \/ Undo
  BY <1>1, <1>7 DEF ReplayAdd, Undo
<1>8. CASE Explain
  <2> DEFINE named == work.leftovers \cup IF work.culprit = NoName THEN ToSet(work.entries)
                                          ELSE {work.culprit}
  <2>1. ToSet(work.created) = {}
    BY <1>8 DEF Explain, ToSet
  <2>2. \A n \in Names : dir[n] = "us" => n \in work.leftovers \cup {work.culprit}
    BY <1>8, <2>1 DEF Explain, Accounted, Diagnosis
  <2>3. ToSet(work.entries) \subseteq Names /\ NoName \notin Names /\ dir' = dir
    BY <1>8, WorkFacts, AtomicAssumption DEF Explain, Diagnosis
  <2>4. Ours(dir', work.entries) \subseteq named
    BY <2>2, <2>3 DEF Ours
  <2>5. Replies(FALSE, "nothing", named)
    BY <1>8 DEF Explain
  <2>6. QED
    BY <1>3, <2>4, <2>5
<1>9. CASE \/ \E r \in Requests : StartAtomic(r)
           \/ \E n \in Names : OthersAct(n)
           \/ UNCHANGED atomicVars
  BY <1>1, <1>9 DEF StartAtomic, OthersAct, atomicVars
<1>10. QED
  BY <1>4, <1>5, <1>6, <1>7, <1>8, <1>9 DEF AtomicNext, AtomicStep

LEMMA AtomicInitInv == AtomicInit => AtomicInv
<1> SUFFICES ASSUME AtomicInit PROVE AtomicInv
  OBVIOUS
<1>1. AtomicTypeOK
  BY DEF AtomicInit, AtomicTypeOK, WorkOK
<1>2. work.phase = "idle"
  BY DEF AtomicInit, Idle
<1>3. AtomicAnswerIsTrue
  BY DEF AtomicInit, NoReport, AtomicAnswerIsTrue
<1>4. QED
  BY <1>1, <1>2, <1>3 DEF AtomicInv, Accounted, Disturbed, Before, Diagnosis

LEMMA AtomicAlways == AtomicSpec => []AtomicInv
<1>1. AtomicInv /\ [AtomicNext]_atomicVars => AtomicInv'
  BY AtomicTypeStep, AccountedStep, DisturbedStep, AnswerStep DEF AtomicInv
<1>2. QED
  BY AtomicInitInv, <1>1, PTL DEF AtomicSpec

(***************************************************************************)
(* The variables keep their types, for any requests and any interference.  *)
(***************************************************************************)
THEOREM AtomicTypeCorrect == AtomicSpec => []AtomicTypeOK
<1>1. AtomicInv => AtomicTypeOK
  BY DEF AtomicInv
<1>2. QED
  BY AtomicAlways, <1>1, PTL

(***************************************************************************)
(* The answer of an atomic add tells the truth: a success wrote            *)
(* everything, and a message that nothing was written names all that is    *)
(* left (run_add_atomic, diagnose_rolled_back_add, worker.rs).             *)
(***************************************************************************)
THEOREM AnswersAreTrue == AtomicSpec => []AtomicAnswerIsTrue
<1>1. AtomicInv => AtomicAnswerIsTrue
  BY DEF AtomicInv
<1>2. QED
  BY AtomicAlways, <1>1, PTL

(***************************************************************************)
(* The clean-up after the replay deletes what the replay added: an entry   *)
(* of another client goes only if two steps of theirs put it in the place  *)
(* of one added here (diagnose_rolled_back_add).                           *)
(***************************************************************************)
LEMMA DeletesStep ==
  ASSUME AtomicInv, [AtomicNext]_atomicVars, NEW n \in Names, dir[n] = "others", dir'[n] = "none"
  PROVE  others' = others + 1 \/ others >= 2
<1>0. dir \in [Names -> {"none", "us", "others"}]
  BY DEF AtomicInv, AtomicTypeOK
<1>1. CASE Undo
  <2>1. n = Last(work.created)
    BY <1>0, <1>1, UndoFacts DEF AtomicInv
  <2>2. work.created \in Seq(Names) /\ work.created # <<>> /\ work.phase \in Diagnosis
    BY <1>1, UndoFacts DEF AtomicInv, Work, Diagnosis
  <2>3. n = work.created[Len(work.created)] /\ Len(work.created) \in DOMAIN work.created
    BY <2>1, <2>2, FrontFacts
  <2>4. QED
    BY <2>2, <2>3 DEF AtomicInv, Disturbed, Fate
<1>2. CASE StartTxn \/ AddInTxn \/ Explain \/ UNCHANGED atomicVars
  BY <1>2 DEF StartTxn, AddInTxn, Explain, atomicVars
<1>3. CASE Commit
  BY <1>3 DEF Commit, AllAdded
<1>4. CASE ReplayAdd
  BY <1>0, <1>4, ReplayAddFacts DEF AtomicInv
<1>5. CASE \E r \in Requests : StartAtomic(r)
  BY <1>5 DEF StartAtomic
<1>6. CASE \E m \in Names : OthersAct(m)
  BY <1>6 DEF OthersAct
<1>7. QED
  BY <1>1, <1>2, <1>3, <1>4, <1>5, <1>6 DEF AtomicNext, AtomicStep

THEOREM DeletesItsOwn == AtomicSpec => TakesBackItsOwn
<1>1. AtomicInv /\ [AtomicNext]_atomicVars =>
        [\A n \in Names :
           dir[n] = "others" /\ dir'[n] = "none" => others' = others + 1 \/ others >= 2]_atomicVars
  BY DeletesStep
<1>2. QED
  BY AtomicAlways, <1>1, PTL DEF AtomicSpec, TakesBackItsOwn
=============================================================================
