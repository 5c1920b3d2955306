----------------------- MODULE MembershipSave_proofs -----------------------
(***************************************************************************)
(* Theorems about MembershipSave, for every finite set of groups, every    *)
(* membership, and any number of saves, faults and other clients' changes. *)
(***************************************************************************)
EXTENDS MembershipSave, SequenceTheorems, FiniteSetTheorems, TLAPS

Everyone == {Me} \cup Others
Csns     == Nat \cup {None}

Form == [base : SUBSET Groups, chosen : SUBSET Groups, was : Texts, now : Texts, csn : Nat]

Leg == [dn : Groups, op : {"add", "delete"}]

\* The save being prepared; t is what it has left to fetch.
Plan(t) ==
  [at : {"csns", "members", "check", "confirm"}, stage : {1, 2}, todo : {t}, fan : Seq(Leg),
   was : Texts, now : Texts, ownCsn : Csns, csns : [Groups -> Csns],
   seen : [Groups -> SUBSET Everyone]]

ReadJob  == [what : {"read"}]
OwnJob   == [what : {"modify"}, save : Nat, dn : {Me}, op : {"set"}, was : Texts, now : Texts,
             csn : Csns]
GroupJob == [what : {"modify"}, save : Nat, dn : Groups, op : {"add", "delete"}, csn : Csns,
             seen : SUBSET Everyone]
Job      == ReadJob \cup OwnJob \cup GroupJob

Entries   == [what : {"read"}, entry : Form]
Verdicts  == [what : {"ok", "error", "conflict"}, save : Nat]
Responses == Entries \cup Verdicts

ServerOK ==
  /\ members \in [Groups -> SUBSET Everyone]
  /\ csn \in [Groups \cup {Me} -> Nat]
  /\ text \in Texts

ClientOK ==
  /\ supported \in BOOLEAN
  /\ form \in Form
  /\ step # Idle => step \in Plan(step.todo)
  /\ saves \in Nat

TypeOK ==
  /\ ServerOK /\ ClientOK
  /\ jobs \in Seq(Job) /\ resps \in Seq(Responses)

\* A text, or the members of a group, known at version c, where version v is
\* the current one: if c still is the current version, what is known is so.
\* Nothing is known of a group whose members were not read.
Knows(c, t, v, now)      == c # None => c <= v /\ (c = v => t = now)
KnowsGroup(c, m, v, now) == c # None => c <= v /\ (c = v /\ m # {} => m = now)

\* The save removes nobody known to be the last member.
Permitted(fan, seen) == \A i \in DOMAIN fan : fan[i].op = "delete" => seen[fan[i].dn] # {Me}

FormFresh == Knows(form.csn, form.was, csn[Me], text)

ReadsFresh ==
  \A r \in ToSet(resps) \cap Entries : Knows(r.entry.csn, r.entry.was, csn[Me], text)

PlanFresh ==
  step # Idle =>
    /\ Knows(step.ownCsn, step.was, csn[Me], text)
    /\ \A g \in Groups : KnowsGroup(step.csns[g], step.seen[g], csn[g], members[g])
    /\ step.at = "csns" => \A g \in Groups : step.seen[g] = {}
    /\ step.at = "confirm" => Permitted(step.fan, step.seen)

JobsFresh ==
  /\ \A j \in ToSet(jobs) \cap OwnJob : Knows(j.csn, j.was, csn[Me], text)
  /\ \A j \in ToSet(jobs) \cap GroupJob :
       /\ KnowsGroup(j.csn, j.seen, csn[j.dn], members[j.dn])
       /\ j.op = "delete" => j.seen # {Me}

\* Everything the client knows, from the entries read to the legs sent, is
\* known at a version no newer than the server's, and was so at that version.
IInv == TypeOK /\ FormFresh /\ ReadsFresh /\ PlanFresh /\ JobsFresh

-----------------------------------------------------------------------------
(***************************************************************************)
(* Sequences by what is in them.                                           *)
(***************************************************************************)
LEMMA InSeq ==
  ASSUME NEW R, NEW s \in Seq(R)
  PROVE  ToSet(s) \subseteq R
<1>1. \A i \in DOMAIN s : s[i] \in R
  OBVIOUS
<1>2. QED
  BY <1>1 DEF ToSet

LEMMA TakeHead ==
  ASSUME NEW R, NEW s \in Seq(R), s # <<>>
  PROVE  /\ Head(s) \in ToSet(s) /\ Head(s) \in R
         /\ Tail(s) \in Seq(R) /\ ToSet(Tail(s)) \subseteq ToSet(s)
<1> DEFINE t == Tail(s)
           n == Len(s)
<1>1. n \in Nat /\ n >= 1
  OBVIOUS
<1>2. DOMAIN s = 1..n /\ Head(s) = s[1] /\ s[1] \in R
  OBVIOUS
<1>3. t \in Seq(R) /\ DOMAIN t = 1..(n - 1) /\ \A i \in 1..(n - 1) : t[i] = s[i + 1]
  OBVIOUS
<1> HIDE DEF t, n
<1>4. 1 \in 1..n /\ \A i \in 1..(n - 1) : i + 1 \in 1..n
  BY <1>1
<1>5. Head(s) \in ToSet(s) /\ ToSet(t) \subseteq ToSet(s)
  BY <1>2, <1>3, <1>4 DEF ToSet
<1>6. QED
  BY <1>2, <1>3, <1>5 DEF t

LEMMA PutLast ==
  ASSUME NEW R, NEW s \in Seq(R), NEW e \in R
  PROVE  Append(s, e) \in Seq(R) /\ ToSet(Append(s, e)) = ToSet(s) \cup {e}
<1> DEFINE t == Append(s, e)
           n == Len(s)
<1>1. t \in Seq(R) /\ n \in Nat
  OBVIOUS
<1>2. DOMAIN s = 1..n /\ DOMAIN t = 1..(n + 1)
  OBVIOUS
<1>3. t[n + 1] = e /\ \A i \in 1..n : t[i] = s[i]
  OBVIOUS
<1> HIDE DEF t, n
<1>4. /\ \A i \in 1..(n + 1) : i \in 1..n \/ i = n + 1
      /\ n + 1 \in 1..(n + 1) /\ \A i \in 1..n : i \in 1..(n + 1)
  BY <1>1
<1>5. ToSet(t) = ToSet(s) \cup {e}
  BY <1>2, <1>3, <1>4 DEF ToSet
<1>6. QED
  BY <1>1, <1>5 DEF t

LEMMA PutBehind ==
  ASSUME NEW R, NEW s \in Seq(R), NEW t \in Seq(R)
  PROVE  s \o t \in Seq(R) /\ ToSet(s \o t) \subseteq ToSet(s) \cup ToSet(t)
<1> DEFINE u == s \o t
           m == Len(s)
           n == Len(t)
<1>1. /\ u \in Seq(R) /\ Len(u) = m + n
      /\ \A i \in 1..(m + n) : u[i] = IF i <= m THEN s[i] ELSE t[i - m]
  BY ConcatProperties
<1>2. m \in Nat /\ n \in Nat
  OBVIOUS
<1>3. DOMAIN s = 1..m /\ DOMAIN t = 1..n
  OBVIOUS
<1>4. DOMAIN u = 1..(m + n)
  BY <1>1
<1> HIDE DEF u, m, n
<1>5. \A i \in 1..(m + n) : IF i <= m THEN i \in 1..m ELSE i - m \in 1..n
  BY <1>2
<1>6. ASSUME NEW i \in 1..(m + n) PROVE u[i] \in ToSet(s) \cup ToSet(t)
  BY <1>1, <1>3, <1>5 DEF ToSet
<1>7. ToSet(u) \subseteq ToSet(s) \cup ToSet(t)
  BY <1>4, <1>6 DEF ToSet
<1>8. QED
  BY <1>1, <1>7 DEF u

LEMMA SeqOfSet ==
  ASSUME NEW S, IsFiniteSet(S)
  PROVE  SetToSeq(S) \in Seq(S)
<1> DEFINE n == Cardinality(S)
<1>1. n \in Nat /\ ExistsBijection(1..n, S)
  BY FS_CardinalityType
<1>2. \E f \in [1..n -> S] : IsInjective(f)
  BY <1>1 DEF ExistsBijection, Bijection, Injection
<1>3. SetToSeq(S) \in [1..n -> S]
  BY <1>2 DEF SetToSeq
<1>4. QED
  BY <1>1, <1>3

(***************************************************************************)
(* What the server does: a version only grows, and what it is the version  *)
(* of changes only with it.                                                *)
(***************************************************************************)
ServerMoves ==
  /\ \A d \in Groups \cup {Me} : csn[d] <= csn'[d]
  /\ \A g \in Groups : csn'[g] = csn[g] => members'[g] = members[g]
  /\ csn'[Me] = csn[Me] => text' = text

LEMMA JobFacts ==
  ASSUME NEW j \in Job, j.what = "modify"
  PROVE  /\ j \in OwnJob \cup GroupJob /\ j.dn \in Groups \cup {Me} /\ j.save \in Nat
         /\ j.csn \in Csns
         /\ j \in OwnJob => j.op = "set" /\ j.dn = Me
         /\ j \in GroupJob => j.op # "set" /\ j.dn \in Groups
<1>1. j \notin ReadJob
  BY DEF ReadJob
<1>2. j \in OwnJob \cup GroupJob
  BY <1>1 DEF Job
<1>3. CASE j \in OwnJob
  BY <1>3 DEF OwnJob, GroupJob
<1>4. CASE j \in GroupJob
  BY <1>4 DEF OwnJob, GroupJob
<1>5. QED
  BY <1>2, <1>3, <1>4

LEMMA LandStep ==
  ASSUME ServerOK, NEW j \in OwnJob \cup GroupJob, Land(j)
  PROVE  ServerOK' /\ ServerMoves
<1>1. /\ members \in [Groups -> SUBSET Everyone] /\ csn \in [Groups \cup {Me} -> Nat] /\ text \in Texts
      /\ Me \in Everyone
  BY DEF ServerOK, Everyone
<1>2. csn' = [csn EXCEPT ![j.dn] = csn[j.dn] + 1]
  BY DEF Land
<1>3. j.dn \in Groups \cup {Me}
  BY DEF OwnJob, GroupJob
<1>4. csn' \in [Groups \cup {Me} -> Nat]
  BY <1>1, <1>2, <1>3
<1>5. /\ \A d \in Groups \cup {Me} : csn[d] <= csn'[d]
      /\ \A d \in Groups \cup {Me} : d # j.dn => csn'[d] = csn[d]
      /\ csn'[j.dn] # csn[j.dn]
  BY <1>1, <1>2, <1>3
<1>6. /\ members' \in [Groups -> SUBSET Everyone]
      /\ \A g \in Groups : g # j.dn => members'[g] = members[g]
  BY <1>1 DEF Land
<1>7. text' \in Texts /\ (j.dn # Me => text' = text)
  <2>1. CASE j \in OwnJob
    BY <1>1, <2>1 DEF Land, OwnJob
  <2>2. CASE j \in GroupJob
    BY <1>1, <2>2 DEF Land, GroupJob
  <2>3. QED
    BY <2>1, <2>2
<1>8. QED
  BY <1>4, <1>5, <1>6, <1>7 DEF ServerOK, ServerMoves

LEMMA Still ==
  ASSUME ServerOK, UNCHANGED server
  PROVE  ServerOK' /\ ServerMoves
<1>1. members' = members /\ csn' = csn /\ text' = text
  BY DEF server
<1>2. \A d \in Groups \cup {Me} : csn[d] \in Nat
  BY DEF ServerOK
<1>3. \A d \in Groups \cup {Me} : csn[d] <= csn[d]
  BY <1>2
<1>4. QED
  BY <1>1, <1>3 DEF ServerOK, ServerMoves

LEMMA ChangeStep ==
  ASSUME ServerOK, OtherClient
  PROVE  ServerOK' /\ ServerMoves
<1>1. /\ members \in [Groups -> SUBSET Everyone] /\ csn \in [Groups \cup {Me} -> Nat] /\ text \in Texts
  BY DEF ServerOK
<1>2. ASSUME NEW g \in Groups, NEW who \in Everyone, Change(g, who)
      PROVE  ServerOK' /\ ServerMoves
  <2> DEFINE after == IF who \in members[g] THEN members[g] \ {who} ELSE members[g] \cup {who}
  <2>1. after \in SUBSET Everyone
    BY <1>1
  <2>2. members' = [members EXCEPT ![g] = after] /\ csn' = [csn EXCEPT ![g] = csn[g] + 1] /\ text' = text
    BY <1>2 DEF Change
  <2> HIDE DEF after
  <2>3. members' \in [Groups -> SUBSET Everyone] /\ csn' \in [Groups \cup {Me} -> Nat]
    BY <1>1, <2>1, <2>2
  <2>4. /\ \A d \in Groups \cup {Me} : csn[d] <= csn'[d]
        /\ \A h \in Groups : csn'[h] = csn[h] => members'[h] = members[h]
    BY <1>1, <2>2
  <2>5. QED
    BY <1>1, <2>2, <2>3, <2>4 DEF ServerOK, ServerMoves
<1>3. ASSUME NEW t \in Texts, ChangeText(t)
      PROVE  ServerOK' /\ ServerMoves
  <2>1. members' = members /\ text' = t /\ csn' = [csn EXCEPT ![Me] = csn[Me] + 1]
    BY <1>3 DEF ChangeText
  <2>2. csn' \in [Groups \cup {Me} -> Nat]
    BY <1>1, <2>1
  <2>3. csn'[Me] # csn[Me] /\ \A d \in Groups \cup {Me} : csn[d] <= csn'[d]
    BY <1>1, <2>1
  <2>4. QED
    BY <1>1, <2>1, <2>2, <2>3 DEF ServerOK, ServerMoves
<1>4. QED
  BY <1>2, <1>3 DEF OtherClient, Everyone

\* Every step but the worker's and the other clients' leaves the server alone.
LEMMA ServerStep ==
  ASSUME TypeOK, [Next]_vars
  PROVE  ServerOK' /\ ServerMoves
<1>1. ServerOK
  BY DEF TypeOK
<1>2. CASE Serve
  <2>1. jobs \in Seq(Job) /\ jobs # <<>>
    BY <1>2 DEF TypeOK, Serve
  <2>2. Head(jobs) \in Job
    BY <2>1, TakeHead
  <2>3. CASE ServeRead(Head(jobs))
    BY <1>1, <2>3, Still DEF ServeRead
  <2>4. CASE ServeLeg(Head(jobs))
    <3>1. Head(jobs) \in OwnJob \cup GroupJob
      BY <2>2, <2>4, JobFacts DEF ServeLeg
    <3>2. UNCHANGED server \/ Land(Head(jobs))
      BY <2>4 DEF ServeLeg
    <3>3. QED
      BY <1>1, <3>1, <3>2, Still, LandStep
  <2>5. QED
    BY <1>2, <2>3, <2>4 DEF Serve
<1>3. CASE OtherClient
  BY <1>1, <1>3, ChangeStep
<1>4. CASE \/ \E g \in Groups : ToggleGroup(g)
           \/ \E t \in Texts : TypeText(t)
           \/ ReadAgain \/ PressSave \/ Fetch \/ Fetched \/ Check \/ Cancel \/ Confirm
           \/ Pump \/ UNCHANGED vars
  <2>1. UNCHANGED server
    BY <1>4 DEF ToggleGroup, TypeText, ReadAgain, PressSave, Fetch, Fetched, Check, Cancel, Confirm,
                Pump, vars
  <2>2. QED
    BY <1>1, <2>1, Still
<1>5. QED
  BY <1>2, <1>3, <1>4 DEF Next

(***************************************************************************)
(* What is known ages well.                                                *)
(***************************************************************************)
LEMMA Aged ==
  ASSUME ServerOK, ServerOK', ServerMoves, NEW c \in Csns
  PROVE  /\ \A t : Knows(c, t, csn[Me], text) => Knows(c, t, csn'[Me], text')
         /\ \A g \in Groups : \A m :
              KnowsGroup(c, m, csn[g], members[g]) => KnowsGroup(c, m, csn'[g], members'[g])
<1>1. \A d \in Groups \cup {Me} : csn[d] \in Nat /\ csn'[d] \in Nat /\ csn[d] <= csn'[d]
  BY DEF ServerOK, ServerMoves
<1>2. c # None => c \in Nat
  BY DEF Csns
<1>3. ASSUME NEW t, Knows(c, t, csn[Me], text) PROVE Knows(c, t, csn'[Me], text')
  <2>1. csn'[Me] = csn[Me] => text' = text
    BY DEF ServerMoves
  <2>2. QED
    BY <1>1, <1>2, <1>3, <2>1 DEF Knows
<1>4. ASSUME NEW g \in Groups, NEW m, KnowsGroup(c, m, csn[g], members[g])
      PROVE  KnowsGroup(c, m, csn'[g], members'[g])
  <2>1. csn'[g] = csn[g] => members'[g] = members[g]
    BY DEF ServerMoves
  <2>2. QED
    BY <1>1, <1>2, <1>4, <2>1 DEF KnowsGroup
<1>5. QED
  BY <1>3, <1>4

(***************************************************************************)
(* The form and the entries read for it.                                   *)
(***************************************************************************)
LEMMA EntryFacts ==
  ASSUME ServerOK
  PROVE  Entry \in Form /\ Knows(Entry.csn, Entry.was, csn[Me], text)
<1>1. csn[Me] \in Nat /\ text \in Texts
  BY DEF ServerOK
<1>2. Entry \in Form
  BY <1>1 DEF Entry, Form, MyGroups
<1>3. Entry.csn = csn[Me] /\ Entry.was = text
  BY DEF Entry
<1>4. QED
  BY <1>1, <1>2, <1>3 DEF Knows

LEMMA PolledFacts ==
  ASSUME TypeOK, ReadsFresh, resps # <<>>
  PROVE  /\ Tail(resps) \in Seq(Responses) /\ ToSet(Tail(resps)) \subseteq ToSet(resps)
         /\ Head(resps).what = "read" =>
              /\ Head(resps).entry \in Form
              /\ Knows(Head(resps).entry.csn, Head(resps).entry.was, csn[Me], text)
         /\ Head(resps).what # "read" => Head(resps).save \in Nat
<1>1. resps \in Seq(Responses)
  BY DEF TypeOK
<1>2. /\ Head(resps) \in ToSet(resps) /\ Head(resps) \in Responses
      /\ Tail(resps) \in Seq(Responses) /\ ToSet(Tail(resps)) \subseteq ToSet(resps)
  BY <1>1, TakeHead
<1>3. CASE Head(resps) \in Entries
  <2>1. Head(resps).entry \in Form /\ Head(resps).what = "read"
    BY <1>3 DEF Entries
  <2>2. QED
    BY <1>2, <1>3, <2>1 DEF ReadsFresh
<1>4. CASE Head(resps) \in Verdicts
  <2>1. Head(resps).save \in Nat /\ Head(resps).what # "read"
    BY <1>4 DEF Verdicts
  <2>2. QED
    BY <1>2, <2>1
<1>5. QED
  BY <1>2, <1>3, <1>4 DEF Responses

LEMMA FormStep ==
  ASSUME IInv, [Next]_vars
  PROVE  form' \in Form /\ FormFresh'
<1>1. ServerOK /\ ServerOK' /\ ServerMoves
  BY ServerStep DEF IInv, TypeOK
<1>2. form \in Form /\ Knows(form.csn, form.was, csn[Me], text)
  BY DEF IInv, TypeOK, ClientOK, FormFresh
<1>3. ASSUME NEW f \in Form, Knows(f.csn, f.was, csn[Me], text), form' = f
      PROVE  form' \in Form /\ FormFresh'
  <2>1. f.csn \in Csns
    BY DEF Form, Csns
  <2>2. Knows(f.csn, f.was, csn'[Me], text')
    BY <1>1, <1>3, <2>1, Aged
  <2>3. QED
    BY <1>3, <2>2 DEF FormFresh
<1>4. CASE UNCHANGED form
  BY <1>2, <1>3, <1>4
<1>5. ASSUME NEW g \in Groups, ToggleGroup(g)
      PROVE  form' \in Form /\ FormFresh'
  <2> DEFINE c == IF g \in form.chosen THEN form.chosen \ {g} ELSE form.chosen \cup {g}
             f == [form EXCEPT !.chosen = c]
  <2>1. c \in SUBSET Groups
    BY <1>2 DEF Form
  <2>2. form' = f
    BY <1>5 DEF ToggleGroup
  <2> HIDE DEF c
  <2>3. f \in Form /\ f.csn = form.csn /\ f.was = form.was
    BY <1>2, <2>1 DEF Form
  <2> HIDE DEF f
  <2>4. QED
    BY <1>2, <1>3, <2>2, <2>3
<1>6. ASSUME NEW t \in Texts, TypeText(t)
      PROVE  form' \in Form /\ FormFresh'
  <2> DEFINE f == [form EXCEPT !.now = t]
  <2>1. form' = f
    BY <1>6 DEF TypeText
  <2>2. f \in Form /\ f.csn = form.csn /\ f.was = form.was
    BY <1>2 DEF Form
  <2> HIDE DEF f
  <2>3. QED
    BY <1>2, <1>3, <2>1, <2>2
<1>7. CASE Pump
  <2>1. resps # <<>> /\ (UNCHANGED form \/ (Head(resps).what = "read" /\ form' = Head(resps).entry))
    BY <1>7 DEF Pump, PumpRead, PumpOk, PumpFailure
  <2>2. CASE Head(resps).what = "read" /\ form' = Head(resps).entry
    BY <1>3, <2>1, <2>2, PolledFacts DEF IInv
  <2>3. QED
    BY <1>4, <2>1, <2>2
<1>8. CASE \/ ReadAgain \/ PressSave \/ Fetch \/ Fetched \/ Check \/ Cancel \/ Confirm
           \/ Serve \/ OtherClient \/ UNCHANGED vars
  <2>1. UNCHANGED form
    BY <1>8 DEF ReadAgain, PressSave, Fetch, Fetched, Check, Cancel, Confirm, Serve, OtherClient,
                vars, client
  <2>2. QED
    BY <1>4, <2>1
<1>9. QED
  BY <1>5, <1>6, <1>7, <1>8 DEF Next

LEMMA RespsStep ==
  ASSUME IInv, [Next]_vars
  PROVE  resps' \in Seq(Responses) /\ ReadsFresh'
<1>1. ServerOK /\ ServerOK' /\ ServerMoves /\ resps \in Seq(Responses)
  BY ServerStep DEF IInv, TypeOK
<1>2. ASSUME NEW r \in Entries, Knows(r.entry.csn, r.entry.was, csn[Me], text)
      PROVE  Knows(r.entry.csn, r.entry.was, csn'[Me], text')
  <2>1. r.entry.csn \in Csns
    BY DEF Entries, Form, Csns
  <2>2. QED
    BY <1>1, <1>2, <2>1, Aged
<1>3. ASSUME ToSet(resps') \subseteq ToSet(resps)
      PROVE  ReadsFresh'
  BY <1>2, <1>3 DEF IInv, ReadsFresh
<1>4. CASE Serve
  <2>1. jobs \in Seq(Job) /\ jobs # <<>>
    BY <1>4 DEF IInv, TypeOK, Serve
  <2>2. Head(jobs) \in Job
    BY <2>1, TakeHead
  <2>3. CASE ServeRead(Head(jobs))
    <3> DEFINE r == [what |-> "read", entry |-> Entry]
    <3>1. resps' = Append(resps, r)
      BY <2>3 DEF ServeRead, Answered
    <3>2. r \in Entries /\ r.entry = Entry
      BY <1>1, EntryFacts DEF Entries
    <3> HIDE DEF r
    <3>3. Knows(r.entry.csn, r.entry.was, csn[Me], text)
      BY <1>1, <3>2, EntryFacts
    <3>4. resps' \in Seq(Responses) /\ ToSet(resps') = ToSet(resps) \cup {r}
      BY <1>1, <3>1, <3>2, PutLast DEF Responses
    <3>5. QED
      BY <1>2, <3>2, <3>3, <3>4 DEF IInv, ReadsFresh
  <2>4. CASE ServeLeg(Head(jobs))
    <3>1. PICK v \in {"ok", "error", "conflict"} : Verdict(Head(jobs), v)
      BY <2>4 DEF ServeLeg
    <3> DEFINE r == [what |-> v, save |-> Head(jobs).save]
    <3>2. resps' = Append(resps, r)
      BY <3>1 DEF Verdict, Answered
    <3>3. Head(jobs).save \in Nat
      BY <2>2, <2>4, JobFacts DEF ServeLeg
    <3>4. r \in Verdicts /\ r \notin Entries
      BY <3>3 DEF Verdicts, Entries
    <3> HIDE DEF r
    <3>5. resps' \in Seq(Responses) /\ ToSet(resps') = ToSet(resps) \cup {r}
      BY <1>1, <3>2, <3>4, PutLast DEF Responses
    <3>6. QED
      BY <1>2, <3>4, <3>5 DEF IInv, ReadsFresh
  <2>5. QED
    BY <1>4, <2>3, <2>4 DEF Serve
<1>5. CASE Pump
  <2>1. resps # <<>> /\ resps' = Tail(resps)
    BY <1>5 DEF Pump
  <2>2. QED
    BY <1>3, <2>1, PolledFacts DEF IInv
<1>6. CASE \/ \E g \in Groups : ToggleGroup(g)
           \/ \E t \in Texts : TypeText(t)
           \/ ReadAgain \/ PressSave \/ Fetch \/ Fetched \/ Check \/ Cancel \/ Confirm
           \/ OtherClient \/ UNCHANGED vars
  <2>1. resps' = resps
    BY <1>6 DEF ToggleGroup, TypeText, ReadAgain, PressSave, Fetch, Fetched, Check, Cancel, Confirm,
                OtherClient, vars
  <2>2. QED
    BY <1>1, <1>3, <2>1
<1>7. QED
  BY <1>4, <1>5, <1>6 DEF Next

(***************************************************************************)
(* The save being prepared.                                                *)
(***************************************************************************)
LEMMA LegsOfGroups ==
  ASSUME NEW S \in SUBSET Groups, NEW o \in {"add", "delete"}
  PROVE  SetToSeq({[dn |-> g, op |-> o] : g \in S}) \in Seq(Leg)
<1> DEFINE T == {[dn |-> g, op |-> o] : g \in S}
           f == [l \in T |-> l.dn]
<1>1. f \in [T -> Groups] /\ IsInjective(f)
  BY DEF IsInjective
<1>2. f \in Injection(T, Groups)
  BY <1>1 DEF Injection
<1>3. IsFiniteSet(Groups)
  BY MembershipAssumption
<1>4. T \subseteq Leg
  BY DEF Leg
<1> HIDE DEF T, f
<1>5. IsFiniteSet(T)
  BY <1>2, <1>3, FS_Injection
<1>6. SetToSeq(T) \in Seq(T)
  BY <1>5, SeqOfSet
<1>7. QED
  BY <1>4, <1>6 DEF T

LEMMA FanoutType ==
  ASSUME form \in Form
  PROVE  Fanout \in Seq(Leg)
<1>1. form.chosen \ form.base \in SUBSET Groups /\ form.base \ form.chosen \in SUBSET Groups
  BY DEF Form
<1>2. /\ SetToSeq({[dn |-> g, op |-> "add"] : g \in form.chosen \ form.base}) \in Seq(Leg)
      /\ SetToSeq({[dn |-> g, op |-> "delete"] : g \in form.base \ form.chosen}) \in Seq(Leg)
  BY <1>1, LegsOfGroups
<1>3. QED
  BY <1>2, PutBehind DEF Fanout

\* The next stage changes only where the save is and what is left to fetch.
LEMMA StageFacts ==
  ASSUME NEW u, NEW p \in Plan(u), NEW n \in {1, 2, 3}
  PROVE  LET q == Stage(n, p) IN
         /\ q \in Plan(q.todo) /\ q # Idle
         /\ q.ownCsn = p.ownCsn /\ q.was = p.was /\ q.csns = p.csns /\ q.seen = p.seen
         /\ q.at \in {"csns", "members", "check"} /\ (q.at = "csns" => n = 1)
<1>1. Len(Stages) = 2 /\ Stages[1] = "csns" /\ Stages[2] = "members"
  BY DEF Stages
<1>2. CASE n = 3
  <2>1. Stage(n, p) = [p EXCEPT !.at = "check"]
    BY <1>1, <1>2 DEF Stage
  <2>2. QED
    BY <1>2, <2>1 DEF Plan, Idle
<1>3. ASSUME n \in {1, 2}
      PROVE  \E t : Stage(n, p) = [p EXCEPT !.at = Stages[n], !.stage = n, !.todo = t]
  <2> DEFINE t == IF Stages[n] = "members" THEN Removals(p.fan)
                  ELSE IF supported THEN p.fan ELSE <<>>
  <2>1. ~(n > Len(Stages))
    BY <1>1, <1>3
  <2>2. Stage(n, p) = [p EXCEPT !.at = Stages[n], !.stage = n, !.todo = t]
    BY <2>1, Zenon DEF Stage
  <2>3. QED
    BY <2>2, Zenon
<1>4. ASSUME n \in {1, 2}, NEW t, NEW q, q = [p EXCEPT !.at = Stages[n], !.stage = n, !.todo = t]
      PROVE  /\ q \in Plan(q.todo) /\ q # Idle
             /\ q.ownCsn = p.ownCsn /\ q.was = p.was /\ q.csns = p.csns /\ q.seen = p.seen
             /\ q.at \in {"csns", "members", "check"} /\ (q.at = "csns" => n = 1)
  <2>1. Stages[n] \in {"csns", "members"} /\ (Stages[n] = "csns" => n = 1)
    BY <1>1, <1>4
  <2>2. q \in Plan(t) /\ q.todo = t
    BY <1>4, <2>1 DEF Plan
  <2>3. q # Idle
    BY <2>2 DEF Plan, Idle
  <2>4. /\ q.ownCsn = p.ownCsn /\ q.was = p.was /\ q.csns = p.csns /\ q.seen = p.seen
        /\ q.at = Stages[n]
    BY <1>4 DEF Plan
  <2>5. QED
    BY <2>1, <2>2, <2>3, <2>4
<1>5. QED
  BY <1>2, <1>3, <1>4

PlanOK(p) ==
  /\ Knows(p.ownCsn, p.was, csn[Me], text)
  /\ \A g \in Groups : KnowsGroup(p.csns[g], p.seen[g], csn[g], members[g])
  /\ p.at = "csns" => \A g \in Groups : p.seen[g] = {}
  /\ p.at = "confirm" => Permitted(p.fan, p.seen)

\* A plan that is fresh stays so while the server moves on.
LEMMA PlanKept ==
  ASSUME ServerOK, ServerOK', ServerMoves, NEW u, NEW p \in Plan(u), PlanOK(p)
  PROVE  PlanOK(p)'
<1>1. p.ownCsn \in Csns /\ \A g \in Groups : p.csns[g] \in Csns
  BY DEF Plan
<1>2. Knows(p.ownCsn, p.was, csn'[Me], text')
  BY <1>1, Aged DEF PlanOK
<1>3. \A g \in Groups : KnowsGroup(p.csns[g], p.seen[g], csn'[g], members'[g])
  BY <1>1, Aged DEF PlanOK
<1>4. QED
  BY <1>2, <1>3 DEF PlanOK

LEMMA FetchStep ==
  ASSUME ServerOK, NEW u, NEW p \in Plan(u), PlanOK(p), p = step, Fetch
  PROVE  step' \in Plan(step'.todo) /\ PlanOK(step')
<1> DEFINE d == Head(step.todo).dn
           t == Tail(step.todo)
           m == IF d \in Must THEN members[d] ELSE {}
           rest == [p EXCEPT !.todo = t]
<1>1. \A g \in Groups : csn[g] \in Nat /\ members[g] \in SUBSET Everyone
  BY DEF ServerOK
<1>2. p.at \in {"csns", "members"}
  BY DEF Fetch, Fetching
<1>3. rest \in Plan(t) /\ rest.todo = t /\ PlanOK(rest)
  BY <1>2 DEF Plan, PlanOK
<1>4. CASE step' = rest
  BY <1>3, <1>4
<1>5. ASSUME p.at = "csns", NEW q, q = [rest EXCEPT !.csns[d] = csn[d]]
      PROVE  q \in Plan(q.todo) /\ PlanOK(q)
  <2> DEFINE cs == [p.csns EXCEPT ![d] = csn[d]]
  <2>1. p.csns \in [Groups -> Csns] /\ \A g \in Groups : p.seen[g] = {}
    BY <1>5 DEF Plan, PlanOK
  <2>2. cs \in [Groups -> Csns]
    BY <1>1, <2>1 DEF Csns
  <2>3. \A g \in Groups : KnowsGroup(cs[g], {}, csn[g], members[g])
    <3> SUFFICES ASSUME NEW g \in Groups PROVE KnowsGroup(cs[g], {}, csn[g], members[g])
      OBVIOUS
    <3>1. KnowsGroup(p.csns[g], {}, csn[g], members[g])
      BY <2>1 DEF PlanOK
    <3>2. cs[g] = p.csns[g] \/ cs[g] = csn[g]
      BY <2>1
    <3>3. QED
      BY <1>1, <3>1, <3>2 DEF KnowsGroup
  <2>4. q = [rest EXCEPT !.csns = cs]
    BY <1>3, <1>5 DEF Plan
  <2> HIDE DEF cs
  <2>5. /\ q \in Plan(t) /\ q.todo = t /\ q.csns = cs /\ q.seen = p.seen /\ q.ownCsn = p.ownCsn
        /\ q.was = p.was /\ q.at = "csns"
    BY <1>3, <1>5, <2>2, <2>4 DEF Plan
  <2>6. QED
    BY <2>1, <2>3, <2>5 DEF PlanOK
<1>6. ASSUME p.at = "members", NEW q, q = [rest EXCEPT !.seen[d] = m]
      PROVE  q \in Plan(q.todo) /\ PlanOK(q)
  <2> DEFINE ms == [p.seen EXCEPT ![d] = m]
  <2>1. p.seen \in [Groups -> SUBSET Everyone]
    BY <1>6 DEF Plan
  <2>2. ms \in [Groups -> SUBSET Everyone]
    BY <1>1, <2>1, MembershipAssumption
  <2>3. \A g \in Groups : KnowsGroup(p.csns[g], ms[g], csn[g], members[g])
    <3> SUFFICES ASSUME NEW g \in Groups PROVE KnowsGroup(p.csns[g], ms[g], csn[g], members[g])
      OBVIOUS
    <3>1. KnowsGroup(p.csns[g], p.seen[g], csn[g], members[g])
      BY DEF PlanOK
    <3>2. ms[g] = p.seen[g] \/ ms[g] = members[g] \/ ms[g] = {}
      BY <2>1
    <3>3. QED
      BY <3>1, <3>2 DEF KnowsGroup
  <2>4. q = [rest EXCEPT !.seen = ms]
    BY <1>3, <1>6 DEF Plan
  <2> HIDE DEF ms
  <2>5. /\ q \in Plan(t) /\ q.todo = t /\ q.csns = p.csns /\ q.seen = ms /\ q.ownCsn = p.ownCsn
        /\ q.was = p.was /\ q.at = "members"
    BY <1>3, <1>6, <2>2, <2>4 DEF Plan
  <2>6. QED
    BY <2>3, <2>5 DEF PlanOK
<1>7. \/ step' = rest
      \/ p.at = "csns" /\ step' = [rest EXCEPT !.csns[d] = csn[d]]
      \/ p.at = "members" /\ step' = [rest EXCEPT !.seen[d] = m]
  BY <1>2 DEF Fetch
<1>8. QED
  BY <1>4, <1>5, <1>6, <1>7

LEMMA PlanStep ==
  ASSUME IInv, [Next]_vars
  PROVE  (step' # Idle => step' \in Plan(step'.todo)) /\ PlanFresh'
<1>1. ServerOK /\ ServerOK' /\ ServerMoves
  BY ServerStep DEF IInv, TypeOK
<1>2. step # Idle => step \in Plan(step.todo) /\ PlanOK(step)
  BY DEF IInv, TypeOK, ClientOK, PlanFresh, PlanOK
<1>3. SUFFICES ASSUME step' # Idle PROVE step' \in Plan(step'.todo) /\ PlanFresh'
  BY DEF PlanFresh
<1>4. ASSUME NEW u, NEW p \in Plan(u), PlanOK(p), step' = p
      PROVE  step' \in Plan(step'.todo) /\ PlanFresh'
  <2>1. PlanOK(p)'
    BY <1>1, <1>4, PlanKept
  <2>2. p.todo = u
    BY DEF Plan
  <2>3. QED
    BY <1>4, <2>1, <2>2 DEF PlanOK, PlanFresh
<1>5. CASE UNCHANGED step
  BY <1>2, <1>3, <1>4, <1>5
<1>6. CASE PressSave
  <2> DEFINE p == [at |-> "csns", stage |-> 1, todo |-> <<>>, fan |-> Fanout,
                   was |-> form.was, now |-> form.now,
                   ownCsn |-> IF supported THEN form.csn ELSE None,
                   csns |-> [g \in Groups |-> None],
                   seen |-> [g \in Groups |-> {}]]
             q == Stage(1, p)
  <2>1. form \in Form /\ Knows(form.csn, form.was, csn[Me], text)
    BY DEF IInv, TypeOK, ClientOK, FormFresh
  <2>2. Fanout \in Seq(Leg)
    BY <2>1, FanoutType
  <2>3. form.was \in Texts /\ form.now \in Texts /\ form.csn \in Csns /\ None \in Csns
    BY <2>1 DEF Form, Csns
  <2>4. p \in Plan(<<>>)
    BY <2>2, <2>3 DEF Plan
  <2>5. PlanOK(p)
    BY <2>1 DEF PlanOK, Knows, KnowsGroup
  <2>6. /\ \A g \in Groups : p.seen[g] = {}
        /\ step' = q
    BY <1>6 DEF PressSave
  <2> HIDE DEF p
  <2>7. /\ q \in Plan(q.todo) /\ q.ownCsn = p.ownCsn /\ q.was = p.was /\ q.csns = p.csns
        /\ q.seen = p.seen /\ q.at # "confirm"
    BY <2>4, StageFacts
  <2> HIDE DEF q
  <2>8. PlanOK(q)
    BY <2>5, <2>6, <2>7 DEF PlanOK
  <2>9. QED
    BY <1>4, <2>6, <2>7, <2>8
<1>7. CASE Fetch
  <2>1. step # Idle
    BY <1>7 DEF Fetch, Fetching, Idle
  <2>2. PICK q : q = step'
    OBVIOUS
  <2>3. q \in Plan(q.todo) /\ PlanOK(q)
    BY <1>1, <1>2, <1>7, <2>1, <2>2, FetchStep
  <2>4. QED
    BY <1>4, <2>2, <2>3
<1>8. CASE Fetched
  <2>1. step # Idle
    BY <1>8 DEF Fetched, Fetching, Idle
  <2> DEFINE q == Stage(step.stage + 1, step)
  <2>2. step \in Plan(step.todo) /\ PlanOK(step)
    BY <1>2, <2>1
  <2>3. step.stage + 1 \in {1, 2, 3} /\ step.stage + 1 # 1
    BY <2>2 DEF Plan
  <2>4. /\ q \in Plan(q.todo) /\ q.ownCsn = step.ownCsn /\ q.was = step.was /\ q.csns = step.csns
        /\ q.seen = step.seen /\ q.at # "confirm" /\ q.at # "csns"
    BY <2>2, <2>3, StageFacts
  <2>5. step' = q
    BY <1>8 DEF Fetched
  <2> HIDE DEF q
  <2>6. PlanOK(q)
    BY <2>2, <2>4 DEF PlanOK
  <2>7. QED
    BY <1>4, <2>4, <2>5, <2>6
<1>9. CASE Check
  <2>1. step # Idle
    BY <1>9 DEF Check, Idle
  <2>2. step \in Plan(step.todo) /\ PlanOK(step)
    BY <1>2, <2>1
  <2>3. ~Empties /\ step' = [step EXCEPT !.at = "confirm"]
    BY <1>3, <1>9 DEF Check
  <2> DEFINE q == [step EXCEPT !.at = "confirm"]
  <2>4. /\ q \in Plan(step.todo) /\ q.ownCsn = step.ownCsn /\ q.was = step.was /\ q.csns = step.csns
        /\ q.seen = step.seen /\ q.at = "confirm" /\ q.fan = step.fan
    BY <2>2 DEF Plan
  <2>5. Permitted(step.fan, step.seen)
    BY <2>3 DEF Empties, Permitted
  <2> HIDE DEF q
  <2>6. PlanOK(q)
    BY <2>2, <2>4, <2>5 DEF PlanOK
  <2>7. QED
    BY <1>4, <2>3, <2>4, <2>6 DEF q
<1>10. CASE \/ \E g \in Groups : ToggleGroup(g)
            \/ \E t \in Texts : TypeText(t)
            \/ ReadAgain \/ Cancel \/ Confirm \/ Serve \/ OtherClient \/ Pump \/ UNCHANGED vars
  <2>1. UNCHANGED step
    BY <1>3, <1>10 DEF ToggleGroup, TypeText, ReadAgain, Cancel, Confirm, Serve, OtherClient, Pump,
                       vars, client
  <2>2. QED
    BY <1>5, <2>1
<1>11. QED
  BY <1>6, <1>7, <1>8, <1>9, <1>10 DEF Next

(***************************************************************************)
(* The legs sent.                                                          *)
(***************************************************************************)
JobOK(j) ==
  /\ j \in OwnJob => Knows(j.csn, j.was, csn[Me], text)
  /\ j \in GroupJob =>
       /\ KnowsGroup(j.csn, j.seen, csn[j.dn], members[j.dn])
       /\ j.op = "delete" => j.seen # {Me}

LEMMA JobKept ==
  ASSUME ServerOK, ServerOK', ServerMoves, NEW j, JobOK(j)
  PROVE  JobOK(j)'
<1>1. CASE j \in OwnJob
  <2>1. j \notin GroupJob /\ j.csn \in Csns
    BY <1>1 DEF OwnJob, GroupJob
  <2>2. Knows(j.csn, j.was, csn'[Me], text')
    BY <1>1, <2>1, Aged DEF JobOK
  <2>3. QED
    BY <2>1, <2>2 DEF JobOK
<1>2. CASE j \in GroupJob
  <2>1. j \notin OwnJob /\ j.csn \in Csns /\ j.dn \in Groups
    BY <1>2 DEF OwnJob, GroupJob
  <2>2. KnowsGroup(j.csn, j.seen, csn'[j.dn], members'[j.dn])
    BY <1>2, <2>1, Aged DEF JobOK
  <2>3. QED
    BY <1>2, <2>1, <2>2 DEF JobOK
<1>3. CASE j \notin OwnJob /\ j \notin GroupJob
  BY <1>3 DEF JobOK
<1>4. QED
  BY <1>1, <1>2, <1>3

LEMMA JobsAreOK == JobsFresh <=> \A j \in ToSet(jobs) : JobOK(j)
  BY DEF JobsFresh, JobOK

LEMMA LegsFacts ==
  ASSUME ServerOK, ClientOK, PlanFresh, step # Idle, step.at = "confirm"
  PROVE  Legs \in Seq(Job) /\ \A j \in ToSet(Legs) : JobOK(j)
<1> DEFINE own == [what |-> "modify", save |-> saves, dn |-> Me, op |-> "set", was |-> step.was,
                   now |-> step.now, csn |-> OwnCsn(step)]
           mine == IF step.was = step.now THEN <<>> ELSE <<own>>
           leg(i) == [what |-> "modify", save |-> saves, dn |-> step.fan[i].dn,
                      op |-> step.fan[i].op, csn |-> step.csns[step.fan[i].dn],
                      seen |-> step.seen[step.fan[i].dn]]
           theirs == [i \in DOMAIN step.fan |-> leg(i)]
<1>1. /\ step.fan \in Seq(Leg) /\ step.was \in Texts /\ step.now \in Texts /\ step.ownCsn \in Csns
      /\ step.csns \in [Groups -> Csns] /\ step.seen \in [Groups -> SUBSET Everyone]
      /\ saves \in Nat
  BY DEF ClientOK, Plan
<1>2. own \in OwnJob /\ JobOK(own)
  <2>1. own \in OwnJob /\ own.csn = step.ownCsn /\ own.was = step.was
    BY <1>1 DEF OwnJob, OwnCsn
  <2>2. own \notin GroupJob
    BY DEF GroupJob
  <2>3. QED
    BY <2>1, <2>2 DEF PlanFresh, JobOK
<1>3. mine \in Seq(Job) /\ \A j \in ToSet(mine) : JobOK(j)
  <2> HIDE DEF own
  <2>1. own \in Job
    BY <1>2 DEF Job
  <2>2. ToSet(<<own>>) = {own} /\ ToSet(<<>>) = {}
    BY DEF ToSet
  <2>3. QED
    BY <1>2, <2>1, <2>2
<1>4. ASSUME NEW i \in DOMAIN step.fan
      PROVE  leg(i) \in GroupJob /\ JobOK(leg(i))
  <2>1. step.fan[i] \in Leg
    BY <1>1
  <2>2. step.fan[i].dn \in Groups /\ step.fan[i].op \in {"add", "delete"}
    BY <2>1 DEF Leg
  <2>3. leg(i) \in GroupJob
    BY <1>1, <2>2 DEF GroupJob
  <2>4. leg(i) \notin OwnJob
    BY <2>2 DEF OwnJob
  <2>5. KnowsGroup(step.csns[step.fan[i].dn], step.seen[step.fan[i].dn], csn[step.fan[i].dn],
                   members[step.fan[i].dn])
    BY <2>2 DEF PlanFresh
  <2>6. step.fan[i].op = "delete" => step.seen[step.fan[i].dn] # {Me}
    BY DEF PlanFresh, Permitted
  <2>7. QED
    BY <2>3, <2>4, <2>5, <2>6 DEF JobOK
<1>5. theirs \in Seq(Job) /\ \A j \in ToSet(theirs) : JobOK(j)
  <2>1. DOMAIN step.fan = 1..Len(step.fan) /\ Len(step.fan) \in Nat
    BY <1>1
  <2>2. \A i \in DOMAIN step.fan : theirs[i] = leg(i) /\ leg(i) \in Job
    BY <1>4 DEF Job
  <2> HIDE DEF leg
  <2>3. theirs \in Seq(Job)
    <3> DEFINE n == Len(step.fan)
    <3>1. theirs \in [1..n -> Job] /\ n \in Nat
      BY <2>1, <2>2
    <3> HIDE DEF theirs, n
    <3>2. QED
      BY <3>1
  <2>4. ToSet(theirs) = {leg(i) : i \in DOMAIN step.fan}
    BY <2>2 DEF ToSet
  <2>5. QED
    BY <1>4, <2>3, <2>4
<1>6. Legs = mine \o theirs
  BY DEF Legs
<1> HIDE DEF mine, theirs
<1>7. Legs \in Seq(Job) /\ ToSet(Legs) \subseteq ToSet(mine) \cup ToSet(theirs)
  BY <1>3, <1>5, <1>6, PutBehind
<1>8. QED
  BY <1>3, <1>5, <1>7

LEMMA JobsStep ==
  ASSUME IInv, [Next]_vars
  PROVE  jobs' \in Seq(Job) /\ JobsFresh'
<1>1. ServerOK /\ ServerOK' /\ ServerMoves /\ jobs \in Seq(Job)
  BY ServerStep DEF IInv, TypeOK
<1>2. \A j \in ToSet(jobs) : JobOK(j)
  BY JobsAreOK DEF IInv
<1>3. ASSUME jobs' \in Seq(Job), \A j \in ToSet(jobs') : JobOK(j)
      PROVE  jobs' \in Seq(Job) /\ JobsFresh'
  <2>1. \A j \in ToSet(jobs') : JobOK(j)'
    BY <1>1, <1>3, JobKept
  <2>2. QED
    BY <1>3, <2>1 DEF JobsFresh, JobOK
<1>4. CASE jobs' = Append(jobs, [what |-> "read"])
  <2> DEFINE r == [what |-> "read"]
  <2>1. r \in Job /\ JobOK(r)
    BY DEF Job, ReadJob, JobOK, OwnJob, GroupJob
  <2> HIDE DEF r
  <2>2. jobs' = Append(jobs, r)
    BY <1>4 DEF r
  <2>3. QED
    BY <1>1, <1>2, <1>3, <2>1, <2>2, PutLast
<1>5. CASE Confirm
  <2>1. step # Idle /\ step.at = "confirm" /\ jobs' = jobs \o Legs
    BY <1>5 DEF Confirm, Idle
  <2>2. Legs \in Seq(Job) /\ \A j \in ToSet(Legs) : JobOK(j)
    BY <2>1, LegsFacts DEF IInv, TypeOK
  <2>3. jobs' \in Seq(Job) /\ ToSet(jobs') \subseteq ToSet(jobs) \cup ToSet(Legs)
    BY <1>1, <2>1, <2>2, PutBehind
  <2>4. QED
    BY <1>2, <1>3, <2>2, <2>3
<1>6. CASE Serve
  <2>1. jobs # <<>> /\ jobs' = Tail(jobs)
    BY <1>6 DEF Serve, ServeRead, ServeLeg, Verdict, Answered
  <2>2. jobs' \in Seq(Job) /\ ToSet(jobs') \subseteq ToSet(jobs)
    BY <1>1, <2>1, TakeHead
  <2>3. QED
    BY <1>2, <1>3, <2>2
<1>7. CASE UNCHANGED jobs
  BY <1>1, <1>2, <1>3, <1>7
<1>8. CASE ReadAgain \/ Pump
  BY <1>4, <1>7, <1>8 DEF ReadAgain, Pump, PumpRead, PumpOk, PumpFailure
<1>9. CASE \/ \E g \in Groups : ToggleGroup(g)
           \/ \E t \in Texts : TypeText(t)
           \/ PressSave \/ Fetch \/ Fetched \/ Check \/ Cancel \/ OtherClient \/ UNCHANGED vars
  <2>1. UNCHANGED jobs
    BY <1>9 DEF ToggleGroup, TypeText, PressSave, Fetch, Fetched, Check, Cancel, OtherClient, vars
  <2>2. QED
    BY <1>7, <2>1
<1>10. QED
  BY <1>5, <1>6, <1>8, <1>9 DEF Next

-----------------------------------------------------------------------------
LEMMA InitInv == Init => IInv
<1> SUFFICES ASSUME Init PROVE IInv
  OBVIOUS
<1>1. ServerOK
  <2>1. members \in [Groups -> SUBSET Everyone]
    BY MembershipAssumption DEF Init, Everyone
  <2>2. text \in Texts
    BY MembershipAssumption DEF Init
  <2>3. csn \in [Groups \cup {Me} -> Nat]
    BY DEF Init
  <2>4. QED
    BY <2>1, <2>2, <2>3 DEF ServerOK
<1>2. form \in Form /\ FormFresh
  BY <1>1, EntryFacts DEF Init, FormFresh
<1>3. ClientOK
  BY <1>2 DEF Init, ClientOK
<1>4. ToSet(jobs) = {} /\ ToSet(resps) = {}
  BY DEF Init, ToSet
<1>5. TypeOK
  BY <1>1, <1>3 DEF Init, TypeOK
<1>6. ReadsFresh /\ JobsFresh
  BY <1>4 DEF ReadsFresh, JobsFresh
<1>7. PlanFresh
  BY DEF Init, PlanFresh
<1>8. QED
  BY <1>2, <1>5, <1>6, <1>7 DEF IInv

LEMMA InvAlways == Spec => []IInv
<1>1. ASSUME IInv, [Next]_vars PROVE IInv'
  <2>1. supported' \in BOOLEAN /\ saves' \in Nat
    <3>1. supported' = supported /\ (saves' = saves \/ saves' = saves + 1)
      BY <1>1 DEF Next, vars, client, ToggleGroup, TypeText, ReadAgain, PressSave, Fetch, Fetched,
                  Check, Cancel, Confirm, Serve, OtherClient, Pump
    <3>2. QED
      BY <1>1, <3>1 DEF IInv, TypeOK, ClientOK
  <2>2. ClientOK'
    BY <1>1, <2>1, FormStep, PlanStep DEF ClientOK
  <2>3. TypeOK'
    BY <1>1, <2>2, ServerStep, JobsStep, RespsStep DEF TypeOK, IInv
  <2>4. QED
    BY <1>1, <2>3, FormStep, RespsStep, PlanStep, JobsStep DEF IInv
<1>2. QED
  BY InitInv, <1>1, PTL DEF Spec

LEMMA LegKind ==
  ASSUME IInv, NEW i \in DOMAIN jobs, jobs[i].what = "modify"
  PROVE  /\ jobs[i].op = "set" => jobs[i] \in OwnJob \cap ToSet(jobs) /\ jobs[i].dn = Me
         /\ jobs[i].op = "delete" => jobs[i] \in GroupJob \cap ToSet(jobs)
<1>1. jobs[i] \in Job /\ jobs[i] \in ToSet(jobs)
  BY DEF IInv, TypeOK, ToSet
<1>2. jobs[i] \in OwnJob \cup GroupJob
  BY <1>1, JobFacts
<1>3. QED
  BY <1>1, <1>2 DEF OwnJob, GroupJob

(***************************************************************************)
(* A removal that asserts the current version of its group, and whose      *)
(* members were read, does not empty it (last_member_block, the csns read  *)
(* before the members in do_combined_save).                                *)
(***************************************************************************)
THEOREM LastMembersStay == Spec => []RemovalsAreChecked
<1>1. ASSUME IInv PROVE RemovalsAreChecked
  <2> SUFFICES ASSUME NEW i \in DOMAIN jobs, jobs[i].what = "modify", jobs[i].op = "delete",
                      jobs[i].csn # None, jobs[i].seen # {}, ~Stale(jobs[i])
               PROVE  ~LastOne(jobs[i])
    BY DEF RemovalsAreChecked
  <2>1. jobs[i] \in GroupJob \cap ToSet(jobs)
    BY <1>1, LegKind
  <2>2. KnowsGroup(jobs[i].csn, jobs[i].seen, csn[jobs[i].dn], members[jobs[i].dn])
    BY <1>1, <2>1 DEF IInv, JobsFresh
  <2>3. jobs[i].seen # {Me}
    BY <1>1, <2>1 DEF IInv, JobsFresh
  <2>4. jobs[i].csn = csn[jobs[i].dn]
    BY DEF Stale
  <2>5. QED
    BY <2>2, <2>3, <2>4 DEF KnowsGroup, LastOne
<1>2. QED
  BY InvAlways, <1>1, PTL

(***************************************************************************)
(* The entry's own leg, if the server accepts its version, replaces the    *)
(* value it was diffed against (the version captured with the plan in      *)
(* plan_combined_save).                                                    *)
(***************************************************************************)
THEOREM OwnLegsReplaceWhatWasShown == Spec => []OwnLegIsOfItsVersion
<1>1. ASSUME IInv PROVE OwnLegIsOfItsVersion
  <2> SUFFICES ASSUME NEW i \in DOMAIN jobs, jobs[i].what = "modify", jobs[i].op = "set",
                      jobs[i].csn # None, ~Stale(jobs[i])
               PROVE  jobs[i].was = text
    BY DEF OwnLegIsOfItsVersion
  <2>1. jobs[i] \in OwnJob \cap ToSet(jobs) /\ jobs[i].dn = Me
    BY <1>1, LegKind
  <2>2. Knows(jobs[i].csn, jobs[i].was, csn[Me], text)
    BY <1>1, <2>1 DEF IInv, JobsFresh
  <2>3. jobs[i].csn = csn[Me]
    BY <2>1 DEF Stale
  <2>4. QED
    BY <2>2, <2>3 DEF Knows
<1>2. QED
  BY InvAlways, <1>1, PTL
=============================================================================
