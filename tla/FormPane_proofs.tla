-------------------------- MODULE FormPane_proofs --------------------------
(***************************************************************************)
(* Theorems about FormPane, for every schema, every set of entries and any *)
(* number of edits, saves and writes of other clients.                     *)
(***************************************************************************)
EXTENDS FormPane, Lists_proofs

IsForm(f) ==
  /\ f = [entry |-> f.entry, csn |-> f.csn, fields |-> f.fields,
          orphaned |-> f.orphaned, vals |-> f.vals, base |-> f.base]
  /\ f.fields \in Seq(Labels) /\ IsInjective(f.fields)

IsScreen(s) ==
  /\ s = [entry |-> s.entry, labels |-> s.labels, cells |-> s.cells]
  /\ DOMAIN s.cells = DOMAIN s.labels

Aligned(s) == s.entry = form.entry /\ s.labels = form.fields

\* A label stands in the form once, and a cell stands for each field.
PaneInv ==
  /\ IsForm(form) /\ IsScreen(screen)
  /\ due = {} => Aligned(screen)
  /\ ShownIsSaved

-----------------------------------------------------------------------------
\* Texts that are read as they are.
Tidy == {t \in Values : Trim[t] = t} \ {Blank}

Plain(l, v) ==
  Kind[l] # "launch" =>
    v \in Contents(l) /\ Strip(l, v) \in Seq(Tidy) /\ (Kind[l] = "text" => Len(v) <= 1)

\* The values in the directory have no blanks around them and none is empty, and
\* of a single-valued attribute there is one.
Orderly ==
  /\ Theirs \subseteq Tidy
  /\ \A e \in Entries, l \in Labels : Plain(l, Stored[e][l])

\* A field of the form has them too, but for a text that is being typed.
Loose(l, v) == IF Kind[l] = "text" THEN v \in Seq(Values) /\ Len(v) <= 1 ELSE Plain(l, v)

PlainValues(v) == v = [l \in Labels |-> v[l]] /\ \A l \in Labels : Plain(l, v[l])
LooseValues(v) == v = [l \in Labels |-> v[l]] /\ \A l \in Labels : Loose(l, v[l])

CellOK(l, c) ==
  /\ c = [kind |-> c.kind, items |-> c.items]
  /\ c.kind = Kind[l] \/ (c.kind = "text" /\ Kind[l] = "list")
  /\ c.kind # "launch" => c.items \in Seq(Values)
  /\ c.kind = "text" => Len(c.items) <= 1

\* What the directory, the form, the cells and a save on its way hold.
Typed ==
  /\ server = [e \in Entries |-> server[e]]
  /\ \A e \in Entries : PlainValues(server[e].vals)
  /\ form.entry \in Entries /\ LooseValues(form.vals)
  /\ \A i \in DOMAIN screen.cells : CellOK(screen.labels[i], screen.cells[i])
  /\ out # None => out.entry \in Entries
  /\ out # None /\ out.what = "save" => \A l \in DOMAIN out.plan \cap Labels : Plain(l, out.plan[l])

\* A field that was not edited holds what it was loaded with.
Clean ==
  ~rebased => \A l \in Labels \ touched :
                Plain(l, form.vals[l]) /\ Strip(l, form.vals[l]) = Strip(l, form.base[l])

CleanInv == PaneInv /\ Typed /\ Clean

-----------------------------------------------------------------------------
(***************************************************************************)
(* The fields of a form.                                                   *)
(***************************************************************************)

\* Lists of labels in which nothing occurs twice.
Once(s) == s \in Seq(Labels) /\ IsInjective(s)

LEMMA KeptOnce ==
  ASSUME NEW s, Once(s), NEW S
  PROVE  Once(Kept(s, S)) /\ ToSet(Kept(s, S)) \subseteq S
<1>1. Kept(s, S) \in Seq(Labels \cap S) /\ ToSet(Kept(s, S)) = ToSet(s) \cap S
      /\ IsInjective(Kept(s, S))
  BY KeptFacts DEF Once
<1>2. Kept(s, S) \in Seq(Labels)
  <2> DEFINE k == Kept(s, S)
  <2>1. \A t \in Seq(Labels \cap S) : t \in Seq(Labels)
    OBVIOUS
  <2>2. QED
    BY <1>1, <2>1
<1>3. QED
  BY <1>1, <1>2 DEF Once

LEMMA JoinOnce ==
  ASSUME NEW s, Once(s), NEW t, Once(t), ToSet(s) \cap ToSet(t) = {}
  PROVE  Once(s \o t) /\ ToSet(s \o t) = ToSet(s) \cup ToSet(t)
BY ConcatSet, ConcatOnce DEF Once

\* objectClass is put in front.
LEMMA PinnedOnce ==
  ASSUME NEW s, Once(s), OC \notin ToSet(s)
  PROVE  Once(<<OC>> \o s)
<1>1. OC \in Labels
  BY FormPaneAssumption
<1> DEFINE h == <<OC>>
<1>2. h \in Seq(Labels) /\ DOMAIN h = {1} /\ h[1] = OC
  BY <1>1
<1> HIDE DEF h
<1>3. Once(h)
  BY <1>2 DEF Once, IsInjective
<1>4. ToSet(h) = {OC}
  BY <1>2 DEF ToSet
<1>5. Once(h \o s)
  BY <1>3, <1>4, JoinOnce
<1>6. QED
  BY <1>5 DEF h

LEMMA RankOnce == Once(Rank)
BY FormPaneAssumption DEF Once

LEMMA LoadedFacts ==
  ASSUME NEW e
  PROVE  /\ IsForm(Loaded(e))
         /\ Loaded(e).entry = e /\ Loaded(e).orphaned = {}
         /\ Loaded(e).vals = server[e].vals /\ Loaded(e).base = server[e].vals
<1> DEFINE ok    == Allowed(ToSet(server[e].vals[OC]))
           must  == Required(ToSet(server[e].vals[OC]))
           shown == Kept(Show, ok)
           first == Kept(Rank, must \ ToSet(shown))
           last  == Kept(Rank, (ok \ must) \ ToSet(shown))
           all   == shown \o first \o last
           pins  == <<OC>> \o Kept(all, Labels \ {OC})
<1>1. Loaded(e) = [entry |-> e, csn |-> server[e].csn, fields |-> pins,
                   orphaned |-> {}, vals |-> server[e].vals, base |-> server[e].vals]
  BY DEF Loaded
<1> HIDE DEF ok, must
<1>2. Once(shown)
  <2>1. Once(Show)
    BY FormPaneAssumption DEF Once
  <2>2. QED
    BY <2>1, KeptOnce
<1>3. /\ Once(first) /\ ToSet(first) \subseteq must \ ToSet(shown)
      /\ Once(last) /\ ToSet(last) \subseteq (ok \ must) \ ToSet(shown)
  BY RankOnce, KeptOnce
<1> HIDE DEF shown, first, last
<1>4. Once(shown \o first) /\ ToSet(shown \o first) = ToSet(shown) \cup ToSet(first)
  BY <1>2, <1>3, JoinOnce
<1>5. Once(all)
  <2>1. ToSet(shown \o first) \cap ToSet(last) = {}
    BY <1>3, <1>4
  <2>2. QED
    BY <1>3, <1>4, <2>1, JoinOnce
<1> HIDE DEF all
<1>6. Once(Kept(all, Labels \ {OC})) /\ OC \notin ToSet(Kept(all, Labels \ {OC}))
  BY <1>5, KeptOnce
<1>7. Once(pins)
  BY <1>6, PinnedOnce
<1> HIDE DEF pins
<1>8. QED
  BY <1>1, <1>7 DEF IsForm, Once

LEMMA SyncedFacts ==
  ASSUME NEW f, IsForm(f), NEW cs
  PROVE  LET g == SyncSchemaFields(f, cs) IN
         IsForm(g) /\ g.entry = f.entry /\ g.vals = f.vals /\ g.base = f.base
<1> DEFINE ok    == Allowed(ToSet(cs))
           orph  == ToSet(f.fields) \ ok
           g     == [f EXCEPT !.orphaned = orph]
           all   == ToSet(f.fields) \cup ok
           In(b) == Kept(Rank, {l \in all \ {OC} : Bucket(g, l, Required(ToSet(cs))) = b})
           pins  == <<OC>> \o In(0) \o In(1) \o In(2)
<1>1. SyncSchemaFields(f, cs) = [g EXCEPT !.fields = pins]
  BY DEF SyncSchemaFields
<1>2. [g EXCEPT !.fields = pins] = [entry |-> f.entry, csn |-> f.csn, fields |-> pins,
                                    orphaned |-> orph, vals |-> f.vals, base |-> f.base]
  <2> HIDE DEF pins, orph
  <2>1. [f EXCEPT !.orphaned = orph]
        = [entry |-> f.entry, csn |-> f.csn, fields |-> f.fields,
           orphaned |-> orph, vals |-> f.vals, base |-> f.base]
    BY DEF IsForm
  <2>2. \A e, c, F, v, b :
          [[entry |-> e, csn |-> c, fields |-> F, orphaned |-> orph, vals |-> v, base |-> b]
              EXCEPT !.fields = pins]
          = [entry |-> e, csn |-> c, fields |-> pins, orphaned |-> orph, vals |-> v, base |-> b]
    OBVIOUS
  <2>3. [[entry |-> f.entry, csn |-> f.csn, fields |-> f.fields,
          orphaned |-> orph, vals |-> f.vals, base |-> f.base] EXCEPT !.fields = pins]
        = [entry |-> f.entry, csn |-> f.csn, fields |-> pins,
           orphaned |-> orph, vals |-> f.vals, base |-> f.base]
    BY <2>2
  <2>4. QED
    BY <2>1, <2>3
<1> HIDE DEF g, all, ok
<1>3. \A b : /\ Once(In(b)) /\ OC \notin ToSet(In(b))
             /\ \A l \in ToSet(In(b)) : Bucket(g, l, Required(ToSet(cs))) = b
  BY RankOnce, KeptOnce
<1> HIDE DEF In
<1> DEFINE a == In(0)
           b == In(1)
           c == In(2)
<1>4. /\ Once(a) /\ Once(b) /\ Once(c)
      /\ OC \notin ToSet(a) /\ OC \notin ToSet(b) /\ OC \notin ToSet(c)
      /\ ToSet(a) \cap ToSet(b) = {} /\ ToSet(a) \cap ToSet(c) = {} /\ ToSet(b) \cap ToSet(c) = {}
  BY <1>3
<1>5. pins = <<OC>> \o a \o b \o c
  BY DEF a, b, c
<1> HIDE DEF a, b, c
<1>6. Once(<<OC>> \o a) /\ Once(<<OC>>) /\ ToSet(<<OC>>) = {OC}
  <2>1. OC \in Labels
    BY FormPaneAssumption
  <2>2. Once(<<OC>>) /\ ToSet(<<OC>>) = {OC}
    BY <2>1 DEF Once, IsInjective, ToSet
  <2>3. QED
    BY <1>4, <2>2, PinnedOnce
<1>7. ToSet(<<OC>> \o a) = {OC} \cup ToSet(a)
  BY <1>4, <1>6, JoinOnce
<1> DEFINE p == <<OC>> \o a
<1> HIDE DEF p
<1>8. Once(p \o b) /\ ToSet(p \o b) = {OC} \cup ToSet(a) \cup ToSet(b)
  <2>1. Once(p) /\ ToSet(p) \cap ToSet(b) = {} /\ ToSet(p) = {OC} \cup ToSet(a)
    BY <1>4, <1>6, <1>7 DEF p
  <2>2. QED
    BY <1>4, <2>1, JoinOnce
<1> DEFINE q == p \o b
<1> HIDE DEF q
<1>9. Once(q \o c)
  <2>1. Once(q) /\ ToSet(q) \cap ToSet(c) = {}
    BY <1>4, <1>8 DEF q
  <2>2. QED
    BY <1>4, <2>1, JoinOnce
<1>10. Once(pins)
  BY <1>5, <1>9 DEF p, q
<1> HIDE DEF pins, orph
<1>11. QED
  BY <1>1, <1>2, <1>10 DEF IsForm, Once

-----------------------------------------------------------------------------
(***************************************************************************)
(* The cells: each is read back into the field it stands for.              *)
(***************************************************************************)
ReadBack(f, c, i) ==
  \/ c.kind = "text" /\ InlineEditable(f, f.fields[i])
  \/ c.kind \in {"list", "ordered"}

LEMMA SyncFacts ==
  ASSUME NEW f, IsForm(f), NEW cells, DOMAIN cells = DOMAIN f.fields
  PROVE  LET g == SyncIntoForm(f, cells) IN
         /\ IsForm(g)
         /\ g.entry = f.entry /\ g.fields = f.fields /\ g.orphaned = f.orphaned /\ g.base = f.base
         /\ g.vals = [l \in Labels |-> g.vals[l]]
         /\ \A i \in DOMAIN cells : ReadBack(f, cells[i], i) =>
              g.vals[f.fields[i]] = ToValues(f.fields[i], f.vals[f.fields[i]], cells[i])
         /\ \A l \in Labels :
              (\A i \in DOMAIN cells : f.fields[i] = l => ~ReadBack(f, cells[i], i)) =>
              g.vals[l] = f.vals[l]
<1> DEFINE at(l) == {i \in DOMAIN f.fields :
                       f.fields[i] = l /\ (i \in DOMAIN cells /\ ReadBack(f, cells[i], i))}
           new(l) == IF at(l) = {} THEN f.vals[l] ELSE ToValues(l, f.vals[l], cells[CHOOSE i \in at(l) : TRUE])
           v == [l \in Labels |-> new(l)]
           g == SyncIntoForm(f, cells)
<1>1. g = [f EXCEPT !.vals = v]
  BY DEF SyncIntoForm, ReadBack
<1> HIDE DEF g
<1>2. g = [entry |-> f.entry, csn |-> f.csn, fields |-> f.fields,
           orphaned |-> f.orphaned, vals |-> v, base |-> f.base]
  <2> HIDE DEF v
  <2>1. QED
    BY <1>1 DEF IsForm
<1>3. IsForm(g) /\ g.vals = v /\ g.entry = f.entry /\ g.fields = f.fields
      /\ g.orphaned = f.orphaned /\ g.base = f.base
  <2> HIDE DEF v
  <2>1. QED
    BY <1>2 DEF IsForm
<1>4. \A i \in DOMAIN f.fields : f.fields[i] \in Labels
  BY DEF IsForm
<1>5. ASSUME NEW i \in DOMAIN cells, ReadBack(f, cells[i], i)
      PROVE  v[f.fields[i]] = ToValues(f.fields[i], f.vals[f.fields[i]], cells[i])
  <2>1. at(f.fields[i]) = {i}
    <3>1. \A k \in DOMAIN f.fields : f.fields[k] = f.fields[i] => k = i
      BY <1>5 DEF IsForm, IsInjective
    <3>2. QED
      BY <1>5, <3>1
  <2> HIDE DEF at
  <2>2. new(f.fields[i]) = ToValues(f.fields[i], f.vals[f.fields[i]], cells[i])
    BY <2>1
  <2> HIDE DEF new
  <2>3. QED
    BY <1>4, <1>5, <2>2
<1>6. ASSUME NEW l \in Labels, \A i \in DOMAIN cells : f.fields[i] = l => ~ReadBack(f, cells[i], i)
      PROVE  v[l] = f.vals[l]
  <2>1. at(l) = {}
    BY <1>6
  <2> HIDE DEF at
  <2>2. QED
    BY <2>1
<1>7. v = [l \in Labels |-> v[l]]
  OBVIOUS
<1> HIDE DEF v
<1>8. QED
  BY <1>3, <1>5, <1>6, <1>7 DEF g

\* What an event finds.
LEMMA SeenFacts ==
  ASSUME PaneInv
  PROVE  IsScreen(Seen) /\ Aligned(Seen) /\ DOMAIN Seen.cells = DOMAIN form.fields
<1>1. CASE due = {}
  BY <1>1 DEF PaneInv, Seen, IsScreen, Aligned
<1>2. CASE due # {}
  <2> DEFINE fresh == [entry |-> form.entry, labels |-> form.fields,
                       cells |-> [i \in DOMAIN form.fields |->
                                  [kind |-> ValueKind(form, form.fields[i]), items |-> <<>>]]]
             built == IF NeedsRebuild(screen) THEN fresh ELSE screen
             filled == [i \in DOMAIN built.cells |->
                          [kind |-> built.cells[i].kind,
                           items |-> Filled(form, form.fields[i], built.cells[i].kind)]]
  <2>1. IsScreen(built) /\ Aligned(built)
    <3>1. CASE NeedsRebuild(screen)
      BY <3>1 DEF IsScreen, Aligned
    <3>2. CASE ~NeedsRebuild(screen)
      BY <3>2 DEF PaneInv, Aligned, NeedsRebuild
    <3>3. QED
      BY <3>1, <3>2
  <2>2. Seen = [built EXCEPT !.cells = filled]
    BY <1>2 DEF Seen, Rendered
  <2>3. DOMAIN filled = DOMAIN built.cells
    OBVIOUS
  <2> HIDE DEF built, filled
  <2>4. Seen = [entry |-> built.entry, labels |-> built.labels, cells |-> filled]
    BY <2>1, <2>2 DEF IsScreen
  <2>5. QED
    BY <2>1, <2>3, <2>4 DEF IsScreen, Aligned
<1>3. QED
  BY <1>1, <1>2

\* To read a cell twice is to read it once.
LEMMA ReadTwice ==
  ASSUME NEW l, NEW v, NEW c
  PROVE  ToValues(l, ToValues(l, v, c), c) = ToValues(l, v, c)
BY DEF ToValues

\* An event: whatever it does to the cells, what they show afterwards is what
\* the form holds.
LEMMA EventPane ==
  ASSUME PaneInv, NEW cells, DOMAIN cells = DOMAIN Seen.cells, Event(cells),
         UNCHANGED rebased
  PROVE  PaneInv'
<1> DEFINE g == SyncIntoForm(form, cells)
<1>1. /\ screen' = [Seen EXCEPT !.cells = cells] /\ form' = g /\ due' = {}
  BY DEF Event
<1>2. IsScreen(Seen) /\ Aligned(Seen) /\ DOMAIN cells = DOMAIN form.fields
  BY SeenFacts
<1>3. screen' = [entry |-> form.entry, labels |-> form.fields, cells |-> cells]
  BY <1>1, <1>2 DEF IsScreen, Aligned
<1>4. /\ IsForm(g)
      /\ g.entry = form.entry /\ g.fields = form.fields /\ g.orphaned = form.orphaned
      /\ \A i \in DOMAIN cells : ReadBack(form, cells[i], i) =>
           g.vals[form.fields[i]] = ToValues(form.fields[i], form.vals[form.fields[i]], cells[i])
  <2>1. IsForm(form)
    BY DEF PaneInv
  <2>2. /\ IsForm(g)
        /\ g.entry = form.entry /\ g.fields = form.fields /\ g.orphaned = form.orphaned
           /\ g.base = form.base
        /\ g.vals = [l \in Labels |-> g.vals[l]]
        /\ \A i \in DOMAIN cells : ReadBack(form, cells[i], i) =>
             g.vals[form.fields[i]] = ToValues(form.fields[i], form.vals[form.fields[i]], cells[i])
        /\ \A l \in Labels :
             (\A i \in DOMAIN cells : form.fields[i] = l => ~ReadBack(form, cells[i], i)) =>
             g.vals[l] = form.vals[l]
    <3>1. DOMAIN cells = DOMAIN form.fields
      BY <1>2
    <3>2. QED
      BY <2>1, <3>1, SyncFacts
  <2> HIDE DEF g
  <2>3. QED
    BY <2>2
<1> HIDE DEF g
<1>5. IsForm(form)' /\ IsScreen(screen)' /\ Aligned(screen)'
  BY <1>1, <1>2, <1>3, <1>4 DEF IsForm, IsScreen, Aligned
<1>6. ShownIsSaved'
  <2>1. \A i \in DOMAIN cells :
          (cells[i].kind \in {"list", "ordered"} \/
            (cells[i].kind = "text" /\ InlineEditable(g, form.fields[i]))) =>
          ToValues(form.fields[i], g.vals[form.fields[i]], cells[i]) = g.vals[form.fields[i]]
    BY <1>4, ReadTwice DEF ReadBack, InlineEditable
  <2>2. screen'.entry = form'.entry /\ screen'.labels = form'.fields /\ screen'.cells = cells
        /\ form'.fields = form.fields
    BY <1>1, <1>3, <1>4
  <2>3. QED
    BY <1>1, <2>1, <2>2 DEF ShownIsSaved
<1>7. QED
  BY <1>5, <1>6 DEF PaneInv

LEMMA EditedPane ==
  ASSUME PaneInv, NEW i, NEW items, Edited(i, items)
  PROVE  PaneInv'
<1> DEFINE cells == [Seen.cells EXCEPT ![i].items = items]
<1>1. DOMAIN cells = DOMAIN Seen.cells /\ Event(cells) /\ UNCHANGED rebased
  BY DEF Edited
<1> HIDE DEF cells
<1>2. QED
  BY <1>1, EventPane

LEMMA EditEdits ==
  ASSUME NEW i, Edit(i)
  PROVE  \E items : Edited(i, items)
<1>1. CASE TypeText(i)
  BY <1>1 DEF TypeText
<1>2. CASE EditList(i)
  BY <1>2 DEF EditList
<1>3. QED
  BY <1>1, <1>2 DEF Edit

\* A form that is changed from elsewhere is rendered at the next event.
LEMMA ToldPane ==
  ASSUME IsForm(form)', PaneInv, due' # {}, UNCHANGED screen
  PROVE  PaneInv'
BY DEF PaneInv, ShownIsSaved, IsScreen

LEMMA ValuesKeepForm ==
  ASSUME NEW f, IsForm(f), NEW l, NEW v
  PROVE  LET g == [f EXCEPT !.vals[l] = v] IN
         /\ IsForm(g) /\ g.entry = f.entry /\ g.fields = f.fields
         /\ g.orphaned = f.orphaned /\ g.base = f.base /\ g.vals = [f.vals EXCEPT ![l] = v]
<1> DEFINE w == [f.vals EXCEPT ![l] = v]
           g == [f EXCEPT !.vals[l] = v]
<1>1. g = [f EXCEPT !.vals = w]
  BY DEF IsForm
<1> HIDE DEF g, w
<1>2. g = [entry |-> f.entry, csn |-> f.csn, fields |-> f.fields,
           orphaned |-> f.orphaned, vals |-> w, base |-> f.base]
  BY <1>1 DEF IsForm
<1>3. IsForm(g) /\ g.entry = f.entry /\ g.fields = f.fields
      /\ g.orphaned = f.orphaned /\ g.base = f.base /\ g.vals = w
  BY <1>2 DEF IsForm
<1>4. QED
  BY <1>3 DEF g, w

\* A silent rebase leaves the fields where they are.
LEMMA RebasedFacts ==
  ASSUME NEW f, IsForm(f), NEW fresh
  PROVE  LET g == Rebased(f, fresh) IN
         /\ IsForm(g) /\ g.entry = f.entry /\ g.fields = f.fields /\ g.orphaned = f.orphaned
         /\ g.vals = [l \in Labels |-> IF l \in DirtyLabels(f) \/ l \notin ToSet(f.fields)
                                       THEN f.vals[l] ELSE fresh.vals[l]]
<1> DEFINE v == [l \in Labels |-> IF l \in DirtyLabels(f) \/ l \notin ToSet(f.fields)
                                  THEN f.vals[l] ELSE fresh.vals[l]]
           b == [l \in Labels |-> IF l \in ToSet(f.fields) THEN fresh.vals[l] ELSE f.base[l]]
           c == fresh.csn
           g == Rebased(f, fresh)
<1>1. g = [f EXCEPT !.csn = c, !.vals = v, !.base = b]
  BY DEF Rebased
<1> HIDE DEF g, v, b, c
<1>2. g = [entry |-> f.entry, csn |-> c, fields |-> f.fields,
           orphaned |-> f.orphaned, vals |-> v, base |-> b]
  BY <1>1 DEF IsForm
<1>3. IsForm(g) /\ g.entry = f.entry /\ g.fields = f.fields
      /\ g.orphaned = f.orphaned /\ g.vals = v
  BY <1>2 DEF IsForm
<1>4. QED
  BY <1>3 DEF g, v

LEMMA PaneStep ==
  ASSUME PaneInv, [Next]_vars
  PROVE  PaneInv'
<1>1. IsForm(form) /\ Told # {}
  BY DEF PaneInv, Told
<1>2. CASE Tick
  <2>1. Event(Seen.cells) /\ UNCHANGED rebased
    BY <1>2 DEF Tick
  <2>2. QED
    BY <2>1, EventPane
<1>3. CASE EditCell
  BY <1>3, EditEdits, EditedPane DEF EditCell
<1>4. CASE PickClasses
  <2>1. PICK S \in SUBSET Classes :
          Committed(OC, SyncSchemaFields([form EXCEPT !.vals[OC] = SetToSeq(S)], SetToSeq(S)))
    BY <1>4 DEF PickClasses
  <2> DEFINE f == [form EXCEPT !.vals[OC] = SetToSeq(S)]
             g == SyncSchemaFields(f, SetToSeq(S))
  <2>2. form' = g /\ due' = Told /\ UNCHANGED screen
    BY <2>1 DEF Committed
  <2>3. IsForm(f)
    BY <1>1, ValuesKeepForm
  <2> HIDE DEF f
  <2>4. IsForm(g)
    BY <2>3, SyncedFacts
  <2> HIDE DEF g
  <2>5. IsForm(form)'
    BY <2>2, <2>4 DEF IsForm
  <2>6. QED
    BY <1>1, <2>2, <2>5, ToldPane
<1>5. CASE PickValue
  <2>1. PICK l, t : Committed(l, [form EXCEPT !.vals[l] = <<t>>])
    BY <1>5 DEF PickValue
  <2> DEFINE g == [form EXCEPT !.vals[l] = <<t>>]
  <2>2. form' = g /\ due' = Told /\ UNCHANGED screen
    BY <2>1 DEF Committed
  <2>3. IsForm(g)
    BY <1>1, ValuesKeepForm
  <2> HIDE DEF g
  <2>4. IsForm(form)'
    BY <2>2, <2>3 DEF IsForm
  <2>5. QED
    BY <1>1, <2>2, <2>4, ToldPane
<1>6. CASE Background
  <2>1. due' # {} /\ UNCHANGED <<form, screen>>
    BY <1>6 DEF Background
  <2>2. IsForm(form)'
    BY <1>1, <2>1 DEF IsForm
  <2>3. QED
    BY <2>1, <2>2, ToldPane
<1>7. CASE UNCHANGED <<form, screen, due, rebased>>
  <2>1. IsForm(form)' /\ IsScreen(screen)'
    BY <1>7 DEF PaneInv, IsForm, IsScreen
  <2>2. (due = {} => Aligned(screen))'
    BY <1>7 DEF PaneInv, Aligned
  <2>3. ShownIsSaved'
    BY <1>7 DEF PaneInv, ShownIsSaved, InlineEditable
  <2>4. QED
    BY <2>1, <2>2, <2>3 DEF PaneInv
<1>8. CASE PumpEntry
  <2> DEFINE g == Loaded(out.entry)
  <2>1. form' = g /\ due' = Told /\ UNCHANGED screen
    BY <1>8 DEF PumpEntry
  <2>2. IsForm(g)
    BY LoadedFacts
  <2> HIDE DEF g
  <2>3. IsForm(form)'
    BY <2>1, <2>2 DEF IsForm
  <2>4. QED
    BY <1>1, <2>1, <2>3, ToldPane
<1>9. CASE PumpConflict
  <2> DEFINE g == Rebased(form, server[out.entry])
  <2>1. \/ UNCHANGED <<form, rebased>>
        \/ form' = g /\ rebased'
    BY <1>9 DEF PumpConflict
  <2>2. UNCHANGED <<screen, due>>
    BY <1>9 DEF PumpConflict
  <2>3. IsForm(g) /\ g.entry = form.entry /\ g.fields = form.fields
    BY <1>1, RebasedFacts
  <2> HIDE DEF g
  <2>4. CASE form' = g /\ rebased'
    BY <2>2, <2>3, <2>4 DEF PaneInv, IsForm, IsScreen, Aligned, ShownIsSaved
  <2>5. QED
    BY <1>7, <2>1, <2>2, <2>4
<1>10. CASE UNCHANGED vars
  BY <1>7, <1>10 DEF vars
<1>11. ASSUME NEW e, RequestLeaf(e) PROVE PaneInv'
  BY <1>7, <1>11 DEF RequestLeaf
<1>12. CASE PressSave
  BY <1>7, <1>12 DEF PressSave
<1>13. CASE ServeSave
  BY <1>7, <1>13 DEF ServeSave
<1>14. ASSUME NEW e, NEW l, OthersWrite(e, l) PROVE PaneInv'
  BY <1>7, <1>14 DEF OthersWrite
<1>15. CASE PumpSaved
  BY <1>7, <1>15 DEF PumpSaved
<1>16. QED
  BY <1>2, <1>3, <1>4, <1>5, <1>6, <1>8, <1>9, <1>10, <1>11, <1>12, <1>13, <1>14, <1>15 DEF Next

LEMMA PaneInit == Init => PaneInv
<1> SUFFICES ASSUME Init PROVE PaneInv
  OBVIOUS
<1>1. PICK e \in Entries : form = Loaded(e)
  BY DEF Init
<1>2. IsForm(form)
  BY <1>1, LoadedFacts
<1>3. screen = [entry |-> None, labels |-> <<>>, cells |-> <<>>] /\ due # {}
  BY DEF Init
<1>4. QED
  BY <1>2, <1>3 DEF PaneInv, IsScreen, ShownIsSaved

LEMMA PaneAlways == Spec => []PaneInv
BY PaneInit, PaneStep, PTL DEF Spec

\* When no rendering is due, every cell stands at the place of the field it was
\* built for and shows that field's values, whatever moved, left or came back.
THEOREM CellsAreTheForm == Spec => []ShownIsSaved
<1>1. PaneInv => ShownIsSaved
  BY DEF PaneInv
<1>2. QED
  BY <1>1, PaneAlways, PTL

-----------------------------------------------------------------------------
(***************************************************************************)
(* Values and what cells make of them.                                     *)
(***************************************************************************)
LEMMA StripType ==
  ASSUME NEW l \in Labels, Kind[l] # "launch", NEW v \in Contents(l)
  PROVE  Strip(l, v) \in Seq(Values) /\ DOMAIN Strip(l, v) = DOMAIN v
<1>1. CASE Kind[l] = "ordered"
  <2>1. v \in Seq([at : Nat, text : Values])
    BY <1>1 DEF Contents
  <2> DEFINE R == [at : Nat, text : Values]
  <2>2. \A r \in R : r.text \in Values
    OBVIOUS
  <2> HIDE DEF R
  <2>3. v \in Seq(R)
    BY <2>1 DEF R
  <2>4. Len(v) \in Nat /\ DOMAIN v = 1..Len(v) /\ \A i \in 1..Len(v) : v[i] \in R
    BY <2>3
  <2>5. PICK n \in Nat : DOMAIN v = 1..n /\ \A i \in 1..n : v[i].text \in Values
    BY <2>2, <2>4
  <2>6. [i \in 1..n |-> v[i].text] \in Seq(Values)
    BY <2>5
  <2>7. QED
    BY <1>1, <2>5, <2>6 DEF Strip
<1>2. CASE Kind[l] # "ordered"
  BY <1>2 DEF Contents, Strip
<1>3. QED
  BY <1>1, <1>2

LEMMA NumberedType ==
  ASSUME NEW l \in Labels, NEW v \in Seq(Values)
  PROVE  /\ Numbered(l, v) \in Contents(l) /\ Len(Numbered(l, v)) = Len(v)
         /\ Strip(l, Numbered(l, v)) = v
<1>1. CASE Kind[l] = "ordered"
  <2> DEFINE w == [i \in DOMAIN v |-> [at |-> i - 1, text |-> v[i]]]
  <2>1. w \in Seq([at : Nat, text : Values]) /\ Len(w) = Len(v) /\ DOMAIN w = DOMAIN v
    <3> DEFINE n == Len(v)
    <3>1. n \in Nat /\ DOMAIN v = 1..n /\ \A i \in 1..n : v[i] \in Values /\ i - 1 \in Nat
      OBVIOUS
    <3> HIDE DEF n
    <3>2. \A i \in 1..n : [at |-> i - 1, text |-> v[i]] \in [at : Nat, text : Values]
      BY <3>1
    <3>3. w = [i \in 1..n |-> [at |-> i - 1, text |-> v[i]]]
      BY <3>1
    <3> HIDE DEF w
    <3>4. w \in Seq([at : Nat, text : Values]) /\ Len(w) = n /\ DOMAIN w = 1..n
      BY <3>1, <3>2, <3>3
    <3>5. QED
      BY <3>1, <3>4 DEF n
  <2>2. \A i \in DOMAIN v : w[i].text = v[i]
    OBVIOUS
  <2>3. v = [i \in DOMAIN v |-> v[i]]
    OBVIOUS
  <2>4. Numbered(l, v) = w
    BY <1>1 DEF Numbered
  <2> HIDE DEF w
  <2>5. Strip(l, w) = v
    BY <1>1, <2>1, <2>2, <2>3 DEF Strip
  <2>6. QED
    BY <1>1, <2>1, <2>4, <2>5 DEF Contents
<1>2. CASE Kind[l] # "ordered"
  BY <1>2 DEF Contents, Strip, Numbered
<1>3. QED
  BY <1>1, <1>2

LEMMA TidyTexts ==
  /\ Tidy \subseteq Values /\ Blank \notin Tidy
  /\ \A t \in Values : Trim[t] \in Values /\ Trim[Trim[t]] = Trim[t]
  /\ \A t \in Tidy : Trim[t] = t
BY FormPaneAssumption DEF Tidy

LEMMA CleanedType ==
  ASSUME NEW s \in Seq(Values)
  PROVE  Cleaned(s) \in Seq(Tidy) /\ Len(Cleaned(s)) \in Nat /\ Len(Cleaned(s)) <= Len(s)
<1> DEFINE R == {t \in Values : Trim[t] = t}
           w == [i \in DOMAIN s |-> Trim[s[i]]]
           S == Values \ {Blank}
<1>1. w \in Seq(R) /\ Len(w) = Len(s)
  <2>1. Len(s) \in Nat /\ DOMAIN s = 1..Len(s) /\ \A i \in 1..Len(s) : s[i] \in Values
    OBVIOUS
  <2>2. \A i \in 1..Len(s) : Trim[s[i]] \in R
    BY <2>1, TidyTexts
  <2> HIDE DEF R
  <2>3. QED
    BY <2>1, <2>2
<1>2. Cleaned(s) = Kept(w, S)
  BY DEF Cleaned
<1>3. R \cap S = Tidy
  BY DEF Tidy
<1> HIDE DEF R, S, w
<1>4. Kept(w, S) \in Seq(R \cap S)
  BY <1>1, KeptFacts
<1>5. Len(Kept(w, S)) \in Nat /\ Len(Kept(w, S)) <= Len(w)
  BY <1>1, KeptLength
<1>6. QED
  BY <1>1, <1>2, <1>3, <1>4, <1>5

\* Tidy texts are read as they are.
LEMMA CleanedTidy ==
  ASSUME NEW s \in Seq(Tidy)
  PROVE  Cleaned(s) = s
<1> DEFINE w == [i \in DOMAIN s |-> Trim[s[i]]]
           S == Values \ {Blank}
<1>1. Len(s) \in Nat /\ s = [i \in 1..Len(s) |-> s[i]] /\ \A i \in 1..Len(s) : s[i] \in Tidy
  OBVIOUS
<1>2. w = s
  <2>1. \A i \in 1..Len(s) : Trim[s[i]] = s[i]
    BY <1>1, TidyTexts
  <2>2. DOMAIN s = 1..Len(s)
    OBVIOUS
  <2>3. QED
    BY <1>1, <2>1, <2>2
<1>3. ToSet(s) \subseteq S
  BY <1>1, TidyTexts DEF ToSet
<1>4. Cleaned(s) = Kept(w, S)
  BY DEF Cleaned
<1> HIDE DEF w, S
<1>5. Kept(s, S) = s
  BY <1>3, KeptAll
<1>6. QED
  BY <1>2, <1>4, <1>5

LEMMA TidyValues == \A s \in Seq(Tidy) : s \in Seq(Values)
<1>1. Tidy \subseteq Values
  BY TidyTexts
<1> HIDE DEF Tidy
<1>2. QED
  BY <1>1

LEMMA SingleType ==
  ASSUME NEW T, NEW v \in Seq(T)
  PROVE  /\ Single(v) \in Seq(T) /\ Len(Single(v)) \in Nat /\ Len(Single(v)) <= 1
         /\ Len(v) <= 1 => Single(v) = v
<1>1. CASE v = <<>>
  BY <1>1 DEF Single
<1>2. CASE v # <<>>
  <2>1. Len(v) \in Nat /\ Len(v) >= 1 /\ v[1] \in T /\ v = [i \in 1..Len(v) |-> v[i]]
    BY <1>2
  <2>2. Single(v) = SubSeq(v, 1, 1)
    BY <1>2 DEF Single
  <2>3. SubSeq(v, 1, 1) = [i \in 1..1 |-> v[i]]
    BY <2>1
  <2>4. SubSeq(v, 1, 1) \in Seq(T) /\ Len(SubSeq(v, 1, 1)) = 1
    BY <2>1
  <2>5. Len(v) <= 1 => Len(v) = 1
    BY <2>1
  <2>6. QED
    BY <2>1, <2>2, <2>3, <2>4, <2>5
<1>3. QED
  BY <1>1, <1>2

\* What is read back is of the field's kind.
LEMMA BackLoose ==
  ASSUME NEW l \in Labels, NEW v, Loose(l, v), NEW c, CellOK(l, c),
         c.kind = Kind[l], c.kind # "launch"
  PROVE  Loose(l, ToValues(l, v, c))
<1>1. c.items \in Seq(Values)
  BY DEF CellOK
<1>2. CASE c.kind = "text"
  <2>1. Len(c.items) <= 1
    BY <1>2 DEF CellOK
  <2>2. ToValues(l, v, c) \in {v, c.items}
    BY <1>2 DEF ToValues
  <2>3. QED
    BY <1>1, <1>2, <2>1, <2>2 DEF Loose
<1>3. CASE c.kind # "text"
  <2> DEFINE k == Cleaned(c.items)
  <2>1. k \in Seq(Tidy)
    BY <1>1, CleanedType
  <2>2. ToValues(l, v, c) = Numbered(l, k)
    BY <1>3 DEF ToValues
  <2> HIDE DEF k
  <2>3. k \in Seq(Values)
    BY <2>1, TidyValues
  <2>4. Numbered(l, k) \in Contents(l) /\ Strip(l, Numbered(l, k)) = k
    BY <2>3, NumberedType
  <2>5. QED
    BY <1>3, <2>1, <2>2, <2>4 DEF Loose, Plain
<1>4. QED
  BY <1>2, <1>3

\* A value is shown as it is, and read back the same but for its prefixes.
LEMMA ShownWhole ==
  ASSUME NEW l \in Labels, NEW f, Loose(l, f.vals[l]),
         NEW k \in {"text", "list", "ordered"}, k = Kind[l]
  PROVE  Strip(l, ToValues(l, f.vals[l], [kind |-> k, items |-> Filled(f, l, k)]))
         = Strip(l, f.vals[l])
<1> DEFINE v == f.vals[l]
           s == Strip(l, v)
           c == [kind |-> k, items |-> Filled(f, l, k)]
<1>1. CASE k = "text"
  <2>1. Filled(f, l, k) = Single(v)
    BY <1>1 DEF Filled
  <2>2. ToValues(l, v, c) = v
    BY <1>1, <2>1 DEF ToValues
  <2>3. QED
    BY <2>2
<1>2. CASE k # "text"
  <2>1. s \in Seq(Tidy)
    BY <1>2 DEF Loose, Plain
  <2> DEFINE S == {t \in Values : Trim[t] # Blank}
  <2>2. Filled(f, l, k) = Kept(s, S)
    BY <1>2 DEF Filled
  <2>3. Tidy \subseteq S
    BY TidyTexts
  <2> HIDE DEF s, S, v
  <2>4. \A i \in 1..Len(s) : s[i] \in Tidy
    BY <2>1
  <2>5. ToSet(s) \subseteq S
    BY <2>1, <2>3, <2>4 DEF ToSet
  <2>6. Kept(s, S) = s
    BY <2>1, <2>5, KeptAll
  <2>7. ToValues(l, v, c) = Numbered(l, Cleaned(s))
    BY <1>2, <2>2, <2>6 DEF ToValues
  <2>8. Cleaned(s) = s
    BY <2>1, CleanedTidy
  <2>9. s \in Seq(Values)
    BY <2>1, TidyValues
  <2>10. Strip(l, Numbered(l, s)) = s
    BY <2>9, NumberedType
  <2>11. QED
    BY <2>7, <2>8, <2>10 DEF s, v
<1>3. QED
  BY <1>1, <1>2

LEMMA FilledType ==
  ASSUME NEW l \in Labels, NEW f, Loose(l, f.vals[l]), NEW k \in Kinds,
         k = Kind[l] \/ (k = "text" /\ Kind[l] = "list")
  PROVE  CellOK(l, [kind |-> k, items |-> Filled(f, l, k)])
<1> DEFINE v == f.vals[l]
<1>1. CASE k = "launch"
  BY <1>1 DEF CellOK
<1>2. CASE k = "text"
  <2>1. v \in Seq(Values)
    BY <1>2 DEF Loose, Plain, Contents
  <2>2. Filled(f, l, k) = Single(v)
    BY <1>2 DEF Filled
  <2> HIDE DEF v
  <2>3. Single(v) \in Seq(Values) /\ Len(Single(v)) <= 1
    BY <2>1, SingleType
  <2>4. QED
    BY <1>2, <2>2, <2>3 DEF CellOK
<1>3. CASE k \in {"list", "ordered"}
  <2> DEFINE S == {t \in Values : Trim[t] # Blank}
  <2>1. Filled(f, l, k) = Kept(Strip(l, v), S) /\ k = Kind[l]
    BY <1>3 DEF Filled
  <2>2. Strip(l, v) \in Seq(Tidy)
    BY <1>3, <2>1 DEF Loose, Plain
  <2> HIDE DEF S, v
  <2>3. Kept(Strip(l, v), S) \in Seq(Tidy \cap S)
    BY <2>2, KeptFacts
  <2>4. \A s \in Seq(Tidy \cap S) : s \in Seq(Values)
    <3>1. Tidy \cap S \subseteq Values
      BY TidyTexts
    <3> HIDE DEF Tidy
    <3>2. QED
      BY <3>1
  <2>5. Filled(f, l, k) \in Seq(Values)
    BY <2>1, <2>3, <2>4
  <2>6. QED
    BY <1>3, <2>1, <2>5 DEF CellOK
<1>4. QED
  BY <1>1, <1>2, <1>3 DEF Kinds

\* What an event finds in the cells is what their fields hold.
LEMMA SeenCells ==
  ASSUME PaneInv, Typed
  PROVE  \A i \in DOMAIN Seen.cells :
           LET l == form.fields[i]  c == Seen.cells[i] IN
           /\ CellOK(l, c)
           /\ ~rebased /\ ReadBack(form, c, i) =>
                Strip(l, ToValues(l, form.vals[l], c)) = Strip(l, form.vals[l])
<1>1. \A i \in DOMAIN form.fields : form.fields[i] \in Labels
  BY DEF PaneInv, IsForm
<1>2. CASE due = {}
  <2>1. Seen = screen /\ screen.labels = form.fields /\ DOMAIN screen.cells = DOMAIN form.fields
    BY <1>2 DEF Seen, PaneInv, Aligned, IsScreen
  <2>2. \A i \in DOMAIN screen.cells : CellOK(form.fields[i], screen.cells[i])
    BY <2>1 DEF Typed
  <2>3. ASSUME NEW i \in DOMAIN screen.cells, ~rebased, ReadBack(form, screen.cells[i], i)
        PROVE  ToValues(form.fields[i], form.vals[form.fields[i]], screen.cells[i])
               = form.vals[form.fields[i]]
    BY <1>2, <2>3 DEF PaneInv, ShownIsSaved, ReadBack
  <2>4. QED
    BY <2>1, <2>2, <2>3
<1>3. CASE due # {}
  <2> DEFINE fresh == [entry |-> form.entry, labels |-> form.fields,
                       cells |-> [i \in DOMAIN form.fields |->
                                  [kind |-> ValueKind(form, form.fields[i]), items |-> <<>>]]]
             built == IF NeedsRebuild(screen) THEN fresh ELSE screen
             filled == [i \in DOMAIN built.cells |->
                          [kind |-> built.cells[i].kind,
                           items |-> Filled(form, form.fields[i], built.cells[i].kind)]]
             Fits(l, k) == k \in Kinds /\ (k = Kind[l] \/ (k = "text" /\ Kind[l] = "list"))
  <2>1. DOMAIN built.cells = DOMAIN form.fields
        /\ \A i \in DOMAIN form.fields : Fits(form.fields[i], built.cells[i].kind)
    <3>1. \A l \in Labels : Kind[l] \in Kinds
      BY FormPaneAssumption
    <3>2. CASE NeedsRebuild(screen)
      <4>1. built = fresh
        BY <3>2
      <4>2. ASSUME NEW i \in DOMAIN form.fields
            PROVE  Fits(form.fields[i], ValueKind(form, form.fields[i]))
        BY <1>1, <3>1, <4>2 DEF ValueKind, Kinds
      <4>3. DOMAIN fresh.cells = DOMAIN form.fields
            /\ \A i \in DOMAIN form.fields : fresh.cells[i].kind = ValueKind(form, form.fields[i])
        OBVIOUS
      <4> HIDE DEF built, fresh, Fits
      <4>4. QED
        BY <4>1, <4>2, <4>3
    <3>3. CASE ~NeedsRebuild(screen)
      <4>1. built = screen /\ screen.labels = form.fields /\ DOMAIN screen.cells = DOMAIN form.fields
        BY <3>3 DEF NeedsRebuild, PaneInv, IsScreen
      <4>2. \A i \in DOMAIN form.fields : CellOK(form.fields[i], screen.cells[i])
        BY <4>1 DEF Typed
      <4>3. \A i \in DOMAIN form.fields : Fits(form.fields[i], screen.cells[i].kind)
        BY <1>1, <3>1, <4>2 DEF CellOK, Kinds
      <4> HIDE DEF built, Fits
      <4>4. QED
        BY <4>1, <4>3
    <3>4. QED
      BY <3>2, <3>3
  <2>2. IsScreen(screen)
    BY DEF PaneInv
  <2>3. Seen = [built EXCEPT !.cells = filled]
    BY <1>3 DEF Seen, Rendered
  <2>4. built = [entry |-> built.entry, labels |-> built.labels, cells |-> built.cells]
    BY <2>2 DEF IsScreen
  <2>5. DOMAIN filled = DOMAIN form.fields
        /\ \A i \in DOMAIN form.fields :
             filled[i] = [kind |-> built.cells[i].kind,
                          items |-> Filled(form, form.fields[i], built.cells[i].kind)]
    <3> HIDE DEF built
    <3>1. QED
      BY <2>1
  <2> HIDE DEF built, filled
  <2>6. Seen.cells = filled
    BY <2>3, <2>4
  <2>7. ASSUME NEW i \in DOMAIN form.fields
        PROVE  /\ CellOK(form.fields[i], filled[i])
               /\ ReadBack(form, filled[i], i) =>
                    Strip(form.fields[i], ToValues(form.fields[i], form.vals[form.fields[i]], filled[i]))
                    = Strip(form.fields[i], form.vals[form.fields[i]])
    <3> DEFINE l == form.fields[i]
               k == built.cells[i].kind
    <3>1. l \in Labels /\ k \in Kinds /\ (k = Kind[l] \/ (k = "text" /\ Kind[l] = "list"))
          /\ filled[i] = [kind |-> k, items |-> Filled(form, l, k)]
      BY <1>1, <2>1, <2>5
    <3>2. Loose(l, form.vals[l])
      BY <3>1 DEF Typed, LooseValues
    <3>3. ReadBack(form, filled[i], i) =>
            k \in {"text", "list", "ordered"} /\ (k = "text" => Kind[l] = "text")
      <4>1. filled[i].kind = k
        BY <3>1
      <4>2. QED
        BY <4>1 DEF ReadBack, InlineEditable
    <3> HIDE DEF l, k
    <3>4. CellOK(l, filled[i])
      BY <3>1, <3>2, FilledType
    <3>5. ASSUME ReadBack(form, filled[i], i)
          PROVE  Strip(l, ToValues(l, form.vals[l], filled[i])) = Strip(l, form.vals[l])
      <4>1. k \in {"text", "list", "ordered"} /\ k = Kind[l]
        BY <3>1, <3>3, <3>5
      <4>2. QED
        BY <3>1, <3>2, <4>1, ShownWhole
    <3>6. QED
      BY <3>4, <3>5 DEF l
  <2>8. QED
    BY <2>5, <2>6, <2>7
<1>4. QED
  BY <1>2, <1>3

\* Typed, of what a step makes.
LEMMA TypedNext ==
  ASSUME server' = [e \in Entries |-> server'[e]],
         \A e \in Entries : PlainValues(server'[e].vals),
         form'.entry \in Entries, LooseValues(form'.vals),
         \A i \in DOMAIN screen'.cells : CellOK(screen'.labels[i], screen'.cells[i]),
         out' # None => out'.entry \in Entries,
         out' # None /\ out'.what = "save" =>
           \A l \in DOMAIN out'.plan \cap Labels : Plain(l, out'.plan[l])
  PROVE  Typed'
<1>1. (\A e \in Entries : PlainValues(server[e].vals))'
  BY DEF PlainValues, Plain, Contents, Strip
<1>2. LooseValues(form.vals)'
  BY DEF LooseValues, Loose, Plain, Contents, Strip
<1>3. (\A i \in DOMAIN screen.cells : CellOK(screen.labels[i], screen.cells[i]))'
  BY Zenon DEF CellOK
<1>4. (out # None /\ out.what = "save" => \A l \in DOMAIN out.plan \cap Labels : Plain(l, out.plan[l]))'
  BY DEF Plain, Contents, Strip
<1>5. QED
  BY <1>1, <1>2, <1>3, <1>4 DEF Typed

\* An event that changes the cells of no field but those it touches.
LEMMA EventClean ==
  ASSUME PaneInv, Typed, Clean,
         NEW cells, DOMAIN cells = DOMAIN Seen.cells, Event(cells),
         \A i \in DOMAIN cells : CellOK(form.fields[i], cells[i]),
         \A i \in DOMAIN cells : form.fields[i] \in touched' \/ cells[i] = Seen.cells[i],
         touched \subseteq touched', UNCHANGED <<server, out, rebased>>
  PROVE  Typed' /\ Clean'
<1> DEFINE g == SyncIntoForm(form, cells)
           F == form.fields
<1>1. /\ screen' = [Seen EXCEPT !.cells = cells] /\ form' = g
  BY DEF Event
<1>2. IsScreen(Seen) /\ Aligned(Seen) /\ DOMAIN cells = DOMAIN F
  BY SeenFacts
<1>3. screen' = [entry |-> form.entry, labels |-> F, cells |-> cells]
  BY <1>1, <1>2 DEF IsScreen, Aligned
<1>4. /\ IsForm(g)
      /\ g.entry = form.entry /\ g.fields = form.fields /\ g.orphaned = form.orphaned
         /\ g.base = form.base
      /\ g.vals = [l \in Labels |-> g.vals[l]]
      /\ \A i \in DOMAIN cells : ReadBack(form, cells[i], i) =>
           g.vals[form.fields[i]] = ToValues(form.fields[i], form.vals[form.fields[i]], cells[i])
      /\ \A l \in Labels :
           (\A i \in DOMAIN cells : form.fields[i] = l => ~ReadBack(form, cells[i], i)) =>
           g.vals[l] = form.vals[l]
  <2>1. IsForm(form)
    BY DEF PaneInv
  <2>2. DOMAIN cells = DOMAIN form.fields
    BY <1>2
  <2>3. QED
    BY <2>1, <2>2, SyncFacts
<1> HIDE DEF g
<1>5. \A i \in DOMAIN cells : form.fields[i] \in Labels
  BY <1>2 DEF PaneInv, IsForm
<1>6. ASSUME NEW l \in Labels PROVE Loose(l, g.vals[l])
  <2>1. CASE \E i \in DOMAIN cells : F[i] = l /\ ReadBack(form, cells[i], i)
    <3>1. PICK i \in DOMAIN cells : F[i] = l /\ ReadBack(form, cells[i], i)
      BY <2>1
    <3>2. CellOK(l, cells[i]) /\ g.vals[l] = ToValues(l, form.vals[l], cells[i])
      BY <1>4, <3>1
    <3>3. cells[i].kind = Kind[l] /\ cells[i].kind # "launch"
      BY <3>1, <3>2 DEF ReadBack, InlineEditable, CellOK
    <3>4. Loose(l, form.vals[l])
      BY DEF Typed, LooseValues
    <3>5. QED
      BY <3>2, <3>3, <3>4, BackLoose
  <2>2. CASE \A i \in DOMAIN cells : F[i] = l => ~ReadBack(form, cells[i], i)
    <3>1. g.vals[l] = form.vals[l]
      BY <1>4, <2>2
    <3>2. QED
      BY <3>1 DEF Typed, LooseValues
  <2>3. QED
    BY <2>1, <2>2
<1>7. Typed'
  <2>1. LooseValues(form.vals)'
    BY <1>1, <1>4, <1>6 DEF LooseValues, Loose, Plain, Contents, Strip
  <2>2. form'.entry \in Entries
    BY <1>1, <1>4 DEF Typed
  <2>3. (\A i \in DOMAIN screen.cells : CellOK(screen.labels[i], screen.cells[i]))'
    BY <1>3 DEF CellOK
  <2>4. QED
    BY <2>1, <2>2, <2>3 DEF Typed, PlainValues, Plain, Contents, Strip
<1>8. ASSUME ~rebased, NEW l \in Labels, l \notin touched'
      PROVE  Plain(l, g.vals[l]) /\ Strip(l, g.vals[l]) = Strip(l, g.base[l])
  <2>1. /\ Plain(l, form.vals[l]) /\ Strip(l, form.vals[l]) = Strip(l, form.base[l])
        /\ g.base = form.base
    BY <1>4, <1>8 DEF Clean
  <2>2. CASE \E i \in DOMAIN cells : F[i] = l /\ ReadBack(form, cells[i], i)
    <3>1. PICK i \in DOMAIN cells : F[i] = l /\ ReadBack(form, cells[i], i)
      BY <2>2
    <3>2. cells[i] = Seen.cells[i] /\ g.vals[l] = ToValues(l, form.vals[l], cells[i])
      BY <1>4, <1>8, <3>1
    <3>3. Strip(l, ToValues(l, form.vals[l], cells[i])) = Strip(l, form.vals[l])
      <4>1. i \in DOMAIN Seen.cells /\ ReadBack(form, Seen.cells[i], i)
        BY <3>1, <3>2
      <4>2. Strip(F[i], ToValues(F[i], form.vals[F[i]], Seen.cells[i])) = Strip(F[i], form.vals[F[i]])
        BY <1>8, <4>1, SeenCells
      <4>3. QED
        BY <3>1, <3>2, <4>2
    <3>4. Plain(l, g.vals[l])
      <4>1. CASE Kind[l] = "text"
        <5>1. g.vals[l] = form.vals[l]
          BY <3>2, <3>3, <4>1 DEF Strip
        <5>2. QED
          BY <2>1, <5>1
      <4>2. CASE Kind[l] # "text"
        BY <1>6, <4>2 DEF Loose
      <4>3. QED
        BY <4>1, <4>2
    <3>5. QED
      BY <2>1, <3>2, <3>3, <3>4
  <2>3. CASE \A i \in DOMAIN cells : F[i] = l => ~ReadBack(form, cells[i], i)
    <3>1. g.vals[l] = form.vals[l]
      BY <1>4, <2>3
    <3>2. QED
      BY <2>1, <3>1
  <2>4. QED
    BY <2>2, <2>3
<1>9. Clean'
  BY <1>1, <1>8 DEF Clean, Strip, Plain, Contents
<1>10. QED
  BY <1>7, <1>9

LEMMA ItemsFit ==
  ASSUME NEW l, NEW c, CellOK(l, c), NEW items \in Seq(Values),
         c.kind = "text" => Len(items) <= 1
  PROVE  CellOK(l, [c EXCEPT !.items = items])
<1>1. [c EXCEPT !.items = items] = [kind |-> c.kind, items |-> items]
  BY DEF CellOK
<1>2. QED
  BY <1>1 DEF CellOK

LEMMA EditFits ==
  ASSUME PaneInv, Typed, NEW i \in DOMAIN Seen.cells, Edit(i)
  PROVE  \E items : /\ Edited(i, items)
                    /\ CellOK(form.fields[i], [Seen.cells[i] EXCEPT !.items = items])
<1> DEFINE c == Seen.cells[i]
           V == Values
<1>1. CellOK(form.fields[i], c)
  BY SeenCells
<1>2. Texts \subseteq Values /\ Blank \in Values
  BY FormPaneAssumption
<1>3. CASE TypeText(i)
  <2>1. PICK t \in {<<>>} \cup {<<x>> : x \in Texts} : Edited(i, t)
    BY <1>3 DEF TypeText
  <2>2. t \in Seq(V) /\ Len(t) <= 1
    <3>1. CASE t = <<>>
      BY <3>1
    <3>2. CASE t # <<>>
      <4>1. PICK x \in Texts : t = <<x>>
        BY <2>1, <3>2
      <4>2. x \in V
        BY <1>2
      <4> HIDE DEF V
      <4>3. QED
        BY <4>1, <4>2
    <3>3. QED
      BY <3>1, <3>2
  <2> HIDE DEF c
  <2>3. CellOK(form.fields[i], [c EXCEPT !.items = t])
    BY <1>1, <2>2, ItemsFit
  <2>4. QED
    BY <2>1, <2>3 DEF c
<1>4. CASE EditList(i)
  <2> DEFINE its == c.items
  <2>1. c.kind \in {"list", "ordered"}
    BY <1>4 DEF EditList
  <2>2. its \in Seq(V)
    BY <1>1, <2>1 DEF CellOK
  <2>3. PICK items :
          /\ Edited(i, items)
          /\ \/ \E n \in 0..Len(its) : items = InsertAt(its, n + 1, Blank)
             \/ \E n \in DOMAIN its, t \in Texts : items = [its EXCEPT ![n] = t]
             \/ \E n \in DOMAIN its : items = RemoveAt(its, n)
             \/ \E n \in 1..(Len(its) - 1) :
                  items = [its EXCEPT ![n] = its[n + 1], ![n + 1] = its[n]]
    <3>1. \/ \E n \in 0..Len(its) : Edited(i, InsertAt(its, n + 1, Blank))
          \/ \E n \in DOMAIN its, t \in Texts : Edited(i, [its EXCEPT ![n] = t])
          \/ \E n \in DOMAIN its : Edited(i, RemoveAt(its, n))
          \/ \E n \in 1..(Len(its) - 1) :
               Edited(i, [its EXCEPT ![n] = its[n + 1], ![n + 1] = its[n]])
      BY <1>4 DEF EditList
    <3> HIDE DEF its
    <3>2. QED
      BY <3>1
  <2> DEFINE m == Len(its)
  <2>4. m \in Nat /\ DOMAIN its = 1..m
    BY <2>2
  <2>5. Blank \in V /\ \A t \in Texts : t \in V
    BY <1>2
  <2> HIDE DEF its, V
  <2>6. items \in Seq(V)
    <3>1. CASE \E n \in 0..m : items = InsertAt(its, n + 1, Blank)
      <4>1. PICK n \in 0..m : items = InsertAt(its, n + 1, Blank)
        BY <3>1
      <4>2. SubSeq(its, 1, n) \in Seq(V) /\ SubSeq(its, n + 1, m) \in Seq(V) /\ <<Blank>> \in Seq(V)
        BY <2>2, <2>5
      <4>3. SubSeq(its, 1, n) \o <<Blank>> \o SubSeq(its, n + 1, m) \in Seq(V)
        BY <4>2
      <4>4. (n + 1) - 1 = n
        OBVIOUS
      <4>5. QED
        BY <4>1, <4>3, <4>4 DEF InsertAt
    <3>2. CASE \E n \in DOMAIN its, t \in Texts : items = [its EXCEPT ![n] = t]
      BY <2>2, <2>5, <3>2
    <3>3. CASE \E n \in DOMAIN its : items = RemoveAt(its, n)
      BY <2>2, <3>3, RemoveAtFacts
    <3>4. CASE \E n \in 1..(m - 1) : items = [its EXCEPT ![n] = its[n + 1], ![n + 1] = its[n]]
      <4>1. PICK n \in 1..(m - 1) : items = [its EXCEPT ![n] = its[n + 1], ![n + 1] = its[n]]
        BY <3>4
      <4>2. its[n] \in V /\ its[n + 1] \in V
        BY <2>2, <2>4
      <4>3. QED
        BY <2>2, <4>1, <4>2
    <3>5. QED
      BY <2>3, <3>1, <3>2, <3>3, <3>4 DEF m
  <2> HIDE DEF c
  <2>7. CellOK(form.fields[i], [c EXCEPT !.items = items])
    BY <1>1, <2>1, <2>6, ItemsFit DEF V
  <2>8. QED
    BY <2>3, <2>7 DEF c
<1>5. QED
  BY <1>3, <1>4 DEF Edit

LEMMA EditClean ==
  ASSUME PaneInv, Typed, Clean, NEW i \in DOMAIN Seen.cells, Edit(i)
  PROVE  Typed' /\ Clean'
<1>1. PICK items : /\ Edited(i, items)
                   /\ CellOK(form.fields[i], [Seen.cells[i] EXCEPT !.items = items])
  BY EditFits
<1> DEFINE cells == [Seen.cells EXCEPT ![i].items = items]
<1>2. /\ DOMAIN cells = DOMAIN Seen.cells
      /\ \A k \in DOMAIN cells : k # i => cells[k] = Seen.cells[k]
      /\ cells[i] = [Seen.cells[i] EXCEPT !.items = items]
  OBVIOUS
<1>3. /\ Event(cells) /\ touched' = touched \cup {form.fields[i]}
      /\ UNCHANGED <<server, out, rebased>>
  BY <1>1 DEF Edited
<1> HIDE DEF cells
<1>4. \A k \in DOMAIN cells : CellOK(form.fields[k], cells[k])
  BY <1>1, <1>2, SeenCells
<1>5. \A k \in DOMAIN cells : form.fields[k] \in touched' \/ cells[k] = Seen.cells[k]
  BY <1>2, <1>3
<1>6. touched \subseteq touched'
  BY <1>3
<1>7. QED
  BY <1>2, <1>3, <1>4, <1>5, <1>6, EventClean

-----------------------------------------------------------------------------
(***************************************************************************)
(* What is written, by a save or by others, is of the kind of its field.   *)
(***************************************************************************)
LEMMA NothingPlain == \A l : Plain(l, <<>>)
BY DEF Plain, Contents, Strip

LEMMA CurrentPlain ==
  ASSUME NEW f, NEW l \in Labels, Loose(l, f.vals[l])
  PROVE  Plain(l, Current(f, l))
<1> DEFINE v == f.vals[l]
           k == Cleaned(Single(v))
<1>1. CASE l \in f.orphaned
  BY <1>1, NothingPlain DEF Current
<1>2. CASE l \notin f.orphaned /\ Kind[l] = "text"
  <2>1. Single(v) \in Seq(Values) /\ Len(Single(v)) <= 1 /\ Len(Single(v)) \in Nat
    <3>1. v \in Seq(Values)
      BY <1>2 DEF Loose
    <3> HIDE DEF v
    <3>2. QED
      BY <3>1, SingleType
  <2>2. Current(f, l) = k
    BY <1>2 DEF Current
  <2> HIDE DEF v
  <2>3. k \in Seq(Tidy) /\ Len(k) \in Nat /\ Len(k) <= Len(Single(v))
    BY <2>1, CleanedType
  <2> HIDE DEF k
  <2>4. k \in Seq(Values) /\ Len(k) <= 1
    BY <2>1, <2>3, TidyValues
  <2>5. QED
    BY <1>2, <2>2, <2>3, <2>4 DEF Plain, Contents, Strip
<1>3. CASE l \notin f.orphaned /\ Kind[l] # "text"
  BY <1>3 DEF Current, Loose
<1>4. QED
  BY <1>1, <1>2, <1>3

LEMMA PlainLoose ==
  ASSUME NEW l, NEW v, Plain(l, v)
  PROVE  Loose(l, v)
BY DEF Plain, Loose, Contents

LEMMA PlanPlain ==
  ASSUME NEW f, LooseValues(f.vals)
  PROVE  \A l \in DOMAIN Plan(f) \cap Labels : Plain(l, Plan(f)[l])
<1>1. \A l \in Labels : Plain(l, Current(f, l))
  BY CurrentPlain DEF LooseValues
<1>2. \A l \in DOMAIN Plan(f) : Plan(f)[l] = Current(f, l)
  BY DEF Plan
<1>3. QED
  BY <1>1, <1>2

LEMMA StoredPlain ==
  ASSUME Typed, NEW e \in Entries, NEW new, \A l \in DOMAIN new \cap Labels : Plain(l, new[l])
  PROVE  LET S == Stored1(e, new) IN
         S = [x \in Entries |-> S[x]] /\ \A x \in Entries : PlainValues(S[x].vals)
<1> DEFINE v == [l \in Labels |-> IF l \in DOMAIN new THEN new[l] ELSE server[e].vals[l]]
           n == server[e].csn + 1
           S == Stored1(e, new)
<1>1. S = [server EXCEPT ![e] = [csn |-> n, vals |-> v]]
  BY DEF Stored1
<1>2. PlainValues(v)
  BY DEF Typed, PlainValues
<1>3. server = [x \in Entries |-> server[x]] /\ \A x \in Entries : PlainValues(server[x].vals)
  BY DEF Typed
<1> HIDE DEF S, v, n
<1>4. S = [x \in Entries |-> S[x]]
  BY <1>1, <1>3
<1>5. \A x \in Entries : S[x] = IF x = e THEN [csn |-> n, vals |-> v] ELSE server[x]
  BY <1>1, <1>3
<1>6. \A x \in Entries : PlainValues(S[x].vals)
  BY <1>2, <1>3, <1>5
<1>7. QED
  BY <1>4, <1>6 DEF S

-----------------------------------------------------------------------------
(***************************************************************************)
(* The steps that are no events.                                           *)
(***************************************************************************)
LEMMA LoadClean ==
  ASSUME Typed, PumpEntry
  PROVE  Typed' /\ Clean'
<1> DEFINE e == out.entry
           g == Loaded(e)
<1>1. e \in Entries /\ form' = g /\ out' = None /\ UNCHANGED <<server, screen>>
  BY DEF Typed, PumpEntry
<1>2. g.entry = e /\ g.vals = server[e].vals /\ g.base = server[e].vals
  BY LoadedFacts
<1> HIDE DEF g
<1>3. /\ PlainValues(form'.vals) /\ form'.entry \in Entries /\ form'.vals = form'.base
      /\ LooseValues(form'.vals)
  <2>1. PlainValues(server[e].vals)
    BY <1>1 DEF Typed
  <2>2. LooseValues(server[e].vals)
    BY <2>1, PlainLoose DEF PlainValues, LooseValues
  <2>3. QED
    BY <1>1, <1>2, <2>1, <2>2
<1>4. Typed'
  BY <1>1, <1>3, TypedNext DEF Typed
<1>5. QED
  BY <1>3, <1>4 DEF Clean, PlainValues, Plain, Contents, Strip

\* What is chosen in a modal editor is a change of that field alone.
LEMMA ChosenClean ==
  ASSUME PaneInv, Typed, Clean, NEW l \in Labels, Kind[l] = "launch", NEW v, NEW f,
         f = [form EXCEPT !.vals[l] = v], Committed(l, form'),
         form'.entry = f.entry, form'.vals = f.vals, form'.base = f.base
  PROVE  Typed' /\ Clean'
<1>1. IsForm(form)
  BY DEF PaneInv
<1>2. f.entry = form.entry /\ f.base = form.base /\ f.vals = [form.vals EXCEPT ![l] = v]
  BY <1>1, ValuesKeepForm
<1>3. touched' = touched \cup {l} /\ UNCHANGED <<server, screen, out, rebased>>
  BY DEF Committed
<1>4. form.vals = [k \in Labels |-> form.vals[k]] /\ \A k \in Labels : Loose(k, form.vals[k])
  BY DEF Typed, LooseValues
<1>5. form'.vals = [k \in Labels |-> form'.vals[k]] /\ \A k \in Labels \ {l} : form'.vals[k] = form.vals[k]
  BY <1>2, <1>4
<1>6. \A k \in Labels : Loose(k, form'.vals[k])
  BY <1>4, <1>5 DEF Loose, Plain
<1>7. LooseValues(form'.vals) /\ form'.entry \in Entries
  BY <1>2, <1>5, <1>6 DEF LooseValues, Typed
<1>8. Typed'
  BY <1>3, <1>7, TypedNext DEF Typed
<1>9. ASSUME ~rebased, NEW k \in Labels \ touched'
      PROVE  Plain(k, form'.vals[k]) /\ Strip(k, form'.vals[k]) = Strip(k, form'.base[k])
  <2>1. form'.vals[k] = form.vals[k] /\ form'.base = form.base /\ k \notin touched
    BY <1>2, <1>3, <1>5, <1>9
  <2>2. QED
    BY <1>9, <2>1 DEF Clean
<1>10. Clean'
  BY <1>3, <1>9 DEF Clean, Plain, Contents, Strip
<1>11. QED
  BY <1>8, <1>10

LEMMA ClassesClean ==
  ASSUME PaneInv, Typed, Clean, PickClasses
  PROVE  Typed' /\ Clean'
<1>1. PICK S \in SUBSET Classes :
        Committed(OC, SyncSchemaFields([form EXCEPT !.vals[OC] = SetToSeq(S)], SetToSeq(S)))
  BY DEF PickClasses
<1> DEFINE cs == SetToSeq(S)
           f  == [form EXCEPT !.vals[OC] = cs]
           g  == SyncSchemaFields(f, cs)
<1>2. form' = g /\ Committed(OC, form')
  BY <1>1 DEF Committed
<1>3. IsForm(f)
  BY ValuesKeepForm DEF PaneInv
<1> HIDE DEF f, cs
<1>4. g.entry = f.entry /\ g.vals = f.vals /\ g.base = f.base
  BY <1>3, SyncedFacts
<1>5. OC \in Labels /\ Kind[OC] = "launch"
  BY FormPaneAssumption
<1> HIDE DEF g
<1>6. form'.entry = f.entry /\ form'.vals = f.vals /\ form'.base = f.base
  BY <1>2, <1>4
<1>7. f = [form EXCEPT !.vals[OC] = cs]
  BY DEF f
<1>8. QED
  BY <1>2, <1>5, <1>6, <1>7, ChosenClean

LEMMA ValueClean ==
  ASSUME PaneInv, Typed, Clean, PickValue
  PROVE  Typed' /\ Clean'
<1>1. PICK l \in ToSet(form.fields) \ {OC}, t \in Texts :
        Kind[l] = "launch" /\ Committed(l, [form EXCEPT !.vals[l] = <<t>>])
  BY DEF PickValue
<1> DEFINE v == <<t>>
           f == [form EXCEPT !.vals[l] = v]
<1>2. form' = f /\ Committed(l, form')
  BY <1>1 DEF Committed
<1>3. l \in Labels
  BY <1>1 DEF PaneInv, IsForm, ToSet
<1> HIDE DEF f, v
<1>4. f = [form EXCEPT !.vals[l] = v]
  BY DEF f
<1>5. form'.entry = f.entry /\ form'.vals = f.vals /\ form'.base = f.base
  BY <1>2
<1>6. QED
  BY <1>1, <1>2, <1>3, <1>4, <1>5, ChosenClean

LEMMA SaveFits ==
  ASSUME NEW f, LooseValues(f.vals), f.entry \in Entries
  PROVE  /\ Save(f).entry \in Entries
         /\ \A l \in DOMAIN Save(f).plan \cap Labels : Plain(l, Save(f).plan[l])
<1>1. Save(f).entry = f.entry /\ Save(f).plan = Plan(f)
  BY DEF Save
<1>2. QED
  BY <1>1, PlanPlain

LEMMA ConflictClean ==
  ASSUME PaneInv, Typed, Clean, PumpConflict
  PROVE  Typed' /\ Clean'
<1> DEFINE e == out.entry
           f == Rebased(form, server[e])
<1>1. /\ UNCHANGED <<server, screen, touched>> /\ e \in Entries
      /\ \/ form' = f /\ rebased' /\ out' \in {None, Save(f)}
         \/ UNCHANGED <<form, rebased>> /\ out' \in {Ask(form.entry), None}
  BY DEF PumpConflict, Typed
<1>2. IsForm(form)
  BY DEF PaneInv
<1>3. /\ f.entry = form.entry
      /\ f.vals = [l \in Labels |-> IF l \in DirtyLabels(form) \/ l \notin ToSet(form.fields)
                                    THEN form.vals[l] ELSE server[e].vals[l]]
  BY <1>2, RebasedFacts
<1> HIDE DEF f
<1>4. LooseValues(f.vals) /\ f.entry \in Entries
  BY <1>1, <1>3, PlainLoose DEF Typed, PlainValues, LooseValues
<1>5. CASE form' = f /\ rebased' /\ out' \in {None, Save(f)}
  <2>1. /\ out' # None => out'.entry \in Entries
        /\ out' # None => \A l \in DOMAIN out'.plan \cap Labels : Plain(l, out'.plan[l])
    BY <1>4, <1>5, SaveFits
  <2>2. Typed'
    BY <1>1, <1>4, <1>5, <2>1, TypedNext DEF Typed
  <2>3. QED
    BY <1>5, <2>2 DEF Clean
<1>6. CASE UNCHANGED <<form, rebased>> /\ out' \in {Ask(form.entry), None}
  <2>1. out' # None => out'.entry \in Entries /\ out'.what # "save"
    BY <1>6 DEF Ask, Typed
  <2>2. Typed'
    BY <1>1, <1>6, <2>1, TypedNext DEF Typed
  <2>3. QED
    BY <1>1, <1>6, <2>2 DEF Clean, Plain, Contents, Strip
<1>7. QED
  BY <1>1, <1>5, <1>6

LEMMA WriteClean ==
  ASSUME Typed, Clean, UNCHANGED <<form, screen, touched, rebased>>,
         NEW e \in Entries, NEW new, \A l \in DOMAIN new \cap Labels : Plain(l, new[l]),
         server' \in {server, Stored1(e, new)},
         out' # None => out'.entry \in Entries /\ (out'.what = "save" => out' = out)
  PROVE  Typed' /\ Clean'
<1> DEFINE S == Stored1(e, new)
<1>1. S = [x \in Entries |-> S[x]] /\ \A x \in Entries : PlainValues(S[x].vals)
  BY StoredPlain
<1> HIDE DEF S
<1>2. server' = [x \in Entries |-> server'[x]] /\ \A x \in Entries : PlainValues(server'[x].vals)
  BY <1>1 DEF Typed, S
<1>3. Typed'
  BY <1>2, TypedNext DEF Typed
<1>4. QED
  BY <1>3 DEF Clean, Plain, Contents, Strip

LEMMA ServeClean ==
  ASSUME Typed, Clean, ServeSave
  PROVE  Typed' /\ Clean'
<1>1. PICK e, new :
        /\ e = out.entry /\ new = out.plan /\ e \in Entries
        /\ \A l \in DOMAIN new \cap Labels : Plain(l, new[l])
        /\ UNCHANGED <<form, screen, touched, rebased>>
  BY DEF ServeSave, Typed
<1>2. server' \in {server, Stored1(e, new)}
  BY <1>1 DEF ServeSave
<1>3. out' \in {[what |-> "conflict", entry |-> e], [what |-> "saved", entry |-> e], None}
  BY <1>1 DEF ServeSave
<1>4. out' # None => out'.entry \in Entries /\ (out'.what = "save" => out' = out)
  BY <1>1, <1>3
<1>5. QED
  BY <1>1, <1>2, <1>4, WriteClean

LEMMA OthersClean ==
  ASSUME Orderly, Typed, Clean, NEW e \in Entries, NEW l \in Labels, OthersWrite(e, l)
  PROVE  Typed' /\ Clean'
<1>1. PICK t \in Theirs : server' = Stored1(e, [k \in {l} |-> Numbered(l, <<t>>)])
  BY DEF OthersWrite
<1> DEFINE w == <<t>>
           v == Numbered(l, w)
           new == [k \in {l} |-> v]
<1>2. w \in Seq(Values) /\ Len(w) = 1 /\ w \in Seq(Tidy)
  <2>1. t \in Tidy /\ t \in Values
    BY FormPaneAssumption DEF Orderly
  <2> HIDE DEF Tidy
  <2>2. QED
    BY <2>1
<1> HIDE DEF w
<1>3. Plain(l, v)
  <2>1. v \in Contents(l) /\ Len(v) = 1 /\ Strip(l, v) \in Seq(Tidy)
    BY <1>2, NumberedType
  <2> HIDE DEF v
  <2>2. QED
    BY <2>1 DEF Plain
<1> HIDE DEF v
<1>4. DOMAIN new = {l} /\ new[l] = v
  OBVIOUS
<1> HIDE DEF new
<1>5. \A k \in DOMAIN new \cap Labels : Plain(k, new[k])
  BY <1>3, <1>4
<1>6. server' = Stored1(e, new)
  BY <1>1 DEF new, v, w
<1>7. UNCHANGED <<form, screen, touched, rebased, out>>
  BY DEF OthersWrite
<1>8. out' # None => out'.entry \in Entries /\ (out'.what = "save" => out' = out)
  BY <1>7 DEF Typed
<1>9. QED
  BY <1>5, <1>6, <1>7, <1>8, WriteClean

LEMMA AskClean ==
  ASSUME Typed, Clean, UNCHANGED <<server, form, screen, touched, rebased>>,
         out' # None => /\ out'.entry \in Entries
                        /\ out'.what = "save" =>
                             \A l \in DOMAIN out'.plan \cap Labels : Plain(l, out'.plan[l])
  PROVE  Typed' /\ Clean'
<1>1. Typed'
  BY TypedNext DEF Typed
<1>2. QED
  BY <1>1 DEF Clean, Plain, Contents, Strip

LEMMA CleanStep ==
  ASSUME Orderly, PaneInv, Typed, Clean, [Next]_vars
  PROVE  Typed' /\ Clean'
<1>1. CASE UNCHANGED <<server, form, screen, touched, rebased, out>>
  BY <1>1, AskClean DEF Typed
<1>2. CASE Tick
  <2> DEFINE cells == Seen.cells
  <2>1. Event(cells) /\ UNCHANGED <<server, out, touched, rebased>>
    BY <1>2 DEF Tick
  <2>2. \A i \in DOMAIN cells : CellOK(form.fields[i], cells[i])
    BY SeenCells
  <2>3. \A i \in DOMAIN cells : cells[i] = Seen.cells[i]
    OBVIOUS
  <2>4. DOMAIN cells = DOMAIN Seen.cells
    OBVIOUS
  <2> HIDE DEF cells
  <2>5. QED
    BY <2>1, <2>2, <2>3, <2>4, EventClean
<1>3. CASE EditCell
  BY <1>3, EditClean DEF EditCell
<1>4. CASE Background
  BY <1>1, <1>4 DEF Background
<1>5. ASSUME NEW e \in Entries, RequestLeaf(e) PROVE Typed' /\ Clean'
  <2>1. out' = Ask(e) /\ UNCHANGED <<server, form, screen, touched, rebased>>
    BY <1>5 DEF RequestLeaf
  <2>2. out'.entry \in Entries /\ out'.what # "save"
    BY <2>1 DEF Ask
  <2>3. QED
    BY <2>1, <2>2, AskClean
<1>6. CASE PressSave
  <2>1. out' = Save(form) /\ UNCHANGED <<server, form, screen, touched, rebased>>
    BY <1>6 DEF PressSave
  <2>2. out'.entry \in Entries /\ \A l \in DOMAIN out'.plan \cap Labels : Plain(l, out'.plan[l])
    BY <2>1, SaveFits DEF Typed
  <2>3. QED
    BY <2>1, <2>2, AskClean
<1>7. CASE PumpSaved
  <2>1. out' = Ask(out.entry) /\ out.entry \in Entries
        /\ UNCHANGED <<server, form, screen, touched, rebased>>
    BY <1>7 DEF PumpSaved, Typed
  <2>2. out'.entry \in Entries /\ out'.what # "save"
    BY <2>1 DEF Ask
  <2>3. QED
    BY <2>1, <2>2, AskClean
<1>8. CASE UNCHANGED vars
  BY <1>1, <1>8 DEF vars
<1>9. QED
  BY <1>2, <1>3, <1>4, <1>5, <1>6, <1>7, <1>8, ClassesClean, ValueClean, ServeClean,
     OthersClean, LoadClean, ConflictClean DEF Next

LEMMA CleanInit ==
  ASSUME Orderly, Init
  PROVE  Typed /\ Clean
<1>1. PICK e \in Entries : form = Loaded(e)
  BY DEF Init
<1>2. server = [x \in Entries |-> [csn |-> 0, vals |-> Stored[x]]]
  BY DEF Init
<1>3. \A x \in Entries : PlainValues(Stored[x])
  BY FormPaneAssumption DEF Orderly, PlainValues
<1>4. form.entry = e /\ form.vals = server[e].vals /\ form.base = server[e].vals
  BY <1>1, LoadedFacts
<1>5. server = [x \in Entries |-> server[x]] /\ \A x \in Entries : PlainValues(server[x].vals)
  BY <1>2, <1>3
<1>6. PlainValues(form.vals) /\ LooseValues(form.vals)
  BY <1>4, <1>5, PlainLoose DEF PlainValues, LooseValues
<1>7. screen = [entry |-> None, labels |-> <<>>, cells |-> <<>>] /\ out = None
  BY DEF Init
<1>8. DOMAIN screen.cells = {}
  BY <1>7
<1>9. QED
  BY <1>4, <1>5, <1>6, <1>7, <1>8 DEF Typed, Clean, PlainValues

\* A value of the directory reads as it is.
LEMMA CurrentWhole ==
  ASSUME NEW f, NEW l \in Labels \ f.orphaned, Plain(l, f.vals[l])
  PROVE  Current(f, l) = f.vals[l]
<1> DEFINE v == f.vals[l]
<1>1. CASE Kind[l] = "text"
  <2>1. v \in Seq(Tidy) /\ Len(v) <= 1
    BY <1>1 DEF Plain, Strip
  <2>2. Current(f, l) = Cleaned(Single(v))
    BY <1>1 DEF Current
  <2> HIDE DEF v
  <2>3. Single(v) = v
    BY <2>1, SingleType
  <2>4. Cleaned(v) = v
    BY <2>1, CleanedTidy
  <2>5. QED
    BY <2>2, <2>3, <2>4 DEF v
<1>2. CASE Kind[l] # "text"
  BY <1>2 DEF Current
<1>3. QED
  BY <1>1, <1>2

LEMMA CleanDirty ==
  ASSUME PaneInv, Clean
  PROVE  DirtyIsEdited
<1> SUFFICES ASSUME ~rebased, NEW l \in DirtyLabels(form), l \notin touched, l \notin form.orphaned
             PROVE  FALSE
  BY DEF DirtyIsEdited
<1>1. l \in Labels /\ IsDirty(form, l)
  BY DEF DirtyLabels, PaneInv, IsForm, ToSet
<1>2. Plain(l, form.vals[l]) /\ Strip(l, form.vals[l]) = Strip(l, form.base[l])
  BY <1>1 DEF Clean
<1> DEFINE c == Current(form, l)
<1> HIDE DEF c
<1>6. c = form.vals[l]
  BY <1>1, <1>2, CurrentWhole DEF c
<1>3. CASE Kind[l] = "ordered"
  BY <1>1, <1>2, <1>3, <1>6 DEF IsDirty, c
<1>4. CASE Kind[l] # "ordered"
  <2>1. form.vals[l] = form.base[l]
    BY <1>2, <1>4 DEF Strip
  <2>2. QED
    BY <1>1, <1>4, <1>6, <2>1 DEF IsDirty, SameSet, c
<1>5. QED
  BY <1>3, <1>4

\* Where the values in the directory have no blanks around them, none is empty
\* and a single-valued attribute has one, only what the operator edited, or orphaned, reads as edited:
\* cells, {n} prefixes, and fields that move never make a form dirty.
THEOREM OnlyEditsAreDirty == ASSUME Orderly PROVE Spec => []DirtyIsEdited
<1>1. Init => Typed /\ Clean
  BY CleanInit
<1>2. PaneInv /\ Typed /\ Clean /\ [Next]_vars => Typed' /\ Clean'
  BY CleanStep
<1>3. PaneInv /\ Typed /\ Clean => DirtyIsEdited
  BY CleanDirty
<1>4. Spec => [](Typed /\ Clean)
  BY <1>1, <1>2, PaneAlways, PTL DEF Spec
<1>5. QED
  BY <1>3, <1>4, PaneAlways, PTL
=============================================================================
