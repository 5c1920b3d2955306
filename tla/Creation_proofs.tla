--------------------------- MODULE Creation_proofs ---------------------------
(***************************************************************************)
(* New entries.  First their form, for any set of fields, profiles and     *)
(* ranges and any number of forms, keys and failures: the application's    *)
(* values follow what they are made from, nothing the operator typed is    *)
(* replaced, and a number being looked up has been asked for.  Then the    *)
(* profiles they are made from, for any directory, any config and any      *)
(* limits of the sample: the config's word stands, a failed detection      *)
(* keeps nobody out, and every number is new.                              *)
(***************************************************************************)
EXTENDS CreateForm, ProfileLoad, Lists_proofs

(***************************************************************************)
(* The inductive invariant.  A field holds the operator's text as long as  *)
(* it is neither empty, nor allocating, nor what the application wrote     *)
(* there last: that is what keeps templates, computed values and numbers   *)
(* away from it.  A form of another kind has no text to keep, and a field  *)
(* without any value has none.                                             *)
(***************************************************************************)
FormParts == {"kind", "id", "profile", "vals", "lacks", "bare"}

FormOK ==
  /\ DOMAIN form = FormParts
  /\ DOMAIN form.vals = Fields
  /\ form.lacks \subseteq OfRole("number")
  /\ \A f \in form.bare : f \in OfRole("number") /\ form.vals[f] = Blank
  /\ DOMAIN written = OfRole("computed")
  /\ typed \in Nat
  /\ own \subseteq Typable

NoTextsElsewhere == form.kind # "create" => own = {}

OwnTexts ==
  form.kind = "create" =>
    \A f \in own : form.vals[f] \notin {Blank, Placeholder, LastWritten(f)}

CreateInv == FormOK /\ NoTextsElsewhere /\ OwnTexts /\ ComputedFollows
-----------------------------------------------------------------------------
(***************************************************************************)
(* The recomputations.                                                     *)
(***************************************************************************)
LEMMA SourceIsNotComputed ==
  ASSUME NEW c \in OfRole("computed")
  PROVE  /\ c \in Fields /\ Source[c] \in Fields
         /\ Source[c] \notin OfRole("computed") /\ Source[c] # c
         /\ Role[Source[c]] # "secret"
<1>1. c \in Fields /\ Role[c] = "computed"
  BY DEF OfRole
<1>2. Source[c] \in Fields /\ Role[Source[c]] \notin {"computed", "secret"}
  BY CreateAssumption
<1>3. QED
  BY <1>1, <1>2 DEF OfRole

LEMMA FilledFollows ==
  ASSUME NEW vals, NEW wr, NEW c \in OfRole("computed"),
         Recorded(vals, wr)[c] # Blank, Computed(vals, wr)[c] = Recorded(vals, wr)[c],
         IsNumber(Computed(vals, wr)[Source[c]])
  PROVE  Computed(vals, wr)[c] = Made(c, Computed(vals, wr)[Source[c]])
<1>1. /\ c \in Fields /\ Source[c] \in Fields /\ Source[c] \notin OfRole("computed")
  BY SourceIsNotComputed
<1>2. Computed(vals, wr)[Source[c]] = vals[Source[c]]
  BY <1>1 DEF Computed, Fills
<1>3. CASE c \in Fills(vals, wr)
  BY <1>1, <1>2, <1>3 DEF Computed
<1>4. CASE c \notin Fills(vals, wr)
  <2>1. Computed(vals, wr)[c] = vals[c]
    BY <1>1, <1>4 DEF Computed
  <2>2. Recorded(vals, wr)[c] = wr[c]
    BY <1>4 DEF Recorded
  <2>3. Fillable(c, vals, wr)
    BY <2>1, <2>2 DEF Fillable
  <2>4. c \in Fills(vals, wr)
    BY <1>2, <2>3 DEF Fills
  <2>5. QED
    BY <1>4, <2>4
<1>5. QED
  BY <1>3, <1>4

\* What is neither empty nor what was last written is left alone.
LEMMA FillLeaves ==
  ASSUME NEW vals, NEW wr, NEW f \in Fields, vals[f] # Blank,
         f \in OfRole("computed") => vals[f] # wr[f]
  PROVE  /\ Computed(vals, wr)[f] = vals[f]
         /\ f \in OfRole("computed") => Recorded(vals, wr)[f] = wr[f]
<1>1. f \notin Fills(vals, wr)
  BY DEF Fills, Fillable
<1>2. Computed(vals, wr)[f] = vals[f]
  BY <1>1 DEF Computed
<1>3. f \in OfRole("computed") => Recorded(vals, wr)[f] = wr[f]
  BY <1>1 DEF Recorded
<1>4. QED
  BY <1>2, <1>3

LEMMA MirrorLeaves ==
  ASSUME NEW vals, NEW ls, NEW f \in Fields, vals[f] # Blank,
         f \in Templates => vals[f] # ls[f].last
  PROVE  /\ Mirrored(vals, ls)[f] = vals[f]
         /\ f \in Templates => Live(vals, ls)[f].last = ls[f].last
<1>1. ~(f \in Templates /\ Owns(ls[f], vals[f]))
  BY DEF Owns
<1>2. Mirrored(vals, ls)[f] = vals[f]
  BY <1>1 DEF Mirrored
<1>3. ASSUME f \in Templates PROVE Live(vals, ls)[f].last = ls[f].last
  BY <1>1, <1>3 DEF Live
<1>4. QED
  BY <1>2, <1>3

(***************************************************************************)
(* The end of an event: the computed values follow and own texts stay.     *)
(***************************************************************************)
LEMMA SettledComputed ==
  ASSUME FormOK, NEW vals, Settled(vals), form.kind = "create"
  PROVE  /\ DOMAIN form' = FormParts /\ DOMAIN form'.vals = Fields
         /\ DOMAIN written' = OfRole("computed")
         /\ form'.kind = "create" /\ form'.id = form.id
         /\ form'.lacks = form.lacks /\ form'.bare = {}
         /\ ComputedFollows'
<1> DEFINE mir == Mirrored(vals, live)
<1>1. /\ form' = [form EXCEPT !.vals = Computed(mir, written), !.bare = {}]
      /\ written' = Recorded(mir, written)
  BY DEF Settled
<1>2. /\ form'.vals = Computed(mir, written) /\ form'.kind = "create" /\ form'.id = form.id
      /\ DOMAIN form' = FormParts /\ form'.lacks = form.lacks /\ form'.bare = {}
  BY <1>1 DEF FormOK, FormParts
<1>3. DOMAIN form'.vals = Fields
  BY <1>2 DEF Computed
<1>4. DOMAIN written' = OfRole("computed")
  BY <1>1 DEF Recorded
<1> HIDE DEF mir
<1>5. ComputedFollows'
  BY <1>1, <1>2, FilledFollows DEF ComputedFollows
<1>6. QED
  BY <1>2, <1>3, <1>4, <1>5

LEMMA SettledLeaves ==
  ASSUME FormOK, NEW vals, Settled(vals), NEW f \in Fields,
         vals[f] \notin {Blank, Placeholder, LastWritten(f)}
  PROVE  form'.vals[f] = vals[f] /\ LastWritten(f)' = LastWritten(f)
<1> DEFINE mir == Mirrored(vals, live)
<1>1. /\ form'.vals = Computed(mir, written) /\ live' = Live(vals, live)
      /\ written' = Recorded(mir, written)
  BY DEF Settled, FormOK, FormParts
<1>2. /\ f \in Templates => vals[f] # live[f].last
      /\ f \in OfRole("computed") => vals[f] # written[f]
      /\ vals[f] # Blank
  <2>1. ~(f \in Templates /\ f \in OfRole("computed"))
    BY DEF Templates, OfRole
  <2>2. QED
    BY <2>1 DEF LastWritten
<1>3. mir[f] = vals[f] /\ (f \in Templates => live'[f].last = live[f].last)
  BY <1>1, <1>2, MirrorLeaves
<1> HIDE DEF mir
<1>4. form'.vals[f] = vals[f] /\ (f \in OfRole("computed") => written'[f] = written[f])
  BY <1>1, <1>2, <1>3, FillLeaves
<1>5. QED
  BY <1>3, <1>4 DEF LastWritten
-----------------------------------------------------------------------------
(***************************************************************************)
(* The steps.  Each keeps the invariant, and what it may do to the         *)
(* operator's texts is KeepsTexts.                                         *)
(***************************************************************************)
Replaced == {f \in own \cap own' : form'.vals[f] # form.vals[f]}

KeepsTexts ==
  form'.id = form.id /\ form'.kind = form.kind /\ leaves' = leaves =>
    Cardinality(Replaced) <= typed' - typed

LEMMA NothingReplaced ==
  ASSUME typed \in Nat, typed' = typed, Replaced = {}
  PROVE  KeepsTexts
<1>1. Cardinality(Replaced) = 0
  BY FS_EmptySet
<1>2. QED
  BY <1>1 DEF KeepsTexts

LEMMA OneReplaced ==
  ASSUME typed \in Nat, typed' = typed + 1, NEW f, Replaced \subseteq {f}
  PROVE  KeepsTexts
<1>1. IsFiniteSet({f}) /\ Cardinality({f}) = 1
  BY FS_Singleton
<1>2. /\ Cardinality(Replaced) <= Cardinality({f})
      /\ Cardinality(Replaced) \in Nat
  BY <1>1, FS_Subset, FS_CardinalityType
<1>3. QED
  BY <1>1, <1>2 DEF KeepsTexts

LEMMA FormUntouched ==
  ASSUME CreateInv, UNCHANGED <<form, live, written, own, typed>>
  PROVE  CreateInv' /\ KeepsTexts
<1>1. FormOK'
  BY DEF CreateInv, FormOK
<1>2. NoTextsElsewhere' /\ OwnTexts'
  BY DEF CreateInv, NoTextsElsewhere, OwnTexts, LastWritten
<1>3. ComputedFollows'
  BY DEF CreateInv, ComputedFollows
<1>4. Replaced = {} /\ typed \in Nat
  BY DEF Replaced, CreateInv, FormOK
<1>5. QED
  BY <1>1, <1>2, <1>3, <1>4, NothingReplaced DEF CreateInv

LEMMA StepOpenCreate ==
  ASSUME CreateInv, NEW p \in Profiles, OpenCreate(p)
  PROVE  CreateInv' /\ KeepsTexts
<1>1. /\ form' = NewForm(p, form.id + 1) /\ own' = {} /\ typed' = typed /\ typed \in Nat
      /\ written' = [c \in OfRole("computed") |-> Blank]
  BY DEF OpenCreate, bounds, CreateInv, FormOK
<1>2. FormOK'
  BY <1>1 DEF FormOK, FormParts, NewForm
<1>3. NoTextsElsewhere' /\ OwnTexts'
  BY <1>1 DEF NoTextsElsewhere, OwnTexts, NewForm
<1>4. ComputedFollows'
  BY <1>1 DEF ComputedFollows
<1>5. Replaced = {}
  BY <1>1 DEF Replaced
<1>6. QED
  BY <1>1, <1>2, <1>3, <1>4, <1>5, NothingReplaced DEF CreateInv

LEMMA StepType ==
  ASSUME CreateInv, NEW f \in Typable, NEW v, Type(f, v)
  PROVE  CreateInv' /\ KeepsTexts
<1> DEFINE vals == [form.vals EXCEPT ![f] = v]
<1>1. /\ form.kind = "create" /\ typed' = typed + 1 /\ Settled(vals)
      /\ own' = IF v \in {Blank, Placeholder, LastWritten(f)} THEN own \ {f} ELSE own \cup {f}
  BY DEF Type
<1>2. /\ FormOK /\ OwnTexts /\ DOMAIN form.vals = Fields /\ Typable \subseteq Fields
      /\ typed \in Nat /\ own \subseteq Typable
  BY CreateAssumption DEF CreateInv, FormOK
<1>3. vals[f] = v /\ \A g \in Fields \ {f} : vals[g] = form.vals[g]
  BY <1>2
<1> HIDE DEF vals
<1>4. /\ DOMAIN form' = FormParts /\ DOMAIN form'.vals = Fields
      /\ DOMAIN written' = OfRole("computed") /\ form'.kind = "create" /\ ComputedFollows'
      /\ form'.lacks = form.lacks /\ form'.bare = {}
  BY <1>1, <1>2, SettledComputed
<1>5. FormOK'
  BY <1>1, <1>2, <1>4 DEF FormOK
<1>6. \A g \in own' : g \in Fields /\ vals[g] \notin {Blank, Placeholder, LastWritten(g)}
  BY <1>1, <1>2, <1>3 DEF OwnTexts
<1>7. \A g \in own' : form'.vals[g] = vals[g] /\ LastWritten(g)' = LastWritten(g)
  BY <1>1, <1>2, <1>6, SettledLeaves
<1>8. OwnTexts'
  BY <1>6, <1>7 DEF OwnTexts
<1>9. NoTextsElsewhere'
  BY <1>4 DEF NoTextsElsewhere
<1>10. Replaced \subseteq {f}
  BY <1>2, <1>3, <1>7 DEF Replaced
<1>11. QED
  BY <1>1, <1>2, <1>4, <1>5, <1>8, <1>9, <1>10, OneReplaced DEF CreateInv

LEMMA StepSettled ==
  ASSUME CreateInv, form.kind = "create", Settled(form.vals), UNCHANGED <<own, typed>>
  PROVE  CreateInv' /\ KeepsTexts
<1>1. /\ form.kind = "create" /\ typed' = typed /\ Settled(form.vals) /\ own' = own
  OBVIOUS
<1>2. /\ FormOK /\ OwnTexts /\ Typable \subseteq Fields
      /\ typed \in Nat /\ own \subseteq Typable
  BY CreateAssumption DEF CreateInv, FormOK
<1>3. /\ DOMAIN form' = FormParts /\ DOMAIN form'.vals = Fields
      /\ DOMAIN written' = OfRole("computed") /\ form'.kind = "create" /\ ComputedFollows'
      /\ form'.lacks = form.lacks /\ form'.bare = {}
  BY <1>1, <1>2, SettledComputed
<1>4. FormOK'
  BY <1>1, <1>2, <1>3 DEF FormOK
<1>5. \A g \in own : g \in Fields /\ form.vals[g] \notin {Blank, Placeholder, LastWritten(g)}
  BY <1>1, <1>2 DEF OwnTexts
<1>6. \A g \in own : form'.vals[g] = form.vals[g] /\ LastWritten(g)' = LastWritten(g)
  BY <1>1, <1>2, <1>5, SettledLeaves
<1>7. OwnTexts'
  BY <1>1, <1>5, <1>6 DEF OwnTexts
<1>8. NoTextsElsewhere'
  BY <1>3 DEF NoTextsElsewhere
<1>9. Replaced = {}
  BY <1>6 DEF Replaced
<1>10. QED
  BY <1>1, <1>2, <1>3, <1>4, <1>7, <1>8, <1>9, NothingReplaced DEF CreateInv

\* What a form shows reads back as it is, but for what had no value.
LEMMA StepFormEvent ==
  ASSUME CreateInv, FormEvent
  PROVE  CreateInv' /\ KeepsTexts
<1>1. UNCHANGED <<own, typed>>
  BY DEF FormEvent, history, bounds
<1>2. CASE form.kind = "create" /\ Settled(form.vals)
  BY <1>1, <1>2, StepSettled
<1>3. CASE form.kind = "edit" /\ form' = [form EXCEPT !.bare = {}] /\ UNCHANGED <<live, written>>
  <2>1. FormOK /\ typed \in Nat /\ own = {}
    BY <1>3 DEF CreateInv, FormOK, NoTextsElsewhere
  <2>2. /\ DOMAIN form' = FormParts /\ form'.vals = form.vals /\ form'.kind = "edit"
        /\ form'.lacks = form.lacks /\ form'.bare = {}
    BY <1>3, <2>1 DEF FormOK, FormParts
  <2>3. FormOK'
    BY <1>1, <1>3, <2>1, <2>2 DEF FormOK
  <2>4. NoTextsElsewhere' /\ OwnTexts' /\ ComputedFollows' /\ Replaced = {}
    BY <1>1, <2>1, <2>2 DEF NoTextsElsewhere, OwnTexts, ComputedFollows, Replaced
  <2>5. QED
    BY <1>1, <2>1, <2>3, <2>4, NothingReplaced DEF CreateInv
<1>4. QED
  BY <1>2, <1>3 DEF FormEvent

LEMMA StepStageSecret ==
  ASSUME CreateInv, NEW f \in Fields, StageSecret(f)
  PROVE  CreateInv' /\ KeepsTexts
<1>1. /\ Role[f] = "secret" /\ form' = [form EXCEPT !.vals[f] = Sentinel]
      /\ UNCHANGED <<live, written, own, typed>>
  BY DEF StageSecret, history
<1>2. FormOK /\ f \notin Typable /\ own \subseteq Typable /\ Typable \subseteq Fields /\ typed \in Nat
  BY <1>1, CreateAssumption DEF CreateInv, FormOK, OfRole
<1>3. /\ DOMAIN form' = FormParts /\ DOMAIN form'.vals = Fields
      /\ form'.kind = form.kind /\ form'.lacks = form.lacks /\ form'.bare = form.bare
      /\ \A g \in Fields \ {f} : form'.vals[g] = form.vals[g]
  BY <1>1, <1>2 DEF FormOK, FormParts
<1>4. FormOK'
  BY <1>1, <1>2, <1>3 DEF FormOK, OfRole
<1>5. NoTextsElsewhere'
  BY <1>1, <1>3 DEF CreateInv, NoTextsElsewhere
<1>6. OwnTexts'
  BY <1>1, <1>2, <1>3 DEF CreateInv, OwnTexts, LastWritten
<1>7. \A c \in OfRole("computed") : /\ form'.vals[c] = form.vals[c]
                                    /\ form'.vals[Source[c]] = form.vals[Source[c]]
  <2>1. \A c \in OfRole("computed") : c \in Fields \ {f} /\ Source[c] \in Fields \ {f}
    BY <1>1, SourceIsNotComputed DEF OfRole
  <2>2. QED
    BY <1>3, <2>1
<1>8. ComputedFollows'
  BY <1>1, <1>3, <1>7 DEF CreateInv, ComputedFollows, IsNumber
<1>9. Replaced = {}
  BY <1>2, <1>3 DEF Replaced
<1>10. QED
  BY <1>1, <1>2, <1>4, <1>5, <1>6, <1>8, <1>9, NothingReplaced DEF CreateInv

LEMMA StepGenerate ==
  ASSUME CreateInv, NEW f \in Fields, Generate(f)
  PROVE  CreateInv' /\ KeepsTexts
<1> DEFINE made == Made(f, form.vals[Source[f]])
<1>1. /\ form.kind = "create" /\ f \in OfRole("computed")
      /\ form' = [form EXCEPT !.vals[f] = made]
      /\ written' = [written EXCEPT ![f] = made]
      /\ own' = own \ {f} /\ UNCHANGED <<live, typed>>
  BY DEF Generate, bounds, OfRole
<1>2. FormOK /\ own \subseteq Typable /\ Typable \subseteq Fields /\ typed \in Nat
  BY CreateAssumption DEF CreateInv, FormOK
<1> HIDE DEF made
<1>3. /\ DOMAIN form' = FormParts /\ DOMAIN form'.vals = Fields
      /\ form'.kind = "create" /\ form'.vals[f] = made
      /\ form'.lacks = form.lacks /\ form'.bare = form.bare
      /\ \A g \in Fields \ {f} : form'.vals[g] = form.vals[g]
  BY <1>1, <1>2 DEF FormOK, FormParts
<1>4. /\ DOMAIN written' = OfRole("computed")
      /\ \A c \in OfRole("computed") \ {f} : written'[c] = written[c]
  BY <1>1, <1>2 DEF FormOK
<1>5. FormOK'
  BY <1>1, <1>2, <1>3, <1>4 DEF FormOK, OfRole
<1>6. NoTextsElsewhere'
  BY <1>3 DEF NoTextsElsewhere
<1>7. OwnTexts'
  BY <1>1, <1>2, <1>3, <1>4 DEF CreateInv, OwnTexts, LastWritten
<1>8. \A c \in OfRole("computed") : /\ c \in Fields /\ form'.vals[Source[c]] = form.vals[Source[c]]
                                    /\ Source[c] \in Fields
  <2>1. \A c \in OfRole("computed") : c \in Fields /\ Source[c] \in Fields \ {f}
    BY <1>1, SourceIsNotComputed
  <2>2. QED
    BY <1>3, <2>1
<1>9. ASSUME NEW c \in OfRole("computed"), written'[c] # Blank, form'.vals[c] = written'[c],
             IsNumber(form'.vals[Source[c]])
      PROVE  form'.vals[c] = Made(c, form'.vals[Source[c]])
  <2>1. CASE c = f
    BY <1>3, <1>8, <2>1 DEF made
  <2>2. CASE c # f
    BY <1>1, <1>3, <1>4, <1>8, <1>9, <2>2 DEF CreateInv, ComputedFollows
  <2>3. QED
    BY <2>1, <2>2
<1>10. ComputedFollows'
  BY <1>9 DEF ComputedFollows
<1>11. Replaced = {}
  BY <1>1, <1>2, <1>3 DEF Replaced
<1>12. QED
  BY <1>1, <1>2, <1>5, <1>6, <1>7, <1>10, <1>11, NothingReplaced DEF CreateInv

\* The form is emptied, whatever it held: nothing of it counts as typed.
LEMMA StepLeaveFor ==
  ASSUME CreateInv, LeaveFor
  PROVE  CreateInv' /\ KeepsTexts
<1>1. /\ form' = [form EXCEPT !.vals = [g \in Fields |-> Blank], !.bare = form.lacks]
      /\ own' = {} /\ UNCHANGED <<written, typed>>
  BY DEF LeaveFor
<1>2. FormOK /\ Typable \subseteq Fields /\ typed \in Nat
  BY CreateAssumption DEF CreateInv, FormOK
<1>3. /\ DOMAIN form' = FormParts
      /\ form'.vals = [g \in Fields |-> Blank]
      /\ form'.lacks = form.lacks /\ form'.bare = form.lacks
  BY <1>1, <1>2 DEF FormOK, FormParts
<1>4. FormOK'
  BY <1>1, <1>2, <1>3 DEF FormOK, OfRole
<1>5. NoTextsElsewhere' /\ OwnTexts'
  BY <1>1, <1>2, <1>3 DEF NoTextsElsewhere, OwnTexts
<1>6. ComputedFollows'
  BY <1>3, SourceIsNotComputed DEF ComputedFollows
<1>7. Replaced = {}
  BY <1>1 DEF Replaced
<1>8. QED
  BY <1>1, <1>2, <1>4, <1>5, <1>6, <1>7, NothingReplaced DEF CreateInv

\* The number that arrives, and whatever its request was for, replaces the
\* placeholder only, or what has no value; the computed values are then made anew.
LEMMA StepPumpScan ==
  ASSUME CreateInv, NEW r, PumpScan(r), UNCHANGED typed
  PROVE  CreateInv' /\ KeepsTexts
<1> DEFINE mine == {q \in pending : q.id = r.id}
           q    == CHOOSE x \in mine : TRUE
           n    == IF r.ok THEN NextInRange(r.seen, Ranges[q.profile]) ELSE Blank
           vals == [form.vals EXCEPT ![q.attr] = Allocated(q.attr, n)]
           end  == IF form.kind = "create" THEN Computed(vals, written) ELSE vals
<1>1. /\ form' = [form EXCEPT !.vals = end, !.bare = StillBare(q.attr, n)]
      /\ written' = IF form.kind = "create" THEN Recorded(vals, written) ELSE written
      /\ live' = live /\ own' = own
  BY DEF PumpScan
<1> HIDE DEF n, q, mine
<1>2. FormOK /\ own \subseteq Typable /\ Typable \subseteq Fields /\ typed \in Nat
  BY CreateAssumption DEF CreateInv, FormOK
<1>3. /\ DOMAIN vals = Fields
      /\ \A g \in Fields : form.vals[g] \notin {Blank, Placeholder} => vals[g] = form.vals[g]
  BY <1>2 DEF FormOK, Allocated, Takes
<1>4. \A g \in StillBare(q.attr, n) : g \in OfRole("number") /\ vals[g] = Blank
  <2> SUFFICES ASSUME NEW g \in StillBare(q.attr, n)
               PROVE  g \in OfRole("number") /\ vals[g] = Blank
    OBVIOUS
  <2>1. g \in OfRole("number") /\ g \in Fields
    BY <1>2 DEF StillBare, FormOK, OfRole
  <2>2. CASE g # q.attr
    BY <1>2, <2>1, <2>2 DEF StillBare, FormOK
  <2>3. CASE g = q.attr
    <3>1. n = Blank /\ Takes(g)
      BY <2>3 DEF StillBare, Takes
    <3>2. QED
      BY <1>2, <2>1, <2>3, <3>1 DEF FormOK, Allocated
  <2>4. QED
    BY <2>1, <2>2, <2>3
<1> HIDE DEF vals
<1>5. \A g \in OfRole("number") : end[g] = vals[g]
  <2>1. \A g \in OfRole("number") : g \in Fields /\ g \notin OfRole("computed")
    BY DEF OfRole
  <2>2. QED
    BY <2>1 DEF Computed, Fills
<1>6. DOMAIN end = Fields
  BY <1>3 DEF Computed
<1>7. /\ DOMAIN form' = FormParts /\ form'.kind = form.kind /\ form'.vals = end
      /\ form'.lacks = form.lacks /\ form'.bare = StillBare(q.attr, n)
  <2> HIDE DEF end
  <2>1. QED
    BY <1>1, <1>2 DEF FormOK, FormParts
<1>8. FormOK'
  <2>1. DOMAIN written' = OfRole("computed")
    BY <1>1, <1>2 DEF FormOK, Recorded
  <2> HIDE DEF end
  <2>2. QED
    BY <1>1, <1>2, <1>4, <1>5, <1>6, <1>7, <2>1 DEF FormOK
<1>9. CASE form.kind = "create"
  <2>1. form'.vals = Computed(vals, written) /\ written' = Recorded(vals, written)
    BY <1>1, <1>7, <1>9
  <2>2. ComputedFollows'
    BY <2>1, FilledFollows DEF ComputedFollows
  <2>3. \A g \in own : /\ g \in Fields /\ form.vals[g] \notin {Blank, Placeholder}
                       /\ g \in Templates => form.vals[g] # live[g].last
                       /\ g \in OfRole("computed") => form.vals[g] # written[g]
    <3>1. \A g : ~(g \in Templates /\ g \in OfRole("computed"))
      BY DEF Templates, OfRole
    <3>2. QED
      BY <1>2, <1>9, <3>1 DEF CreateInv, OwnTexts, LastWritten
  <2>4. \A g \in own : vals[g] = form.vals[g]
    BY <1>3, <2>3
  <2>5. \A g \in own : /\ form'.vals[g] = form.vals[g]
                       /\ g \in OfRole("computed") => written'[g] = written[g]
    BY <2>1, <2>3, <2>4, FillLeaves
  <2>6. OwnTexts'
    BY <1>1, <2>3, <2>5 DEF OwnTexts, LastWritten
  <2>7. NoTextsElsewhere' /\ Replaced = {}
    BY <1>1, <1>7, <1>9, <2>5 DEF NoTextsElsewhere, Replaced
  <2>8. QED
    BY <1>2, <1>8, <2>2, <2>6, <2>7, NothingReplaced DEF CreateInv
<1>10. CASE form.kind # "create"
  <2>1. own = {}
    BY <1>10 DEF CreateInv, NoTextsElsewhere
  <2>2. NoTextsElsewhere' /\ OwnTexts' /\ ComputedFollows' /\ Replaced = {}
    BY <1>1, <1>7, <1>10, <2>1 DEF NoTextsElsewhere, OwnTexts, ComputedFollows, Replaced
  <2>3. QED
    BY <1>2, <1>8, <2>2, NothingReplaced DEF CreateInv
<1>11. QED
  BY <1>9, <1>10

\* An entry read, or the new entry created: the form is another one.
LEMMA StepFormReplaced ==
  ASSUME CreateInv, own' = {}, UNCHANGED <<written, typed>>,
         form' = Closed \/ \E lacks \in SUBSET OfRole("number") :
                              form' = EntryForm(form.id + 1, lacks)
  PROVE  CreateInv' /\ KeepsTexts
<1>1. FormOK /\ typed \in Nat
  BY DEF CreateInv, FormOK
<1>2. /\ DOMAIN form' = FormParts /\ form'.vals = [f \in Fields |-> Blank]
      /\ form'.kind # "create"
      /\ form'.lacks \subseteq OfRole("number") /\ form'.bare \subseteq OfRole("number")
  BY DEF EntryForm, Closed, NothingOpen, FormParts
<1>3. FormOK'
  BY <1>1, <1>2 DEF FormOK, OfRole
<1>4. NoTextsElsewhere' /\ OwnTexts' /\ ComputedFollows' /\ Replaced = {}
  BY <1>2 DEF NoTextsElsewhere, OwnTexts, ComputedFollows, Replaced
<1>5. QED
  BY <1>1, <1>3, <1>4, NothingReplaced DEF CreateInv

LEMMA StepPump ==
  ASSUME CreateInv, Pump
  PROVE  CreateInv' /\ KeepsTexts
<1>1. PICK r : PumpScan(r) \/ PumpRead(r) \/ PumpCreated(r) \/ PumpSaved(r)
  BY DEF Pump
<1>2. UNCHANGED typed
  BY DEF Pump, bounds
<1>3. CASE PumpScan(r)
  BY <1>2, <1>3, StepPumpScan
<1>4. CASE PumpRead(r)
  BY <1>2, <1>4, StepFormReplaced DEF PumpRead
<1>5. CASE PumpCreated(r)
  <2>1. CASE r.ok
    BY <1>2, <1>5, <2>1, StepFormReplaced DEF PumpCreated
  <2>2. CASE ~r.ok
    BY <1>2, <1>5, <2>2, FormUntouched DEF PumpCreated
  <2>3. QED
    BY <2>1, <2>2
<1>6. CASE PumpSaved(r)
  BY <1>2, <1>6, FormUntouched DEF PumpSaved, formVars
<1>7. QED
  BY <1>1, <1>3, <1>4, <1>5, <1>6

LEMMA CreateStep ==
  ASSUME CreateInv, [Next]_vars
  PROVE  CreateInv' /\ KeepsTexts
<1>1. CASE Create
  BY <1>1, StepOpenCreate DEF Create
<1>2. CASE \E f \in Typable : \E v : Type(f, v)
  BY <1>2, StepType
<1>3. CASE \E f \in Fields : StageSecret(f) \/ Generate(f)
  BY <1>3, StepStageSecret, StepGenerate
<1>4. CASE FormEvent
  BY <1>4, StepFormEvent
<1>5. CASE LeaveFor
  BY <1>5, StepLeaveFor
<1>6. CASE Pump
  BY <1>6, StepPump
<1>7. CASE PressSave
  BY <1>7, FormUntouched DEF PressSave, formVars, history
<1>8. CASE SaveAsChange
  <2>1. UNCHANGED <<form, live, written, own, typed>>
    BY <1>8 DEF SaveAsChange, formVars, history
  <2>2. QED
    BY <2>1, FormUntouched
<1>9. CASE Confirm
  BY <1>9, FormUntouched DEF Confirm, formVars, bounds
<1>10. CASE Cancel
  BY <1>10, FormUntouched DEF Cancel, formVars, history, bounds
<1>11. CASE Work
  BY <1>11, FormUntouched DEF Work, uiVars, formVars, history, bounds
<1>12. CASE OthersTake
  BY <1>12, FormUntouched DEF OthersTake, uiVars, formVars, history
<1>13. CASE UNCHANGED vars
  BY <1>13, FormUntouched DEF vars, uiVars, formVars, history, bounds
<1>14. QED
  BY <1>1, <1>2, <1>3, <1>4, <1>5, <1>6, <1>7, <1>8, <1>9, <1>10, <1>11, <1>12, <1>13
  DEF Next

LEMMA CreateInit == Init => CreateInv
<1> SUFFICES ASSUME Init PROVE CreateInv
  OBVIOUS
<1>1. /\ form = NothingOpen(0)
      /\ written = [c \in OfRole("computed") |-> Blank] /\ own = {} /\ typed = 0
  BY DEF Init
<1>2. FormOK
  BY <1>1 DEF FormOK, FormParts, NothingOpen
<1>3. NoTextsElsewhere
  BY <1>1 DEF NoTextsElsewhere
<1>4. OwnTexts /\ ComputedFollows
  BY <1>1 DEF OwnTexts, ComputedFollows, NothingOpen
<1>5. QED
  BY <1>2, <1>3, <1>4 DEF CreateInv

THEOREM CreateInvariant == Spec => []CreateInv
<1>1. CreateInv /\ [Next]_vars => CreateInv'
  BY CreateStep
<1>2. QED
  BY CreateInit, <1>1, PTL DEF Spec

-----------------------------------------------------------------------------
\* A computed value that is still the application's is always that of the number
\* shown (fill_computed_defaults), however often that number is typed over, and
\* whichever of typing, scans and recomputations comes first.
THEOREM ComputedValuesFollow == Spec => []ComputedFollows
<1>1. CreateInv => ComputedFollows
  BY DEF CreateInv
<1>2. QED
  BY CreateInvariant, <1>1, PTL

\* Nothing the operator typed is replaced by a template, a computed value or a
\* number that arrives later (recompute_live, fill_computed_defaults,
\* apply_alloc_outcome): one key changes one text.
THEOREM TypedTextStays == Spec => OperatorsTextStays
<1>1. CreateInv /\ [Next]_vars =>
        [form'.id = form.id /\ form'.kind = form.kind /\ leaves' = leaves =>
           Cardinality({f \in own \cap own' : form'.vals[f] # form.vals[f]}) <= typed' - typed]_vars
  <2> SUFFICES ASSUME CreateInv, [Next]_vars
               PROVE  form'.id = form.id /\ form'.kind = form.kind /\ leaves' = leaves =>
                        Cardinality({f \in own \cap own' : form'.vals[f] # form.vals[f]})
                          <= typed' - typed
    OBVIOUS
  <2>1. QED
    BY CreateStep DEF KeepsTexts, Replaced
<1>2. QED
  BY CreateInvariant, <1>1, PTL DEF Spec, OperatorsTextStays
-----------------------------------------------------------------------------
(***************************************************************************)
(* The numbers looked up while the form is open (AllocFlow).               *)
(***************************************************************************)
\* What is written here is taken from the operator or the application, and
\* neither writes what stands for "being looked up".
PlaceholderIsReserved ==
  /\ Placeholder \notin Texts /\ Placeholder # Sentinel
  /\ \A n : Placeholder # Number(n)
  /\ \A f \in Fields : \A v : Placeholder # Made(f, v)

Waiting(vals) == {f \in Fields : vals[f] = Placeholder}
OnItsWay == ToSet(jobs) \cup ToSet(resps)

\* Each placeholder has a pending id of its own, and each pending id one
\* request or answer.
QueuesOK == (\E X : jobs \in Seq(X)) /\ (\E X : resps \in Seq(X))

PendingOK ==
  /\ lastId \in Nat
  /\ \A q \in pending : q.id \in 1..lastId
  /\ \A p, q \in pending : p.id = q.id => p = q
  /\ \A q \in pending : \E s \in OnItsWay : s.what = "scan" /\ s.id = q.id

AwaitInv ==
  /\ DOMAIN form = FormParts /\ DOMAIN form.vals = Fields
  /\ DOMAIN written = OfRole("computed")
  /\ QueuesOK /\ PendingOK
  /\ \A f \in Waiting(form.vals) : \E q \in pending : q.attr = f

LEMMA SeqOfFields ==
  ASSUME NEW S, IsFiniteSet(S)
  PROVE  SetToSeq(S) \in Seq(S) /\ \A x \in S : \E i \in DOMAIN SetToSeq(S) : SetToSeq(S)[i] = x
<1> DEFINE n == Cardinality(S)
           s == SetToSeq(S)
<1>1. n \in Nat /\ ExistsBijection(1..n, S)
  BY FS_CardinalityType
<1>2. \E f \in [1..n -> S] : IsInjective(f)
  BY <1>1 DEF ExistsBijection, Bijection, Injection
<1>3. s \in [1..n -> S] /\ IsInjective(s)
  BY <1>2 DEF SetToSeq
<1> HIDE DEF s
<1>4. s \in Injection(1..n, S)
  BY <1>3 DEF Injection
<1>5. IsFiniteSet(1..n) /\ Cardinality(1..n) = n
  BY <1>1, FS_Interval
<1>6. s \in Surjection(1..n, S)
  BY <1>4, <1>5, FS_Injection
<1>7. \A x \in S : \E i \in 1..n : s[i] = x
  BY <1>6 DEF Surjection
<1>8. QED
  BY <1>1, <1>3, <1>7 DEF s

\* A queue goes on being one.
LEMMA Longer ==
  ASSUME NEW s, \E X : s \in Seq(X), NEW t, \E X : t \in Seq(X), NEW x
  PROVE  /\ (\E X : s \o t \in Seq(X)) /\ ToSet(s \o t) = ToSet(s) \cup ToSet(t)
         /\ (\E X : Append(s, x) \in Seq(X)) /\ ToSet(Append(s, x)) = ToSet(s) \cup {x}
<1>1. PICK X : s \in Seq(X)
  OBVIOUS
<1>2. PICK Y : t \in Seq(Y)
  OBVIOUS
<1> DEFINE Z == X \cup Y \cup {x}
<1>3. s \in Seq(Z) /\ t \in Seq(Z) /\ x \in Z
  BY <1>1, <1>2
<1> HIDE DEF Z
<1>4. /\ s \o t \in Seq(Z) /\ ToSet(s \o t) = ToSet(s) \cup ToSet(t)
      /\ Append(s, x) \in Seq(Z) /\ ToSet(Append(s, x)) = ToSet(s) \cup {x}
  BY <1>3, ConcatSet, AppendSet
<1>5. QED
  BY <1>4

LEMMA Shorter ==
  ASSUME NEW s, \E X : s \in Seq(X), s # <<>>
  PROVE  (\E X : Tail(s) \in Seq(X)) /\ ToSet(s) = {Head(s)} \cup ToSet(Tail(s))
<1>1. PICK X : s \in Seq(X)
  OBVIOUS
<1>2. QED
  BY <1>1, HeadSet

\* Nothing is looked up that was not; what is asked for stays asked for.
LEMMA StillAwaited ==
  ASSUME AwaitInv, QueuesOK', OnItsWay \subseteq OnItsWay',
         pending' = pending, lastId' = lastId,
         DOMAIN form' = FormParts /\ DOMAIN form'.vals = Fields,
         DOMAIN written' = OfRole("computed"),
         Waiting(form'.vals) \subseteq Waiting(form.vals)
  PROVE  AwaitInv'
<1>1. PendingOK'
  BY DEF AwaitInv, PendingOK
<1>2. QED
  BY <1>1 DEF AwaitInv, Waiting

LEMMA FormAsItWas ==
  ASSUME AwaitInv, QueuesOK', OnItsWay \subseteq OnItsWay', pending' = pending, lastId' = lastId,
         form' = form, written' = written
  PROVE  AwaitInv'
BY StillAwaited DEF AwaitInv

\* What follows other values is never being looked up.
LEMMA ComputedWaits ==
  ASSUME PlaceholderIsReserved, NEW vals, DOMAIN vals = Fields, NEW wr
  PROVE  DOMAIN Computed(vals, wr) = Fields /\ Waiting(Computed(vals, wr)) \subseteq Waiting(vals)
<1>1. ASSUME NEW f \in Waiting(Computed(vals, wr)) PROVE f \in Waiting(vals)
  <2>1. f \in Fields /\ Computed(vals, wr)[f] = Placeholder
    BY <1>1 DEF Waiting
  <2>2. Computed(vals, wr)[f] = IF f \in Fills(vals, wr) THEN Made(f, vals[Source[f]]) ELSE vals[f]
    BY <2>1 DEF Computed
  <2>3. Made(f, vals[Source[f]]) # Placeholder
    BY <2>1 DEF PlaceholderIsReserved
  <2>4. QED
    BY <2>1, <2>2, <2>3 DEF Waiting
<1>2. DOMAIN Computed(vals, wr) = Fields
  BY DEF Computed
<1>3. QED
  BY <1>1, <1>2

LEMMA MirroredWaits ==
  ASSUME PlaceholderIsReserved, NEW vals, DOMAIN vals = Fields, NEW ls
  PROVE  DOMAIN Mirrored(vals, ls) = Fields /\ Waiting(Mirrored(vals, ls)) \subseteq Waiting(vals)
<1>1. ASSUME NEW f \in Waiting(Mirrored(vals, ls)) PROVE f \in Waiting(vals)
  <2>1. f \in Fields /\ Mirrored(vals, ls)[f] = Placeholder
    BY <1>1 DEF Waiting
  <2>2. Mirrored(vals, ls)[f] \in {Resolve(f, vals), vals[f]}
    BY <2>1 DEF Mirrored
  <2>3. Resolve(f, vals) # Placeholder
    BY <2>1, CreateAssumption DEF PlaceholderIsReserved, Resolve
  <2>4. QED
    BY <2>1, <2>2, <2>3 DEF Waiting
<1>2. DOMAIN Mirrored(vals, ls) = Fields
  BY DEF Mirrored
<1>3. QED
  BY <1>1, <1>2

LEMMA SettledWaits ==
  ASSUME PlaceholderIsReserved, AwaitInv, NEW vals, DOMAIN vals = Fields,
         Waiting(vals) \subseteq Waiting(form.vals), Settled(vals), UNCHANGED flowVars
  PROVE  AwaitInv'
<1> DEFINE ms == Mirrored(vals, live)
           cs == Computed(ms, written)
<1>1. DOMAIN ms = Fields /\ Waiting(ms) \subseteq Waiting(vals)
  BY MirroredWaits
<1>2. /\ form' = [form EXCEPT !.vals = cs, !.bare = {}]
      /\ DOMAIN written' = OfRole("computed")
  BY DEF Settled, Recorded
<1> HIDE DEF ms
<1>3. DOMAIN cs = Fields /\ Waiting(cs) \subseteq Waiting(ms)
  BY <1>1, ComputedWaits
<1> HIDE DEF cs
<1>4. DOMAIN form' = DOMAIN form /\ form'.vals = cs
  BY <1>2 DEF AwaitInv, FormParts
<1>5. QueuesOK' /\ OnItsWay' = OnItsWay /\ pending' = pending /\ lastId' = lastId
  BY DEF AwaitInv, QueuesOK, OnItsWay, flowVars
<1>6. QED
  BY <1>1, <1>2, <1>3, <1>4, <1>5, StillAwaited DEF AwaitInv

\* A new form: what it looks up it asks for, under ids of its own.
LEMMA OpenAwaits ==
  ASSUME PlaceholderIsReserved, AwaitInv, NEW p, OpenCreate(p)
  PROVE  AwaitInv'
<1> DEFINE W == OfRole("number")
           wanted == SetToSeq(W)
           asked == [i \in DOMAIN wanted |-> [what |-> "scan", id |-> lastId + i]]
           fresh == {[id |-> lastId + i, attr |-> wanted[i], profile |-> p] : i \in DOMAIN wanted}
<1>1. IsFiniteSet(W) /\ W \subseteq Fields
  BY CreateAssumption, FS_Subset DEF OfRole
<1>2. wanted \in Seq(W) /\ \A x \in W : \E i \in DOMAIN wanted : wanted[i] = x
  BY <1>1, SeqOfFields
<1>3. /\ RequestNumbers(p, wanted) /\ resps' = resps /\ form' = NewForm(p, form.id + 1)
      /\ written' = [c \in OfRole("computed") |-> Blank]
  BY DEF OpenCreate
<1> HIDE DEF wanted
<1>4. /\ lastId' = lastId + Len(wanted) /\ pending' = pending \cup fresh
      /\ jobs' = jobs \o asked
  BY <1>3 DEF RequestNumbers
<1>5. Len(wanted) \in Nat /\ DOMAIN wanted = 1..Len(wanted)
  BY <1>2
<1>6. lastId \in Nat /\ QueuesOK /\ PendingOK
  BY DEF AwaitInv, PendingOK
<1>7. \E X : asked \in Seq(X)
  <2> DEFINE X == {[what |-> "scan", id |-> lastId + i] : i \in DOMAIN wanted}
  <2>1. asked \in [1..Len(wanted) -> X]
    BY <1>5
  <2> HIDE DEF X, asked
  <2>2. asked \in Seq(X)
    BY <1>5, <2>1
  <2>3. QED
    BY <2>2
<1>8. \A i \in DOMAIN wanted : [what |-> "scan", id |-> lastId + i] \in ToSet(asked)
  BY DEF ToSet
<1> HIDE DEF asked
<1>9. (\E X : jobs' \in Seq(X)) /\ ToSet(jobs') = ToSet(jobs) \cup ToSet(asked)
  BY <1>4, <1>6, <1>7, Longer DEF QueuesOK
<1>10. QueuesOK' /\ OnItsWay' = OnItsWay \cup ToSet(asked)
  BY <1>3, <1>6, <1>9 DEF QueuesOK, OnItsWay
<1>11. PendingOK'
  <2>1. lastId' \in Nat /\ lastId <= lastId'
    BY <1>4, <1>5, <1>6
  <2>2. \A q \in pending : q.id \in 1..lastId
    BY <1>6 DEF PendingOK
  <2>3. \A q \in fresh : /\ q.id \in (lastId + 1)..lastId'
                         /\ \E s \in ToSet(asked) : s.what = "scan" /\ s.id = q.id
    <3> SUFFICES ASSUME NEW q \in fresh
                 PROVE  /\ q.id \in (lastId + 1)..lastId'
                        /\ \E s \in ToSet(asked) : s.what = "scan" /\ s.id = q.id
      OBVIOUS
    <3>1. PICK i \in DOMAIN wanted : q = [id |-> lastId + i, attr |-> wanted[i], profile |-> p]
      OBVIOUS
    <3>2. q.id = lastId + i /\ i \in 1..Len(wanted)
      BY <1>5, <3>1
    <3>3. q.id \in (lastId + 1)..lastId'
      <4>1. q.id \in Nat /\ lastId + 1 <= q.id /\ q.id <= lastId + Len(wanted)
        BY <1>5, <1>6, <3>2
      <4>2. QED
        BY <1>4, <1>5, <1>6, <4>1
    <3>4. [what |-> "scan", id |-> lastId + i] \in ToSet(asked)
      BY <1>8
    <3>5. QED
      BY <3>2, <3>3, <3>4
  <2>4. \A q \in pending' : q.id \in 1..lastId'
    <3>1. SUFFICES ASSUME NEW q \in pending \cup fresh PROVE q.id \in 1..lastId'
      BY <1>4
    <3>2. CASE q \in pending
      BY <1>6, <2>1, <2>2, <3>2
    <3>3. CASE q \in fresh
      <4> HIDE DEF fresh
      <4>1. q.id \in (lastId + 1)..lastId'
        BY <2>3, <3>3
      <4>2. QED
        BY <1>6, <2>1, <4>1
    <3>4. QED
      BY <3>1, <3>2, <3>3
  <2>5. ASSUME NEW q \in fresh, NEW r \in fresh, q.id = r.id PROVE q = r
    <3>1. PICK i \in DOMAIN wanted : q = [id |-> lastId + i, attr |-> wanted[i], profile |-> p]
      OBVIOUS
    <3>2. PICK j \in DOMAIN wanted : r = [id |-> lastId + j, attr |-> wanted[j], profile |-> p]
      OBVIOUS
    <3>3. lastId + i = lastId + j
      BY <2>5, <3>1, <3>2
    <3>4. i = j
      BY <1>5, <1>6, <3>3
    <3>5. QED
      BY <3>1, <3>2, <3>4
  <2> HIDE DEF fresh
  <2>6. \A q, r \in pending' : q.id = r.id => q = r
    <3> SUFFICES ASSUME NEW q \in pending \cup fresh, NEW r \in pending \cup fresh, q.id = r.id
                 PROVE  q = r
      BY <1>4
    <3>1. CASE q \in pending /\ r \in pending
      BY <1>6, <3>1 DEF PendingOK
    <3>2. CASE q \in fresh /\ r \in fresh
      BY <2>5, <3>2
    <3>3. CASE (q \in pending /\ r \in fresh) \/ (q \in fresh /\ r \in pending)
      <4>1. \E k \in 1..lastId : k \in (lastId + 1)..lastId'
        BY <2>2, <2>3, <3>3
      <4>2. QED
        BY <1>6, <2>1, <4>1
    <3>4. QED
      BY <3>1, <3>2, <3>3
  <2>7. \A q \in pending' : \E s \in OnItsWay' : s.what = "scan" /\ s.id = q.id
    BY <1>4, <1>6, <1>10, <2>3 DEF PendingOK
  <2>8. QED
    BY <2>1, <2>4, <2>6, <2>7 DEF PendingOK
<1>12. /\ DOMAIN form' = FormParts /\ DOMAIN form'.vals = Fields
       /\ DOMAIN written' = OfRole("computed") /\ Waiting(form'.vals) \subseteq W
  BY <1>3, CreateAssumption DEF NewForm, FormParts, Waiting, OfRole
<1>13. ASSUME NEW f \in W PROVE \E q \in pending' : q.attr = f
  <2>1. PICK i \in DOMAIN wanted : wanted[i] = f
    BY <1>2, <1>13
  <2>2. [id |-> lastId + i, attr |-> wanted[i], profile |-> p] \in fresh
    OBVIOUS
  <2>3. QED
    BY <1>4, <2>1, <2>2
<1>14. QED
  BY <1>10, <1>11, <1>12, <1>13 DEF AwaitInv

\* A key puts no placeholder in.
LEMMA TypeAwaits ==
  ASSUME PlaceholderIsReserved, AwaitInv, NEW f \in Typable,
         NEW v \in {Blank} \cup (IF Role[f] = "number" THEN {Number(n) : n \in Typed} ELSE Texts),
         Type(f, v)
  PROVE  AwaitInv'
<1> DEFINE vals == [form.vals EXCEPT ![f] = v]
<1>1. Settled(vals) /\ UNCHANGED flowVars
  BY DEF Type
<1>2. v # Placeholder /\ f \in Fields
  BY CreateAssumption DEF PlaceholderIsReserved
<1>3. DOMAIN vals = Fields /\ Waiting(vals) \subseteq Waiting(form.vals)
  BY <1>2 DEF AwaitInv, Waiting
<1>4. QED
  BY <1>1, <1>3, SettledWaits

\* A step that leaves the queues alone and puts in no placeholder.
LEMMA OneValueAwaits ==
  ASSUME AwaitInv, UNCHANGED flowVars, DOMAIN written' = OfRole("computed"),
         NEW f, NEW v, v # Placeholder, form' = [form EXCEPT !.vals[f] = v]
  PROVE  AwaitInv'
<1> DEFINE vals == [form.vals EXCEPT ![f] = v]
<1>1. DOMAIN form' = DOMAIN form /\ form'.vals = vals
  BY DEF AwaitInv
<1>2. DOMAIN vals = Fields /\ Waiting(vals) \subseteq Waiting(form.vals)
  BY DEF AwaitInv, Waiting
<1>3. QueuesOK' /\ OnItsWay' = OnItsWay /\ pending' = pending /\ lastId' = lastId
  BY DEF AwaitInv, QueuesOK, OnItsWay, flowVars
<1>4. QED
  BY <1>1, <1>2, <1>3, StillAwaited DEF AwaitInv

LEMMA WorkAwaits ==
  ASSUME AwaitInv, Work
  PROVE  AwaitInv'
<1> DEFINE j == Head(jobs)
<1>1. jobs # <<>> /\ form' = form /\ written' = written /\ pending' = pending /\ lastId' = lastId
  BY DEF Work, uiVars, formVars
<1>2. (\E X : jobs \in Seq(X)) /\ (\E X : resps \in Seq(X))
  BY DEF AwaitInv, QueuesOK
<1>3. (\E X : Tail(jobs) \in Seq(X)) /\ ToSet(jobs) = {j} \cup ToSet(Tail(jobs))
  BY <1>1, <1>2, Shorter
<1>4. PICK r : Done(r) /\ (j.what = "scan" => r.what = "scan" /\ r.id = j.id)
  <2>1. WorkScan(j) \/ WorkRead(j) \/ WorkAdd(j) \/ WorkModify(j)
    BY DEF Work
  <2>2. CASE WorkScan(j)
    <3>1. \/ Done([what |-> "scan", id |-> j.id, ok |-> TRUE, seen |-> numbers])
          \/ Done([what |-> "scan", id |-> j.id, ok |-> FALSE, seen |-> {}])
      BY <2>2 DEF WorkScan
    <3>2. CASE Done([what |-> "scan", id |-> j.id, ok |-> TRUE, seen |-> numbers])
      BY <3>2
    <3>3. CASE Done([what |-> "scan", id |-> j.id, ok |-> FALSE, seen |-> {}])
      BY <3>3
    <3>4. QED
      BY <3>1, <3>2, <3>3
  <2>3. CASE WorkRead(j)
    BY <2>3 DEF WorkRead
  <2>4. CASE WorkAdd(j)
    BY <2>4 DEF WorkAdd
  <2>5. CASE WorkModify(j)
    BY <2>5 DEF WorkModify
  <2>6. QED
    BY <2>1, <2>2, <2>3, <2>4, <2>5
<1> HIDE DEF j
<1>5. (\E X : resps' \in Seq(X)) /\ ToSet(resps') = ToSet(resps) \cup {r}
  BY <1>2, <1>4, Longer DEF Done
<1>6. jobs' = Tail(jobs)
  BY <1>4 DEF Done
<1>7. QueuesOK'
  BY <1>3, <1>5, <1>6 DEF QueuesOK
<1>8. PendingOK'
  <2>1. \A q \in pending : \E s \in OnItsWay' : s.what = "scan" /\ s.id = q.id
    <3> SUFFICES ASSUME NEW q \in pending
                 PROVE  \E s \in OnItsWay' : s.what = "scan" /\ s.id = q.id
      OBVIOUS
    <3>1. PICK s \in OnItsWay : s.what = "scan" /\ s.id = q.id
      BY DEF AwaitInv, PendingOK
    <3>2. CASE s = j
      <4>1. r \in OnItsWay' /\ r.what = "scan" /\ r.id = q.id
        BY <1>4, <1>5, <3>1, <3>2 DEF OnItsWay
      <4>2. QED
        BY <4>1
    <3>3. CASE s # j
      <4>1. s \in OnItsWay'
        BY <1>3, <1>5, <1>6, <3>1, <3>3 DEF OnItsWay
      <4>2. QED
        BY <3>1, <4>1
    <3>4. QED
      BY <3>2, <3>3
  <2>2. QED
    BY <1>1, <2>1 DEF AwaitInv, PendingOK
<1>9. QED
  BY <1>1, <1>7, <1>8 DEF AwaitInv

\* One answer less: what its scan was for is no longer looked up.
LEMMA ScanAwaits ==
  ASSUME PlaceholderIsReserved, AwaitInv, resps # <<>>, resps' = Tail(resps),
         lastId' = lastId, PumpScan(Head(resps))
  PROVE  AwaitInv'
<1> DEFINE r == Head(resps)
           mine == {q \in pending : q.id = r.id}
           q == CHOOSE x \in mine : TRUE
           n == IF r.ok THEN NextInRange(r.seen, Ranges[q.profile]) ELSE Blank
           vals == [form.vals EXCEPT ![q.attr] = Allocated(q.attr, n)]
<1>1. /\ pending' = pending \ mine /\ jobs' = jobs
      /\ form' = [form EXCEPT !.vals = IF form.kind = "create" THEN Computed(vals, written) ELSE vals,
                              !.bare = StillBare(q.attr, n)]
      /\ written' = IF form.kind = "create" THEN Recorded(vals, written) ELSE written
  BY DEF PumpScan
<1>2. n # Placeholder
  <2>1. n = Blank \/ n = NextInRange(r.seen, Ranges[q.profile])
    OBVIOUS
  <2>2. NextInRange(r.seen, Ranges[q.profile]) # Placeholder
    <3> HIDE DEF q, r
    <3> DEFINE range == Ranges[q.profile]
               inside == r.seen \cap range
               top    == CHOOSE k \in inside : \A m \in inside : m <= k
               low    == CHOOSE k \in range : \A m \in range : k <= m
               next   == IF inside = {} THEN low ELSE top + 1
    <3>1. NextInRange(r.seen, range) = IF next \in range THEN Number(next) ELSE Blank
      BY DEF NextInRange
    <3> HIDE DEF next
    <3>2. Number(next) # Placeholder \/ next \notin range
      BY DEF PlaceholderIsReserved
    <3>3. QED
      BY <3>1, <3>2, CreateAssumption
  <2>3. QED
    BY <2>1, <2>2, CreateAssumption
<1> HIDE DEF n
<1>3. DOMAIN vals = Fields /\ Waiting(vals) \subseteq Waiting(form.vals) \ {q.attr}
  <2> HIDE DEF q
  <2>1. QED
    BY <1>2 DEF AwaitInv, Waiting, Allocated, Takes
<1> DEFINE end == IF form.kind = "create" THEN Computed(vals, written) ELSE vals
<1>4. DOMAIN end = Fields /\ Waiting(end) \subseteq Waiting(form.vals) \ {q.attr}
  <2> HIDE DEF vals, q
  <2>1. DOMAIN Computed(vals, written) = Fields /\ Waiting(Computed(vals, written)) \subseteq Waiting(vals)
    BY <1>3, ComputedWaits
  <2>2. QED
    BY <1>3, <2>1
<1>5. form'.vals = end /\ DOMAIN form' = DOMAIN form
  <2> HIDE DEF end
  <2>1. form' = [form EXCEPT !.vals = end, !.bare = StillBare(q.attr, n)]
    BY <1>1 DEF end
  <2>2. QED
    BY <2>1 DEF AwaitInv, FormParts
<1>6. DOMAIN written' = OfRole("computed")
  BY <1>1 DEF AwaitInv, Recorded
<1> HIDE DEF vals, end
<1>7. (\E X : Tail(resps) \in Seq(X)) /\ ToSet(resps) = {r} \cup ToSet(Tail(resps))
  BY Shorter DEF AwaitInv, QueuesOK
<1> HIDE DEF r
<1>8. QueuesOK'
  BY <1>1, <1>7 DEF AwaitInv, QueuesOK
<1>9. PendingOK'
  <2>1. ASSUME NEW p \in pending \ mine
        PROVE  \E s \in OnItsWay' : s.what = "scan" /\ s.id = p.id
    <3>1. PICK s \in OnItsWay : s.what = "scan" /\ s.id = p.id
      BY DEF AwaitInv, PendingOK
    <3>2. s # r
      BY <2>1, <3>1
    <3>3. s \in OnItsWay'
      BY <1>1, <1>7, <3>1, <3>2 DEF OnItsWay
    <3>4. QED
      BY <3>1, <3>3
  <2>2. QED
    BY <1>1, <2>1 DEF AwaitInv, PendingOK
<1>10. ASSUME NEW f \in Waiting(form'.vals) PROVE \E p \in pending' : p.attr = f
  <2>1. f \in Waiting(form.vals) /\ f # q.attr
    BY <1>4, <1>5, <1>10
  <2>2. PICK p \in pending : p.attr = f
    BY <2>1 DEF AwaitInv
  <2>3. p \notin mine
    <3> SUFFICES ASSUME p \in mine PROVE FALSE
      OBVIOUS
    <3>1. q \in mine
      OBVIOUS
    <3>2. q = p
      BY <3>1 DEF AwaitInv, PendingOK
    <3>3. QED
      BY <2>1, <2>2, <3>2
  <2>4. QED
    BY <1>1, <2>2, <2>3
<1>11. QED
  BY <1>4, <1>5, <1>6, <1>8, <1>9, <1>10 DEF AwaitInv

LEMMA PumpAwaits ==
  ASSUME PlaceholderIsReserved, AwaitInv, Pump
  PROVE  AwaitInv'
<1> DEFINE r == Head(resps)
<1>1. /\ resps # <<>> /\ resps' = Tail(resps) /\ lastId' = lastId
      /\ PumpScan(r) \/ PumpRead(r) \/ PumpCreated(r) \/ PumpSaved(r)
  BY DEF Pump
<1>2. CASE PumpScan(r)
  BY <1>1, <1>2, ScanAwaits
<1>3. CASE PumpRead(r) \/ PumpCreated(r) \/ PumpSaved(r)
  <2>1. /\ r.what # "scan" /\ pending' = pending /\ written' = written
        /\ \/ form' \in {form, Closed}
           \/ \E lacks \in SUBSET OfRole("number") : form' = EntryForm(form.id + 1, lacks)
        /\ jobs' = jobs \/ jobs' = Append(jobs, [what |-> "read"])
    BY <1>3 DEF PumpRead, PumpCreated, PumpSaved, formVars
  <2>2. (\E X : Tail(resps) \in Seq(X)) /\ ToSet(resps) = {r} \cup ToSet(Tail(resps))
    BY <1>1, Shorter DEF AwaitInv, QueuesOK
  <2> HIDE DEF r
  <2>3. (\E X : jobs' \in Seq(X)) /\ ToSet(jobs) \subseteq ToSet(jobs')
    <3>1. /\ \E X : Append(jobs, [what |-> "read"]) \in Seq(X)
          /\ ToSet(Append(jobs, [what |-> "read"])) = ToSet(jobs) \cup {[what |-> "read"]}
      BY Longer DEF AwaitInv, QueuesOK
    <3>2. CASE jobs' = jobs
      BY <3>2 DEF AwaitInv, QueuesOK
    <3>3. CASE jobs' = Append(jobs, [what |-> "read"])
      BY <3>1, <3>3
    <3>4. QED
      BY <2>1, <3>2, <3>3
  <2>4. QueuesOK'
    BY <1>1, <2>2, <2>3 DEF QueuesOK
  <2>5. PendingOK'
    <3>1. ASSUME NEW p \in pending PROVE \E s \in OnItsWay' : s.what = "scan" /\ s.id = p.id
      <4>1. PICK s \in OnItsWay : s.what = "scan" /\ s.id = p.id
        BY DEF AwaitInv, PendingOK
      <4>2. s \in OnItsWay'
        BY <1>1, <2>1, <2>2, <2>3, <4>1 DEF OnItsWay
      <4>3. QED
        BY <4>1, <4>2
    <3>2. QED
      BY <1>1, <2>1, <3>1 DEF AwaitInv, PendingOK
  <2>6. /\ DOMAIN form' = FormParts /\ DOMAIN form'.vals = Fields
        /\ Waiting(form'.vals) \subseteq Waiting(form.vals)
    <3>1. CASE form' = form
      BY <3>1 DEF AwaitInv
    <3>2. CASE \E lacks \in SUBSET OfRole("number") : form' = EntryForm(form.id + 1, lacks)
      BY <3>2, CreateAssumption DEF EntryForm, FormParts, Waiting
    <3>3. CASE form' = Closed
      BY <3>3, CreateAssumption DEF Closed, NothingOpen, FormParts, Waiting
    <3>4. QED
      BY <2>1, <3>1, <3>2, <3>3
  <2>7. QED
    BY <2>1, <2>4, <2>5, <2>6 DEF AwaitInv
<1>4. QED
  BY <1>1, <1>2, <1>3

LEMMA AwaitStart == Init => AwaitInv
<1> SUFFICES ASSUME Init PROVE AwaitInv
  OBVIOUS
<1>1. form = NothingOpen(0)
  BY DEF Init
<1>2. jobs = <<>> /\ resps = <<>> /\ pending = {} /\ lastId = 0
  BY DEF Init
<1>3. QueuesOK
  <2>1. jobs \in Seq({}) /\ resps \in Seq({})
    BY <1>2
  <2>2. QED
    BY <2>1 DEF QueuesOK
<1>4. DOMAIN form = FormParts /\ DOMAIN form.vals = Fields /\ Waiting(form.vals) = {}
  BY <1>1, CreateAssumption DEF NothingOpen, FormParts, Waiting
<1>5. DOMAIN written = OfRole("computed")
  BY DEF Init
<1>6. QED
  BY <1>1, <1>2, <1>3, <1>4, <1>5 DEF AwaitInv, PendingOK

LEMMA AwaitStep ==
  ASSUME PlaceholderIsReserved, AwaitInv, [Next]_vars
  PROVE  AwaitInv'
<1> USE DEF formVars, flowVars, history, bounds
<1>0. QueuesOK /\ DOMAIN form = FormParts /\ DOMAIN form.vals = Fields
  BY DEF AwaitInv
<1>1. CASE Create
  BY <1>1, OpenAwaits DEF Create
<1>2. CASE \E f \in Typable : \E v \in {Blank} \cup (IF Role[f] = "number"
                                               THEN {Number(n) : n \in Typed} ELSE Texts) : Type(f, v)
  BY <1>2, TypeAwaits
<1>3. CASE \E f \in Fields : StageSecret(f) \/ Generate(f)
  <2>1. PICK f \in Fields : StageSecret(f) \/ Generate(f)
    BY <1>3
  <2>2. CASE StageSecret(f)
    <3>1. form' = [form EXCEPT !.vals[f] = Sentinel] /\ written' = written /\ UNCHANGED flowVars
      BY <2>2 DEF StageSecret
    <3>2. DOMAIN written' = OfRole("computed") /\ Sentinel # Placeholder
      BY <3>1 DEF AwaitInv, PlaceholderIsReserved
    <3>3. QED
      BY <3>1, <3>2, OneValueAwaits
  <2>3. CASE Generate(f)
    <3> DEFINE v == Made(f, form.vals[Source[f]])
    <3>1. form' = [form EXCEPT !.vals[f] = v] /\ written' = [written EXCEPT ![f] = v] /\ UNCHANGED flowVars
      BY <2>3 DEF Generate
    <3>2. DOMAIN written' = OfRole("computed") /\ v # Placeholder
      BY <3>1 DEF AwaitInv, PlaceholderIsReserved
    <3> HIDE DEF v
    <3>3. QED
      BY <3>1, <3>2, OneValueAwaits
  <2>4. QED
    BY <2>1, <2>2, <2>3
<1>4. CASE FormEvent
  <2>1. UNCHANGED flowVars
    BY <1>4 DEF FormEvent
  <2>2. CASE Settled(form.vals)
    BY <1>0, <2>1, <2>2, SettledWaits
  <2>3. CASE form' = [form EXCEPT !.bare = {}] /\ written' = written
    <3>1. DOMAIN form' = FormParts /\ form'.vals = form.vals
      BY <1>0, <2>3 DEF FormParts
    <3>2. QueuesOK' /\ OnItsWay' = OnItsWay /\ pending' = pending /\ lastId' = lastId
      BY <1>0, <2>1 DEF QueuesOK, OnItsWay
    <3>3. QED
      BY <1>0, <2>3, <3>1, <3>2, StillAwaited DEF AwaitInv
  <2>4. QED
    BY <1>4, <2>2, <2>3 DEF FormEvent
<1>5. CASE LeaveFor
  <2>1. /\ form' = [form EXCEPT !.vals = [f \in Fields |-> Blank], !.bare = form.lacks]
        /\ jobs' = Append(jobs, [what |-> "read"])
        /\ resps' = resps /\ pending' = pending /\ lastId' = lastId /\ written' = written
    BY <1>5 DEF LeaveFor
  <2>2. DOMAIN form' = DOMAIN form /\ form'.vals = [f \in Fields |-> Blank]
    BY <1>0, <2>1 DEF FormParts
  <2>3. DOMAIN form'.vals = Fields /\ Waiting(form'.vals) = {}
    BY <2>2, CreateAssumption DEF Waiting
  <2>4. QueuesOK' /\ OnItsWay \subseteq OnItsWay'
    <3>1. /\ \E X : Append(jobs, [what |-> "read"]) \in Seq(X)
          /\ ToSet(Append(jobs, [what |-> "read"])) = ToSet(jobs) \cup {[what |-> "read"]}
      BY <1>0, Longer DEF QueuesOK
    <3>2. QED
      BY <1>0, <2>1, <3>1 DEF QueuesOK, OnItsWay
  <2>5. QED
    BY <1>0, <2>1, <2>2, <2>3, <2>4, StillAwaited DEF AwaitInv
<1>6. CASE Confirm
  <2>1. PICK j : jobs' = Append(jobs, j)
    BY <1>6 DEF Confirm
  <2>2. /\ resps' = resps /\ pending' = pending /\ lastId' = lastId
        /\ form' = form /\ written' = written
    BY <1>6 DEF Confirm
  <2>3. QueuesOK' /\ OnItsWay \subseteq OnItsWay'
    <3>1. (\E X : Append(jobs, j) \in Seq(X)) /\ ToSet(Append(jobs, j)) = ToSet(jobs) \cup {j}
      BY <1>0, Longer DEF QueuesOK
    <3>2. QED
      BY <1>0, <2>1, <2>2, <3>1 DEF QueuesOK, OnItsWay
  <2>4. QED
    BY <2>2, <2>3, FormAsItWas
<1>7. CASE Work
  BY <1>7, WorkAwaits
<1>8. CASE Pump
  BY <1>8, PumpAwaits
<1>9. CASE PressSave \/ SaveAsChange \/ Cancel \/ OthersTake \/ UNCHANGED vars
  <2>1. form' = form /\ written' = written /\ UNCHANGED flowVars
    BY <1>9 DEF PressSave, SaveAsChange, Cancel, OthersTake, vars, uiVars
  <2>2. QueuesOK' /\ OnItsWay' = OnItsWay
    BY <1>0, <2>1 DEF QueuesOK, OnItsWay
  <2>3. QED
    BY <2>1, <2>2, FormAsItWas
<1>10. QED
  BY <1>1, <1>2, <1>3, <1>4, <1>5, <1>6, <1>7, <1>8, <1>9 DEF Next

\* PlaceholdersAreAwaited, for any number of forms, scans and failures: a field
\* that shows the placeholder has a scan of its own on its way (AllocFlow,
\* apply_alloc_outcome), also when forms were left and opened in between.
THEOREM PlaceholdersAreLookedUp ==
  ASSUME PlaceholderIsReserved
  PROVE  Spec => []PlaceholdersAreAwaited
<1>1. AwaitInv /\ [Next]_vars => AwaitInv'
  BY AwaitStep
<1>2. AwaitInv => PlaceholdersAreAwaited
  BY DEF AwaitInv, PendingOK, OnItsWay, Waiting, PlaceholdersAreAwaited
<1>3. QED
  BY AwaitStart, <1>1, <1>2, PTL DEF Spec
-----------------------------------------------------------------------------
(***************************************************************************)
(* The profiles (ProfileLoad).                                             *)
(***************************************************************************)
\* The first of some numbers is one of them.
LEMMA FirstIs ==
  ASSUME NEW S, S \subseteq Nat, S # {}
  PROVE  First(S) \in S /\ \A m \in S : First(S) <= m
BY LeastNumber DEF First
-----------------------------------------------------------------------------
(***************************************************************************)
(* range.rs: the number allocate gives is none of those it keeps clear of. *)
(***************************************************************************)
LEMMA BlocksAreOf ==
  ASSUME NEW S, S \subseteq 0..MaxId, NEW b \in Blocks(S)
  PROVE  b.lo \in S /\ b.hi \in S /\ b.lo \in Nat /\ b.hi \in Nat
<1>1. b \in [lo : Starts(S), hi : Ends(S)]
  BY DEF Blocks
<1>2. b.lo \in Starts(S) /\ b.hi \in Ends(S)
  BY <1>1
<1>3. b.lo \in S /\ b.hi \in S
  BY <1>2 DEF Starts, Ends
<1>4. QED
  <2>1. \A n \in 0..MaxId : n \in Nat
    BY NumberRangeAssumption
  <2>2. QED
    BY <1>3, <2>1

LEMMA BlocksExist ==
  ASSUME NEW S, S \subseteq 0..MaxId, S # {}
  PROVE  Blocks(S) # {}
<1>1. MaxId \in Nat /\ S \subseteq Nat
  BY NumberRangeAssumption
<1>2. PICK lo \in S : \A n \in S : lo <= n
  BY <1>1, LeastNumber
<1>3. lo \in Starts(S)
  <2>1. \A w \in S : ~(w < lo)
    BY <1>1, <1>2
  <2>2. QED
    BY <2>1 DEF Starts
<1>4. PICK top \in S : \A n \in S : n <= top
  <2>1. \A n \in S : n <= MaxId
    BY <1>1
  <2>2. QED
    BY <1>1, <2>1, GreatestNumber
<1>5. top \in Ends(S)
  <2>1. \A w \in S : ~(w > top)
    BY <1>1, <1>4
  <2>2. QED
    BY <2>1 DEF Ends
<1> DEFINE T == {h \in Ends(S) : lo <= h}
<1>6. T \subseteq Nat /\ top \in T
  BY <1>1, <1>2, <1>4, <1>5 DEF Ends
<1>7. PICK hi \in T : \A h \in T : hi <= h
  BY <1>6, LeastNumber
<1>8. [lo |-> lo, hi |-> hi] \in Blocks(S)
  BY <1>3, <1>7 DEF Blocks
<1>9. QED
  BY <1>8

\* What most counts choose, the lowest of several.
LEMMA BestExists ==
  ASSUME NEW B, B # {}, NEW n \in Nat, NEW count \in [B -> 0..n], NEW low \in [B -> Nat]
  PROVE  \E b \in B : \A c \in B : \/ count[c] < count[b]
                                   \/ count[c] = count[b] /\ low[b] <= low[c]
<1> DEFINE T == {count[c] : c \in B}
<1>1. T \subseteq Nat /\ T # {} /\ \A k \in T : k <= n
  OBVIOUS
<1>2. PICK most \in T : \A k \in T : k <= most
  <2> HIDE DEF T
  <2>1. QED
    BY <1>1, GreatestNumber
<1> DEFINE U == {low[c] : c \in {d \in B : count[d] = most}}
<1>3. U \subseteq Nat /\ U # {}
  BY <1>2
<1>4. PICK least \in U : \A k \in U : least <= k
  <2> HIDE DEF U
  <2>1. QED
    BY <1>3, LeastNumber
<1>5. PICK b \in B : count[b] = most /\ low[b] = least
  BY <1>4
<1>6. ASSUME NEW c \in B PROVE \/ count[c] < count[b]
                               \/ count[c] = count[b] /\ low[b] <= low[c]
  <2>1. count[c] \in Nat /\ count[b] \in Nat /\ count[c] <= count[b]
    BY <1>2, <1>5
  <2>2. count[c] = count[b] => low[b] <= low[c]
    BY <1>4, <1>5
  <2>3. QED
    BY <2>1, <2>2
<1>7. QED
  BY <1>6

\* The block allocate continues is one of those the numbers form.
LEMMA ChosenIsABlock ==
  ASSUME NEW spec, NEW E, IsFiniteSet(E), spec.attr \in {"uidNumber", "gidNumber"},
         \A e \in E : e.uidNumber \subseteq 0..MaxId /\ e.gidNumber \subseteq 0..MaxId,
         Space(spec, E) \subseteq 0..MaxId, Space(spec, E) # {}
  PROVE  Chosen(spec, E) \in Blocks(Space(spec, E))
<1> DEFINE S == Space(spec, E)
           M == Mine(spec, E)
           Count(b) == IF M = {} THEN Cardinality({n \in S : Within(n, b)})
                       ELSE Cardinality({m \in M : Within(m[2], b)})
<1>1. MaxId \in Nat /\ S # {} /\ S \subseteq 0..MaxId
  BY NumberRangeAssumption
<1>2. IsFiniteSet(S) /\ Cardinality(S) \in Nat
  <2>1. 0 \in Int /\ MaxId \in Int
    BY <1>1
  <2>2. IsFiniteSet(0..MaxId)
    BY <2>1, FS_Interval
  <2> HIDE DEF S
  <2>3. IsFiniteSet(S)
    BY <1>1, <2>2, FS_Subset
  <2>4. QED
    BY <2>3, FS_CardinalityType
<1>3. IsFiniteSet(M) /\ Cardinality(M) \in Nat
  <2>1. M \subseteq E \X (0..MaxId)
    <3>1. \A e \in E : e[spec.attr] \subseteq 0..MaxId
      OBVIOUS
    <3>2. QED
      BY <3>1 DEF Mine
  <2>2. IsFiniteSet(E \X (0..MaxId))
    <3>1. 0 \in Int /\ MaxId \in Int
      BY <1>1
    <3>2. IsFiniteSet(0..MaxId)
      BY <3>1, FS_Interval
    <3>3. QED
      BY <3>2, FS_Product
  <2> HIDE DEF M
  <2>3. QED
    BY <2>1, <2>2, FS_Subset, FS_CardinalityType
<1> HIDE DEF S, M
<1> DEFINE most == IF M = {} THEN Cardinality(S) ELSE Cardinality(M)
           B == Blocks(S)
           count == [b \in B |-> Count(b)]
           low == [b \in B |-> b.lo]
<1>4. most \in Nat
  BY <1>2, <1>3
<1>5. ASSUME NEW b \in B PROVE Count(b) \in 0..most
  <2> DEFINE K == {n \in S : Within(n, b)}
             L == {m \in M : Within(m[2], b)}
  <2>1. K \in SUBSET S /\ L \in SUBSET M
    OBVIOUS
  <2> HIDE DEF K, L
  <2>2. /\ Cardinality(K) \in Nat /\ Cardinality(K) <= Cardinality(S)
        /\ Cardinality(L) \in Nat /\ Cardinality(L) <= Cardinality(M)
    BY <1>2, <1>3, <2>1, FS_Subset, FS_CardinalityType
  <2>3. Count(b) = IF M = {} THEN Cardinality(K) ELSE Cardinality(L)
    BY DEF K, L
  <2> HIDE DEF Count
  <2>4. QED
    BY <1>2, <1>3, <2>2, <2>3
<1>6. B # {}
  BY <1>1, BlocksExist
<1>7. \A b \in B : b.lo \in Nat
  BY <1>1, BlocksAreOf
<1>8. count \in [B -> 0..most] /\ low \in [B -> Nat]
  <2> HIDE DEF Count, most, B
  <2>1. QED
    BY <1>5, <1>7
<1>9. PICK b \in B : \A c \in B : \/ count[c] < count[b]
                                  \/ count[c] = count[b] /\ low[b] <= low[c]
  <2> HIDE DEF count, low, most, B
  <2>1. QED
    BY <1>4, <1>6, <1>8, BestExists
<1>10. \A c \in B : Count(c) < Count(b) \/ (Count(c) = Count(b) /\ b.lo <= c.lo)
  <2>1. \A c \in B : count[c] = Count(c) /\ low[c] = c.lo
    <3> HIDE DEF Count, B
    <3>1. QED
      OBVIOUS
  <2> HIDE DEF Count, B, count, low
  <2>2. ASSUME NEW c \in B PROVE Count(c) < Count(b) \/ (Count(c) = Count(b) /\ b.lo <= c.lo)
    <3>1. count[c] < count[b] \/ (count[c] = count[b] /\ low[b] <= low[c])
      BY <1>9, Zenon
    <3>2. count[c] = Count(c) /\ low[c] = c.lo /\ count[b] = Count(b) /\ low[b] = b.lo
      BY <2>1
    <3>3. QED
      BY <3>1, <3>2
  <2>3. QED
    BY <2>2
<1>11. (CHOOSE x \in B : \A c \in B : \/ Count(c) < Count(x)
                                      \/ Count(c) = Count(x) /\ x.lo <= c.lo) \in B
  <2> HIDE DEF Count, B
  <2>1. QED
    BY <1>10
<1>12. Chosen(spec, E) = CHOOSE x \in B : \A c \in B : \/ Count(c) < Count(x)
                                                       \/ Count(c) = Count(x) /\ x.lo <= c.lo
  BY DEF Chosen, S, M
<1>13. Chosen(spec, E) \in B
  <2> HIDE DEF Count, B
  <2>1. QED
    BY <1>11, <1>12
<1>14. QED
  BY <1>13 DEF S

LEMMA RoundIsANumber ==
  ASSUME NEW n \in Nat
  PROVE  RoundDown(n) \in Int
<1>1. Round \in Nat /\ Round >= 1
  BY NumberRangeAssumption
<1>2. n \div Round \in Int
  BY <1>1
<1>3. QED
  BY <1>1, <1>2 DEF RoundDown

LEMMA HighestIsAnId ==
  ASSUME NEW S, S \subseteq 0..MaxId, NEW b \in Blocks(S)
  PROVE  Highest(b, S) \in Int /\ Highest(b, S) <= MaxId
<1>1. MaxId \in Nat /\ OpenEnd \in Nat /\ Span \in Nat
  BY NumberRangeAssumption
<1>2. \A c \in Blocks(S) : c.lo \in Nat
  BY <1>1, BlocksAreOf
<1> DEFINE above == {c \in Blocks(S) : c.lo > b.lo}
           x == IF above = {} THEN Larger(OpenEnd, RoundDown(b.lo) + Span)
                ELSE RoundDown((CHOOSE c \in above : \A d \in above : c.lo <= d.lo).lo) - 1
<1>3. x \in Int
  <2>1. CASE above = {}
    <3>1. RoundDown(b.lo) \in Int
      BY <1>2, RoundIsANumber
    <3>2. QED
      BY <1>1, <2>1, <3>1 DEF Larger
  <2>2. CASE above # {}
    <3> DEFINE T == {c.lo : c \in above}
    <3>1. T \subseteq Nat /\ T # {}
      BY <1>2, <2>2
    <3>2. PICK m \in T : \A n \in T : m <= n
      <4> HIDE DEF T
      <4>1. QED
        BY <3>1, LeastNumber
    <3>3. PICK c \in above : \A d \in above : c.lo <= d.lo
      BY <3>2
    <3> DEFINE low == CHOOSE y \in above : \A d \in above : y.lo <= d.lo
    <3>4. low \in above
      <4> HIDE DEF above
      <4>1. QED
        BY <3>3
    <3> HIDE DEF low
    <3>5. RoundDown(low.lo) \in Int
      BY <1>2, <3>4, RoundIsANumber
    <3>6. x = RoundDown(low.lo) - 1
      BY <2>2 DEF low
    <3> HIDE DEF x
    <3>7. QED
      BY <3>5, <3>6
  <2>3. QED
    BY <2>1, <2>2
<1>4. Highest(b, S) = Smaller(MaxId, x)
  BY DEF Highest
<1> HIDE DEF x
<1>5. QED
  BY <1>1, <1>3, <1>4 DEF Smaller

\* What allocate gives is a number no counted entry has (range.rs).
LEMMA AllocatedIsFree ==
  ASSUME NEW spec, NEW E, IsFiniteSet(E), spec.attr \in {"uidNumber", "gidNumber"},
         \A e \in E : e.uidNumber \subseteq 0..MaxId /\ e.gidNumber \subseteq 0..MaxId,
         NEW num \in Allocate(spec, E)
  PROVE  num \in 0..MaxId /\ num \notin Space(spec, E)
<1> DEFINE S == Space(spec, E)
           b == Chosen(spec, E)
<1>1. S \subseteq 0..MaxId
  <2> SUFFICES ASSUME NEW n \in S PROVE n \in 0..MaxId
    OBVIOUS
  <2>1. PICK e \in E : n \in e.uidNumber \/ n \in e.gidNumber
    <3>1. CASE spec.unified
      <4> DEFINE U == UNION {e.uidNumber : e \in {f \in E : IsUser(f)}}
                 G == UNION {e.gidNumber : e \in E}
      <4>1. n \in U \cup G
        BY <3>1 DEF Space
      <4>2. n \in U \/ n \in G
        <5> HIDE DEF U, G
        <5>1. QED
          BY <4>1
      <4>3. n \in UNION {e.uidNumber : e \in {f \in E : IsUser(f)}} => \E e \in E : n \in e.uidNumber
        OBVIOUS
      <4>4. n \in UNION {e.gidNumber : e \in E} => \E e \in E : n \in e.gidNumber
        OBVIOUS
      <4>5. QED
        BY <4>2, <4>3, <4>4
    <3>2. CASE ~spec.unified /\ spec.attr = "uidNumber"
      <4>1. n \in UNION {e.uidNumber : e \in E}
        BY <3>2 DEF Space
      <4>2. \E e \in E : n \in e.uidNumber
        BY <4>1
      <4>3. QED
        BY <4>2
    <3>3. CASE ~spec.unified /\ spec.attr # "uidNumber"
      <4>1. n \in UNION {e.gidNumber : e \in {f \in E : ~IsUser(f)}}
        BY <3>3 DEF Space
      <4>2. QED
        BY <4>1
    <3>4. QED
      BY <3>1, <3>2, <3>3
  <2>2. QED
    BY <2>1
<1>2. num \in IF S = {} THEN {AssumedMin} ELSE {b.hi + 1} \cap 0..Highest(b, S)
  BY DEF Allocate
<1>3. CASE S = {}
  <2>1. num = AssumedMin
    BY <1>2, <1>3
  <2>2. QED
    BY <1>3, <2>1, NumberRangeAssumption
<1>4. CASE S # {}
  <2>1. b \in Blocks(S)
    BY <1>1, <1>4, ChosenIsABlock
  <2> HIDE DEF b, S
  <2>2. num = b.hi + 1 /\ num \in 0..Highest(b, S)
    BY <1>2, <1>4
  <2>3. Highest(b, S) \in Int /\ Highest(b, S) <= MaxId
    BY <1>1, <2>1, HighestIsAnId
  <2>4. b.hi \in S /\ \A w \in S : w > b.hi => w - b.hi > Gap
    BY <2>1 DEF Blocks, Ends
  <2>5. Gap \in Nat /\ Gap >= 1 /\ MaxId \in Nat
    BY NumberRangeAssumption
  <2>6. num \notin S
    <3>1. b.hi \in Nat
      BY <1>1, <2>1, BlocksAreOf
    <3>2. num > b.hi /\ num - b.hi = 1 /\ num \in Nat
      BY <2>2, <3>1
    <3>3. QED
      BY <2>4, <2>5, <3>2
  <2>7. QED
    BY <2>2, <2>3, <2>5, <2>6 DEF S
<1>5. QED
  BY <1>3, <1>4
-----------------------------------------------------------------------------
(***************************************************************************)
(* Detection (infer.rs, patterns/): what the profiles of a sample are.     *)
(***************************************************************************)
LEMMA OverFacts ==
  ASSUME NEW u, NEW l
  PROVE  /\ DOMAIN Over(u, l) = DOMAIN u \cup DOMAIN l
         /\ \A k \in DOMAIN u : Over(u, l)[k] = u[k]
         /\ \A k \in DOMAIN l : k \notin DOMAIN u => Over(u, l)[k] = l[k]
BY DEF Over

LEMMA PartFacts ==
  ASSUME NEW k, NEW v
  PROVE  DOMAIN Part(k, v) = {k} /\ Part(k, v)[k] = v
BY DEF Part

\* No majority makes both of two classes that no entry has both.
LEMMA MajorityUnmixed ==
  ASSUME NEW E, IsFiniteSet(E), NEW a, NEW b, \A e \in E : ~({a, b} \subseteq e.classes)
  PROVE  ~({a, b} \subseteq Majority(E))
<1> SUFFICES ASSUME a \in Majority(E), b \in Majority(E) PROVE FALSE
  OBVIOUS
<1> DEFINE A == {e \in E : a \in e.classes}
           B == {e \in E : b \in e.classes}
           n == Cardinality(E)
<1>1. /\ n > 0 /\ 2 * Cardinality(A) > n
      /\ 2 * Cardinality(B) > n
  BY DEF Majority, MoreThanHalf
<1>2. A \in SUBSET E /\ B \in SUBSET E /\ A \cap B = {}
  OBVIOUS
<1> HIDE DEF A, B
<1>3. Cardinality(A) \in Nat /\ Cardinality(B) \in Nat /\ n \in Nat
  BY <1>2, FS_Subset, FS_CardinalityType
<1>4. Cardinality(A) + Cardinality(B) > n
  <2> HIDE DEF n
  <2>1. QED
    BY <1>1, <1>3
<1>5. A \cap B # {}
  BY <1>2, <1>4, FS_MajoritiesIntersect
<1>6. QED
  BY <1>2, <1>5

\* assign_names changes names only.
LEMMA NamesAssigned ==
  ASSUME NEW ps
  PROVE  /\ DOMAIN AssignNames(ps) = DOMAIN ps
         /\ \A i \in DOMAIN ps : AssignNames(ps)[i] = [ps[i] EXCEPT !.name = NamesGiven(ps)[i]]
BY DEF AssignNames

ProfileFields == {"name", "kind", "structural", "at", "sampled", "classes", "parts", "private",
                  "without", "entries"}

Word   == ToSet(Alphabet)
Places == Seq(DOMAIN Slug) \ {<<>>}

\* What group_container makes of entries among E; what of it stays.
RawProfile(p, E) ==
  /\ DOMAIN p = ProfileFields
  /\ p.name \in Seq(Word) /\ p.kind \in Word /\ p.structural \in Word /\ p.at \in Places
  /\ IsFiniteSet(p.classes)
  /\ p.entries \subseteq E /\ p.classes = Majority(p.entries)
  /\ p.sampled = Cardinality(p.entries)
  /\ p.parts = <<>> /\ p.private = FALSE /\ p.without = {}

LEMMA FiniteAlphabet ==
  IsFiniteSet(ToSet(Alphabet)) /\ IsFiniteSet(StructuralClasses)
<1>1. Alphabet \in Seq(ToSet(Alphabet)) /\ StructuralClasses \in SUBSET ToSet(Alphabet)
  BY ProfileDetectionAssumption
<1>2. /\ Alphabet \in Surjection(1..Len(Alphabet), ToSet(Alphabet))
      /\ Len(Alphabet) \in Int /\ 1 \in Int
  BY <1>1 DEF Surjection, ToSet
<1>3. IsFiniteSet(1..Len(Alphabet))
  BY <1>2, FS_Interval
<1>4. IsFiniteSet(ToSet(Alphabet))
  BY <1>2, <1>3, FS_Surjection
<1>5. QED
  BY <1>1, <1>4, FS_Subset

IsLiteral(v) == \E n \in 0..MaxId : v = Literal(n)

\* What the posix rules make of the profile p.
PosixProfile(q, p) ==
  /\ DOMAIN q = ProfileFields
  /\ q.name = p.name /\ q.structural = p.structural /\ q.at = p.at
  /\ q.sampled = p.sampled /\ q.classes = p.classes /\ q.entries = p.entries
  /\ "posixAccount" \notin q.classes => q.without = {}
  /\ DOMAIN q.parts \subseteq {"defaults.gidNumber", "companion"}
  /\ "defaults.gidNumber" \in DOMAIN q.parts =>
       /\ q.parts["defaults.gidNumber"] = Follow \/ IsLiteral(q.parts["defaults.gidNumber"])
       /\ q.sampled >= MinSample
  /\ "companion" \in DOMAIN q.parts =>
       /\ q.private = TRUE /\ "posixAccount" \in q.classes
       /\ "defaults.gidNumber" \in DOMAIN q.parts /\ q.parts["defaults.gidNumber"] = Follow
       /\ \E base : q.parts["companion"] = CompanionAt(base)

LEMMA SharedIsPosix ==
  ASSUME NEW E, \A e \in E : e.gidNumber \subseteq 0..MaxId, NEW p,
         DOMAIN p = ProfileFields, p.entries \subseteq E, p.parts = <<>>, p.sampled \in Nat,
         "posixAccount" \notin p.classes => p.without = {}
  PROVE  PosixProfile(SharedGid(p), p)
<1> DEFINE given == {e \in p.entries : e.gidNumber # {}}
           gid == MostCommon(given, LAMBDA e : CHOOSE n \in e.gidNumber : TRUE, LAMBDA m, n : m < n)
           holders == {e \in given : gid \in e.gidNumber}
           q == [p EXCEPT !.parts = Part("defaults.gidNumber", Literal(gid))]
<1>1. SharedGid(p) = IF given # {} /\ RuleApplies(Cardinality(holders), p.sampled) THEN q ELSE p
  BY DEF SharedGid
<1>2. CASE given # {} /\ RuleApplies(Cardinality(holders), p.sampled)
  <2>1. holders # {}
    <3> SUFFICES ASSUME holders = {} PROVE FALSE
      OBVIOUS
    <3>1. Cardinality(holders) = 0
      BY FS_EmptySet
    <3> HIDE DEF holders
    <3>2. p.sampled > 0 /\ 2 * 0 > p.sampled /\ p.sampled >= MinSample
      BY <1>2, <3>1 DEF RuleApplies, MoreThanHalf
    <3>3. QED
      BY <3>2, ProfileDetectionAssumption
  <2>2. gid \in 0..MaxId
    <3> HIDE DEF gid
    <3>1. PICK e \in holders : TRUE
      BY <2>1
    <3>2. e \in E /\ gid \in e.gidNumber
      BY <3>1
    <3>3. QED
      BY <3>2
  <2>3. p.sampled >= MinSample
    BY <1>2 DEF RuleApplies
  <2>4. SharedGid(p) = q
    BY <1>1, <1>2
  <2> HIDE DEF gid, given, holders
  <2>5. DOMAIN q.parts = {"defaults.gidNumber"} /\ q.parts["defaults.gidNumber"] = Literal(gid)
    <3>1. q.parts = Part("defaults.gidNumber", Literal(gid))
      BY DEF ProfileFields
    <3>2. QED
      BY <3>1, PartFacts
  <2>6. /\ DOMAIN q = ProfileFields
        /\ q.name = p.name /\ q.structural = p.structural /\ q.at = p.at
        /\ q.sampled = p.sampled /\ q.classes = p.classes /\ q.entries = p.entries
        /\ q.without = p.without
    BY DEF ProfileFields
  <2> HIDE DEF q
  <2>7. QED
    BY <2>2, <2>3, <2>4, <2>5, <2>6 DEF PosixProfile, IsLiteral
<1>3. CASE ~(given # {} /\ RuleApplies(Cardinality(holders), p.sampled))
  <2>1. SharedGid(p) = p
    BY <1>1, <1>3
  <2>2. DOMAIN p.parts = {}
    OBVIOUS
  <2>3. QED
    BY <2>1, <2>2 DEF PosixProfile
<1>4. QED
  BY <1>2, <1>3

\* What apply_private_group and apply_shared_gid add (patterns/posix.rs).
LEMMA PosixFacts ==
  ASSUME NEW E, IsFiniteSet(E), \A e \in E : e.gidNumber \subseteq 0..MaxId,
         NEW p, RawProfile(p, E), NEW known, NEW lookedUp
  PROVE  PosixProfile(PosixRules(p, known, lookedUp), p)
<1> DEFINE with == {u \in p.entries : HasPrivate(u, known)}
           GroupOf(u) == CHOOSE g \in known : IsPrivateGroup(g, u)
           base == MostCommon(with, LAMBDA u : Tail(GroupOf(u).dn),
                              LAMBDA d, e : Precedes(Words(d), Words(e)))
           q == IF lookedUp THEN [p EXCEPT !.without = {p.sampled - Cardinality(with)}] ELSE p
           r == [q EXCEPT !.private = TRUE,
                          !.parts = Over(Part("defaults.gidNumber", Follow),
                                         Part("companion", CompanionAt(base)))]
<1>1. PosixRules(p, known, lookedUp) =
        IF ~Has(p, "posixAccount") THEN p
        ELSE IF lookedUp /\ RuleApplies(Cardinality(with), p.sampled) THEN r ELSE SharedGid(q)
  BY DEF PosixRules
<1>2. /\ DOMAIN q = ProfileFields
      /\ q.name = p.name /\ q.structural = p.structural /\ q.at = p.at
      /\ q.sampled = p.sampled /\ q.classes = p.classes /\ q.entries = p.entries
      /\ q.parts = p.parts
  BY DEF RawProfile, ProfileFields
<1>3. ASSUME Has(p, "posixAccount") PROVE PosixProfile(SharedGid(q), p)
  <2> HIDE DEF q
  <2>0. p.sampled \in Nat
    BY FS_Subset, FS_CardinalityType DEF RawProfile
  <2>1. PosixProfile(SharedGid(q), q)
    BY <1>2, <1>3, <2>0, SharedIsPosix DEF RawProfile, Has
  <2>2. QED
    BY <1>2, <2>1 DEF PosixProfile
<1>4. CASE ~Has(p, "posixAccount")
  <2>1. DOMAIN p.parts = {}
    BY DEF RawProfile
  <2>2. QED
    BY <1>1, <1>4, <2>1 DEF PosixProfile, RawProfile
<1>5. CASE Has(p, "posixAccount") /\ lookedUp /\ RuleApplies(Cardinality(with), p.sampled)
  <2>1. PosixRules(p, known, lookedUp) = r
    BY <1>1, <1>5
  <2>2. p.sampled >= MinSample
    BY <1>5 DEF RuleApplies
  <2> DEFINE new == Over(Part("defaults.gidNumber", Follow), Part("companion", CompanionAt(base)))
  <2> HIDE DEF base, with, q
  <2>3. /\ DOMAIN r = ProfileFields
        /\ r.name = q.name /\ r.structural = q.structural /\ r.at = q.at
        /\ r.sampled = q.sampled /\ r.classes = q.classes /\ r.entries = q.entries
        /\ r.private = TRUE /\ r.parts = new
    <3> HIDE DEF new
    <3>1. r = [q EXCEPT !.private = TRUE, !.parts = new]
      BY DEF new
    <3> HIDE DEF r
    <3>2. QED
      BY <1>2, <3>1 DEF ProfileFields
  <2>4. /\ DOMAIN new = {"defaults.gidNumber", "companion"}
        /\ new["defaults.gidNumber"] = Follow /\ new["companion"] = CompanionAt(base)
    <3> DEFINE a == Part("defaults.gidNumber", Follow)
               b == Part("companion", CompanionAt(base))
    <3>1. DOMAIN a = {"defaults.gidNumber"} /\ a["defaults.gidNumber"] = Follow
      BY PartFacts
    <3>2. DOMAIN b = {"companion"} /\ b["companion"] = CompanionAt(base)
      BY PartFacts
    <3>3. new = Over(a, b)
      OBVIOUS
    <3> HIDE DEF new, a, b
    <3>4. /\ DOMAIN new = DOMAIN a \cup DOMAIN b
          /\ \A k \in DOMAIN a : new[k] = a[k]
          /\ \A k \in DOMAIN b : k \notin DOMAIN a => new[k] = b[k]
      BY <3>3, OverFacts
    <3>5. QED
      BY <3>1, <3>2, <3>4
  <2> HIDE DEF new, r
  <2>5. QED
    BY <1>2, <1>5, <2>1, <2>2, <2>3, <2>4 DEF PosixProfile, Has
<1>6. QED
  <2> HIDE DEF q, r, with
  <2>1. QED
    BY <1>1, <1>3, <1>4, <1>5

\* A profile as detected.
RangeFor(v, attr) ==
  /\ {"how", "attr", "unified"} \subseteq DOMAIN v
  /\ v.how = "range" /\ v.attr = attr

DetectedProfile(q, E) ==
  /\ DOMAIN q = ProfileFields
  /\ q.name \in Seq(Word) /\ q.structural \in Word /\ q.at \in Places
  /\ IsFiniteSet(q.classes) /\ q.sampled = Cardinality(q.entries)
  /\ q.entries \subseteq E /\ q.classes = Majority(q.entries)
  /\ DOMAIN q.parts \subseteq Numbers \cup Widgets \cup {"companion"}
  /\ "defaults.uidNumber" \in DOMAIN q.parts =>
       RangeFor(q.parts["defaults.uidNumber"], "uidNumber")
  /\ "defaults.gidNumber" \in DOMAIN q.parts =>
       \/ /\ q.parts["defaults.gidNumber"] = Follow \/ IsLiteral(q.parts["defaults.gidNumber"])
          /\ q.sampled >= MinSample
       \/ RangeFor(q.parts["defaults.gidNumber"], "gidNumber") /\ q.without = {}
  /\ "companion" \in DOMAIN q.parts =>
       /\ "defaults.uidNumber" \in DOMAIN q.parts
       /\ q.parts["defaults.uidNumber"].unified = TRUE
       /\ "defaults.gidNumber" \in DOMAIN q.parts /\ q.parts["defaults.gidNumber"] = Follow
       /\ q.sampled >= MinSample
       /\ \E base : q.parts["companion"] = CompanionAt(base)

LEMMA RangeOfFacts ==
  ASSUME NEW attr, NEW base, NEW structural, NEW unified
  PROVE  /\ RangeFor(RangeOf(attr, base, structural, unified), attr)
         /\ RangeOf(attr, base, structural, unified).unified = unified
BY DEF RangeOf, RangeFor

\* What pickers.rs and ranges.rs add to that.
LEMMA OtherFacts ==
  ASSUME NEW E, NEW p, RawProfile(p, E), NEW qs, NEW i \in DOMAIN qs, PosixProfile(qs[i], p)
  PROVE  DetectedProfile(OtherParts(qs)[i], E)
<1> DEFINE q == qs[i]
           pick == PickerParts(qs, q)
           rng == RangeParts(qs, q)
           new == Over(q.parts, Over(pick, rng))
           r == OtherParts(qs)[i]
<1>1. r = [q EXCEPT !.parts = new]
  BY DEF OtherParts
<1>2. DOMAIN pick \subseteq Widgets
  <2>1. \A key, fits, target : DOMAIN Widget(key, fits, target) \subseteq {key}
    <3> SUFFICES ASSUME NEW key, NEW fits, NEW target PROVE DOMAIN Widget(key, fits, target) \subseteq {key}
      OBVIOUS
    <3>1. DOMAIN <<>> = {}
      OBVIOUS
    <3>2. DOMAIN Part(key, CHOOSE t \in target : TRUE) = {key}
      BY PartFacts
    <3>3. QED
      BY <3>1, <3>2 DEF Widget
  <2>2. \A u, l : DOMAIN Over(u, l) = DOMAIN u \cup DOMAIN l
    BY OverFacts
  <2>3. \E u, v, w : pick = Over(Widget("widget.memberUid", Has(q, "posixGroup"), u),
                          Over(Widget("widget.gidNumber", Has(q, "posixAccount"), v),
                               Widget("widget.member", Has(q, "groupOfNames"), w)))
    BY DEF PickerParts
  <2> HIDE DEF pick
  <2>4. PICK a, b, c : /\ pick = Over(a, Over(b, c)) /\ DOMAIN a \subseteq {"widget.memberUid"}
                      /\ DOMAIN b \subseteq {"widget.gidNumber"} /\ DOMAIN c \subseteq {"widget.member"}
    <3>1. PICK u, v, w : pick = Over(Widget("widget.memberUid", Has(q, "posixGroup"), u),
                          Over(Widget("widget.gidNumber", Has(q, "posixAccount"), v),
                               Widget("widget.member", Has(q, "groupOfNames"), w)))
      BY <2>3
    <3>2. QED
      BY <2>1, <3>1
  <2>5. DOMAIN pick = DOMAIN a \cup DOMAIN b \cup DOMAIN c
    <3>1. DOMAIN Over(b, c) = DOMAIN b \cup DOMAIN c
      BY OverFacts
    <3> DEFINE low == Over(b, c)
    <3>2. DOMAIN Over(a, low) = DOMAIN a \cup DOMAIN low
      BY OverFacts
    <3> HIDE DEF low
    <3>3. pick = Over(a, low) /\ DOMAIN low = DOMAIN b \cup DOMAIN c
      BY <2>4, <3>1 DEF low
    <3>4. QED
      BY <3>2, <3>3
  <2>6. QED
    BY <2>4, <2>5 DEF Widgets
<1>3. /\ DOMAIN rng \subseteq Numbers
      /\ Has(q, "posixAccount") =>
           /\ DOMAIN rng = {"defaults.uidNumber"}
           /\ rng["defaults.uidNumber"] = RangeOf("uidNumber", q.at, q.structural, q.private)
      /\ ~Has(q, "posixAccount") =>
           /\ "defaults.uidNumber" \notin DOMAIN rng
           /\ "defaults.gidNumber" \in DOMAIN rng =>
                \E u : rng["defaults.gidNumber"] = RangeOf("gidNumber", q.at, q.structural, u)
  <2>1. CASE Has(q, "posixAccount")
    <3> DEFINE v == RangeOf("uidNumber", q.at, q.structural, q.private)
    <3>1. rng = Part("defaults.uidNumber", v)
      BY <2>1 DEF RangeParts
    <3> HIDE DEF v, rng
    <3>2. DOMAIN rng = {"defaults.uidNumber"} /\ rng["defaults.uidNumber"] = v
      BY <3>1, PartFacts
    <3>3. QED
      BY <2>1, <3>2 DEF Numbers, v
  <2>2. CASE ~Has(q, "posixAccount") /\ Has(q, "posixGroup")
    <3> DEFINE u == \E j \in DOMAIN qs : qs[j].private
               v == RangeOf("gidNumber", q.at, q.structural, u)
    <3>1. rng = Part("defaults.gidNumber", v)
      BY <2>2 DEF RangeParts
    <3>2. \E w : v = RangeOf("gidNumber", q.at, q.structural, w)
      OBVIOUS
    <3> HIDE DEF v, rng
    <3>3. DOMAIN rng = {"defaults.gidNumber"} /\ rng["defaults.gidNumber"] = v
      BY <3>1, PartFacts
    <3>4. QED
      BY <2>2, <3>2, <3>3 DEF Numbers
  <2>3. CASE ~Has(q, "posixAccount") /\ ~Has(q, "posixGroup")
    <3>1. rng = <<>>
      BY <2>3 DEF RangeParts
    <3>2. DOMAIN rng = {}
      BY <3>1
    <3>3. QED
      BY <2>3, <3>2
  <2>4. QED
    BY <2>1, <2>2, <2>3
<1> HIDE DEF pick, rng
<1>4. /\ DOMAIN new = DOMAIN q.parts \cup DOMAIN pick \cup DOMAIN rng
      /\ \A k \in DOMAIN q.parts : new[k] = q.parts[k]
      /\ \A k \in DOMAIN rng : k \notin DOMAIN q.parts \cup Widgets => new[k] = rng[k]
  <2> DEFINE low == Over(pick, rng)
  <2>1. /\ DOMAIN low = DOMAIN pick \cup DOMAIN rng
        /\ \A k \in DOMAIN rng : k \notin DOMAIN pick => low[k] = rng[k]
    BY OverFacts
  <2> HIDE DEF low
  <2>2. /\ DOMAIN Over(q.parts, low) = DOMAIN q.parts \cup DOMAIN low
        /\ \A k \in DOMAIN q.parts : Over(q.parts, low)[k] = q.parts[k]
        /\ \A k \in DOMAIN low : k \notin DOMAIN q.parts => Over(q.parts, low)[k] = low[k]
    BY OverFacts
  <2>3. new = Over(q.parts, low)
    BY DEF low
  <2> HIDE DEF new
  <2>4. QED
    BY <1>2, <2>1, <2>2, <2>3
<1> HIDE DEF new
<1>5. /\ DOMAIN r = ProfileFields /\ r.parts = new
      /\ r.name = p.name /\ r.structural = p.structural /\ r.at = p.at
      /\ r.sampled = p.sampled /\ r.classes = p.classes /\ r.entries = p.entries
      /\ r.without = q.without
  <2> HIDE DEF r
  <2>1. QED
    BY <1>1 DEF PosixProfile, ProfileFields
<1>6. \A key \in Numbers : key \notin Widgets
  BY DEF Numbers, Widgets
<1>7. "defaults.uidNumber" \in DOMAIN new => RangeFor(new["defaults.uidNumber"], "uidNumber")
  <2> SUFFICES ASSUME "defaults.uidNumber" \in DOMAIN new
               PROVE  RangeFor(new["defaults.uidNumber"], "uidNumber")
    OBVIOUS
  <2>1. "defaults.uidNumber" \in DOMAIN rng /\ "defaults.uidNumber" \notin DOMAIN q.parts
    BY <1>2, <1>4 DEF PosixProfile, Widgets
  <2>2. new["defaults.uidNumber"] = RangeOf("uidNumber", q.at, q.structural, q.private)
    BY <1>3, <1>4, <2>1 DEF Widgets
  <2>3. QED
    BY <2>2, RangeOfFacts
<1>8. "defaults.gidNumber" \in DOMAIN new =>
        \/ /\ new["defaults.gidNumber"] = Follow \/ IsLiteral(new["defaults.gidNumber"])
           /\ q.sampled >= MinSample
        \/ RangeFor(new["defaults.gidNumber"], "gidNumber") /\ q.without = {}
  <2> SUFFICES ASSUME "defaults.gidNumber" \in DOMAIN new, "defaults.gidNumber" \notin DOMAIN q.parts
               PROVE  RangeFor(new["defaults.gidNumber"], "gidNumber") /\ q.without = {}
    BY <1>4 DEF PosixProfile
  <2>1. "defaults.gidNumber" \in DOMAIN rng
    BY <1>2, <1>4 DEF Widgets
  <2>2. ~Has(q, "posixAccount")
    BY <1>3, <2>1
  <2>3. PICK u : rng["defaults.gidNumber"] = RangeOf("gidNumber", q.at, q.structural, u)
    BY <1>3, <2>1, <2>2
  <2>4. new["defaults.gidNumber"] = RangeOf("gidNumber", q.at, q.structural, u)
    BY <1>4, <2>1, <2>3 DEF Widgets
  <2>5. q.without = {}
    BY <2>2 DEF PosixProfile, Has
  <2>6. QED
    BY <2>4, <2>5, RangeOfFacts
<1>9. "companion" \in DOMAIN new =>
        /\ "defaults.uidNumber" \in DOMAIN new
        /\ new["defaults.uidNumber"].unified = TRUE
        /\ "defaults.gidNumber" \in DOMAIN new /\ new["defaults.gidNumber"] = Follow
        /\ q.sampled >= MinSample
        /\ \E base : new["companion"] = CompanionAt(base)
  <2> SUFFICES ASSUME "companion" \in DOMAIN new
               PROVE  /\ "defaults.uidNumber" \in DOMAIN new
                      /\ new["defaults.uidNumber"].unified = TRUE
                      /\ "defaults.gidNumber" \in DOMAIN new /\ new["defaults.gidNumber"] = Follow
                      /\ q.sampled >= MinSample
                      /\ \E base : new["companion"] = CompanionAt(base)
    OBVIOUS
  <2>1. "companion" \in DOMAIN q.parts
    BY <1>2, <1>3, <1>4 DEF Widgets, Numbers
  <2>2. /\ q.private = TRUE /\ Has(q, "posixAccount") /\ q.sampled >= MinSample
        /\ "defaults.gidNumber" \in DOMAIN q.parts /\ q.parts["defaults.gidNumber"] = Follow
        /\ \E base : q.parts["companion"] = CompanionAt(base)
        /\ "defaults.uidNumber" \notin DOMAIN q.parts
    BY <2>1 DEF PosixProfile, Has
  <2>3. /\ "defaults.uidNumber" \in DOMAIN rng
        /\ rng["defaults.uidNumber"] = RangeOf("uidNumber", q.at, q.structural, TRUE)
    BY <1>3, <2>2
  <2>4. new["defaults.uidNumber"] = RangeOf("uidNumber", q.at, q.structural, TRUE)
    BY <1>4, <2>2, <2>3 DEF Widgets
  <2>5. new["defaults.uidNumber"].unified = TRUE
    BY <2>4 DEF RangeOf
  <2>6. QED
    BY <1>4, <2>1, <2>2, <2>3, <2>5
<1>10. DOMAIN new \subseteq Numbers \cup Widgets \cup {"companion"}
  BY <1>2, <1>3, <1>4 DEF PosixProfile, Numbers
<1>11. /\ q.sampled = r.sampled /\ r.classes = Majority(r.entries) /\ r.entries \subseteq E
       /\ r.name \in Seq(Word) /\ r.structural \in Word /\ r.at \in Places
       /\ IsFiniteSet(r.classes) /\ r.sampled = Cardinality(r.entries)
  BY <1>5 DEF PosixProfile, RawProfile
<1> HIDE DEF r, q
<1>12. DetectedProfile(r, E)
  BY <1>5, <1>7, <1>8, <1>9, <1>10, <1>11 DEF DetectedProfile
<1>13. QED
  BY <1>5, <1>12 DEF r
-----------------------------------------------------------------------------
(***************************************************************************)
(* Sorting: a strict total order of a finite set lists each element once.  *)
(***************************************************************************)
StrictOrder(R, S) ==
  /\ R \in SUBSET (S \X S)
  /\ \A x \in S : <<x, x>> \notin R
  /\ \A x, y, z \in S : <<x, y>> \in R /\ <<y, z>> \in R => <<x, z>> \in R
  /\ \A x, y \in S : x # y => <<x, y>> \in R \/ <<y, x>> \in R

PlaceIn(R, S, x) == Cardinality({y \in S : <<y, x>> \in R}) + 1
SortedBy(R, S)   == [n \in 1..Cardinality(S) |-> CHOOSE x \in S : PlaceIn(R, S, x) = n]

LEMMA IsAList ==
  ASSUME NEW S, NEW n \in Nat, NEW s \in [1..n -> S]
  PROVE  s \in Seq(S) /\ Len(s) = n
OBVIOUS

\* A set sorted by a strict total order: each element, once.
LEMMA SortedFacts ==
  ASSUME NEW S, IsFiniteSet(S), NEW R, StrictOrder(R, S)
  PROVE  /\ SortedBy(R, S) \in Seq(S) /\ IsInjective(SortedBy(R, S))
         /\ ToSet(SortedBy(R, S)) = S
<1> DEFINE place == [x \in S |-> Cardinality({y \in S : <<y, x>> \in R}) + 1]
           s == [n \in 1..Cardinality(S) |-> CHOOSE x \in S : place[x] = n]
<1>0. s = SortedBy(R, S)
  <2>1. \A x \in S : place[x] = PlaceIn(R, S, x)
    BY DEF PlaceIn
  <2> HIDE DEF place
  <2>2. QED
    BY <2>1 DEF SortedBy
<1> DEFINE N == Cardinality(S)
           T == 1..N
<1>1. N \in Nat /\ IsFiniteSet(T) /\ Cardinality(T) = N
  <2>1. N \in Nat
    BY FS_CardinalityType
  <2>2. N \in Int /\ 1 \in Int
    BY <2>1
  <2> HIDE DEF N
  <2>3. IsFiniteSet(T) /\ Cardinality(T) = IF 1 > N THEN 0 ELSE N - 1 + 1
    BY <2>2, FS_Interval
  <2>4. QED
    BY <2>1, <2>3
<1>2. place \in [S -> T]
  <2>1. \A x \in S : Cardinality({y \in S : <<y, x>> \in R}) + 1 \in 1..Cardinality(S)
    BY PlaceIsBounded DEF StrictOrder
  <2>2. QED
    BY <2>1
<1>3. \A x, y \in S : <<x, y>> \in R => place[x] < place[y]
  <2> SUFFICES ASSUME NEW x \in S, NEW y \in S, <<x, y>> \in R PROVE place[x] < place[y]
    OBVIOUS
  <2> DEFINE U == Cardinality({z \in S : <<z, x>> \in R})
             V == Cardinality({z \in S : <<z, y>> \in R})
  <2>1. U < V
    BY PlacesDiffer DEF StrictOrder
  <2>2. place[x] = U + 1 /\ place[y] = V + 1
    OBVIOUS
  <2>3. place[x] \in T /\ place[y] \in T
    BY <1>2
  <2>4. U \in Nat /\ V \in Nat
    <3>1. /\ {z \in S : <<z, x>> \in R} \in SUBSET S
          /\ {z \in S : <<z, y>> \in R} \in SUBSET S
      OBVIOUS
    <3>2. QED
      BY <3>1, FS_Subset, FS_CardinalityType
  <2> HIDE DEF U, V
  <2>5. QED
    BY <2>1, <2>2, <2>4
<1>4. \A x, y \in S : place[x] = place[y] => x = y
  <2> SUFFICES ASSUME NEW x \in S, NEW y \in S, place[x] = place[y], x # y PROVE FALSE
    OBVIOUS
  <2>1. <<x, y>> \in R \/ <<y, x>> \in R
    BY DEF StrictOrder
  <2>2. place[x] < place[y] \/ place[y] < place[x]
    BY <1>3, <2>1
  <2>3. place[x] \in Nat /\ place[y] \in Nat
    BY <1>2
  <2>4. QED
    BY <2>2, <2>3
<1>5. place \in Surjection(S, T)
  <2> HIDE DEF N, T
  <2>1. place \in Injection(S, T)
    BY <1>2, <1>4 DEF Injection, IsInjective
  <2>2. Cardinality(S) = Cardinality(T) <=> place \in Surjection(S, T)
    BY <1>1, <2>1, FS_Injection
  <2>3. QED
    BY <1>1, <2>2 DEF N
<1>6. ASSUME NEW n \in T PROVE s[n] \in S /\ place[s[n]] = n
  <2>1. \E x \in S : place[x] = n
    BY <1>5 DEF Surjection
  <2>2. s[n] = CHOOSE x \in S : place[x] = n
    OBVIOUS
  <2>3. QED
    BY <2>1, <2>2
<1>7. s \in [T -> S]
  <2>1. s = [n \in T |-> CHOOSE x \in S : place[x] = n]
    OBVIOUS
  <2>2. \A n \in T : s[n] \in S
    BY <1>6
  <2> HIDE DEF T
  <2>3. s = [n \in T |-> s[n]]
    BY <2>1
  <2>4. QED
    BY <2>2, <2>3
<1>8. s \in Seq(S)
  <2> HIDE DEF N
  <2>1. N \in Nat /\ s \in [1..N -> S]
    BY <1>1, <1>7
  <2>2. QED
    BY <2>1, IsAList
<1>9. \A m, n \in T : s[m] = s[n] => m = n
  BY <1>6
<1>10. \A x \in S : \E n \in T : s[n] = x
  <2> SUFFICES ASSUME NEW x \in S PROVE \E n \in T : s[n] = x
    OBVIOUS
  <2>1. place[x] \in T
    BY <1>2
  <2>2. s[place[x]] \in S /\ place[s[place[x]]] = place[x]
    BY <1>6, <2>1
  <2>3. s[place[x]] = x
    BY <1>4, <2>2
  <2>4. QED
    BY <2>1, <2>3
<1>11. DOMAIN s = T
  OBVIOUS
<1>12. QED
  <2> HIDE DEF T
  <2>1. IsInjective(s)
    BY <1>9, <1>11 DEF IsInjective
  <2>2. ToSet(s) = S
    <3>1. \A n \in T : s[n] \in S
      BY <1>6
    <3>2. ToSet(s) = {s[n] : n \in T}
      BY <1>11 DEF ToSet
    <3> HIDE DEF T
    <3>3. ToSet(s) \subseteq S
      <4> SUFFICES ASSUME NEW x \in ToSet(s) PROVE x \in S
        OBVIOUS
      <4>1. PICK n \in T : x = s[n]
        BY <3>2
      <4>2. QED
        BY <3>1, <4>1
    <3>4. ASSUME NEW x \in S PROVE x \in ToSet(s)
      <4>1. PICK n \in T : s[n] = x
        BY <1>10
      <4>2. QED
        BY <3>2, <4>1
    <3>5. QED
      BY <3>3, <3>4
  <2> HIDE DEF s
  <2>3. QED
    BY <1>0, <1>8, <2>1, <2>2
-----------------------------------------------------------------------------
(***************************************************************************)
(* The order of names.                                                     *)
(***************************************************************************)
LEMMA RankFacts ==
  \A v, w \in Word : Rank(v) \in Nat /\ (Rank(v) = Rank(w) => v = w)
<1>1. \A w \in Word : Rank(w) \in DOMAIN Alphabet /\ Alphabet[Rank(w)] = w
  BY DEF Rank, Word, ToSet
<1>2. DOMAIN Alphabet \subseteq Nat
  BY ProfileDetectionAssumption
<1>3. QED
  BY <1>1, <1>2

\* The names agree up to k, and there the first ends or has the lower word.
Differ(m, n, k) ==
  /\ k <= Len(m) /\ k < Len(n)
  /\ \A j \in 1..k : m[j] = n[j]
  /\ k < Len(m) => Rank(m[k + 1]) < Rank(n[k + 1])

LEMMA PrecedesIs ==
  ASSUME NEW m \in Seq(Word), NEW n \in Seq(Word)
  PROVE  Precedes(m, n) <=> \E k \in Nat : Differ(m, n, k)
<1>1. ASSUME NEW k \in Nat, k <= Len(m), k <= Len(n)
      PROVE  SubSeq(m, 1, k) = SubSeq(n, 1, k) <=> \A j \in 1..k : m[j] = n[j]
  <2>1. /\ SubSeq(m, 1, k) = [j \in 1..k |-> m[j]]
        /\ SubSeq(n, 1, k) = [j \in 1..k |-> n[j]]
    BY <1>1
  <2>2. QED
    BY <2>1
<1>2. Len(m) \in Nat /\ Len(n) \in Nat
  OBVIOUS
<1>3. ASSUME Precedes(m, n) PROVE \E k \in Nat : Differ(m, n, k)
  <2>1. PICK k \in 0..Len(m) :
               /\ k <= Len(n) /\ SubSeq(m, 1, k) = SubSeq(n, 1, k)
               /\ k < Len(n) /\ (k < Len(m) => Rank(m[k + 1]) < Rank(n[k + 1]))
    BY <1>3 DEF Precedes
  <2>2. k \in Nat /\ k <= Len(m)
    BY <1>2
  <2>3. Differ(m, n, k)
    BY <1>1, <2>1, <2>2 DEF Differ
  <2>4. QED
    BY <2>2, <2>3
<1>4. ASSUME NEW k \in Nat, Differ(m, n, k) PROVE Precedes(m, n)
  <2>1. k \in 0..Len(m) /\ k <= Len(n)
    BY <1>2, <1>4 DEF Differ
  <2>2. SubSeq(m, 1, k) = SubSeq(n, 1, k)
    BY <1>1, <1>4, <2>1 DEF Differ
  <2>3. QED
    BY <1>4, <2>1, <2>2 DEF Precedes, Differ
<1>5. QED
  BY <1>3, <1>4

\* Names are strictly and totally ordered.
LEMMA PrecedesOrders ==
  ASSUME NEW a \in Seq(Word), NEW b \in Seq(Word), NEW c \in Seq(Word)
  PROVE  /\ ~Precedes(a, a)
         /\ Precedes(a, b) /\ Precedes(b, c) => Precedes(a, c)
         /\ a # b => Precedes(a, b) \/ Precedes(b, a)
<1>1. /\ Len(a) \in Nat /\ Len(b) \in Nat /\ Len(c) \in Nat
      /\ \A k \in Nat : k < Len(a) => a[k + 1] \in Word
      /\ \A k \in Nat : k < Len(b) => b[k + 1] \in Word
      /\ \A k \in Nat : k < Len(c) => c[k + 1] \in Word
  OBVIOUS
<1>2. ~Precedes(a, a)
  <2> SUFFICES ASSUME NEW k \in Nat, Differ(a, a, k) PROVE FALSE
    BY PrecedesIs
  <2>1. k < Len(a) /\ Rank(a[k + 1]) < Rank(a[k + 1])
    BY DEF Differ
  <2>2. Rank(a[k + 1]) \in Nat
    BY <1>1, <2>1, RankFacts
  <2>3. QED
    BY <2>1, <2>2
<1>3. ASSUME Precedes(a, b), Precedes(b, c) PROVE Precedes(a, c)
  <2>1. PICK k \in Nat : Differ(a, b, k)
    BY <1>3, PrecedesIs
  <2>2. PICK l \in Nat : Differ(b, c, l)
    BY <1>3, PrecedesIs
  <2>3. CASE k < l
    <3>1. Differ(a, c, k)
      <4>1. k <= Len(a) /\ k < Len(c)
        BY <1>1, <2>1, <2>2, <2>3 DEF Differ
      <4>2. \A j \in 1..k : a[j] = b[j] /\ b[j] = c[j]
        BY <2>1, <2>2, <2>3 DEF Differ
      <4>3. b[k + 1] = c[k + 1]
        BY <2>2, <2>3 DEF Differ
      <4>4. QED
        BY <2>1, <4>1, <4>2, <4>3 DEF Differ
    <3>2. QED
      BY <3>1, PrecedesIs
  <2>4. CASE k = l
    <3>1. Differ(a, c, k)
      <4>1. k <= Len(a) /\ k < Len(b) /\ k < Len(c)
        BY <2>1, <2>2, <2>4 DEF Differ
      <4>2. \A j \in 1..k : a[j] = b[j] /\ b[j] = c[j]
        BY <2>1, <2>2, <2>4 DEF Differ
      <4>3. Rank(b[k + 1]) < Rank(c[k + 1])
        BY <2>2, <2>4, <4>1 DEF Differ
      <4>4. k < Len(a) => Rank(a[k + 1]) < Rank(c[k + 1])
        <5> SUFFICES ASSUME k < Len(a) PROVE Rank(a[k + 1]) < Rank(c[k + 1])
          OBVIOUS
        <5>1. Rank(a[k + 1]) < Rank(b[k + 1])
          BY <2>1 DEF Differ
        <5>2. Rank(a[k + 1]) \in Nat /\ Rank(b[k + 1]) \in Nat /\ Rank(c[k + 1]) \in Nat
          BY <1>1, <4>1, RankFacts
        <5>3. QED
          BY <4>3, <5>1, <5>2
      <4>5. QED
        BY <4>1, <4>2, <4>4 DEF Differ
    <3>2. QED
      BY <3>1, PrecedesIs
  <2>5. CASE l < k
    <3>1. Differ(a, c, l)
      <4>1. l < Len(a) /\ l < Len(b) /\ l < Len(c)
        BY <1>1, <2>1, <2>2, <2>5 DEF Differ
      <4>2. \A j \in 1..l : a[j] = b[j] /\ b[j] = c[j]
        BY <2>1, <2>2, <2>5 DEF Differ
      <4>3. a[l + 1] = b[l + 1]
        BY <2>1, <2>5 DEF Differ
      <4>4. Rank(b[l + 1]) < Rank(c[l + 1])
        BY <2>2, <4>1 DEF Differ
      <4>5. QED
        BY <1>1, <4>1, <4>2, <4>3, <4>4 DEF Differ
    <3>2. QED
      BY <3>1, PrecedesIs
  <2>6. QED
    BY <2>3, <2>4, <2>5
<1>4. ASSUME a # b PROVE Precedes(a, b) \/ Precedes(b, a)
  <2> DEFINE D == {k \in Nat : k < Len(a) /\ k < Len(b) /\ a[k + 1] # b[k + 1]}
  <2>1. CASE D = {}
    <3>1. \A j \in 1..Len(a) : j <= Len(b) => a[j] = b[j]
      <4> SUFFICES ASSUME NEW j \in 1..Len(a), j <= Len(b), a[j] # b[j] PROVE FALSE
        OBVIOUS
      <4>1. j - 1 \in D
        BY <1>1
      <4>2. QED
        BY <2>1, <4>1
    <3>2. Len(a) # Len(b)
      <4> SUFFICES ASSUME Len(a) = Len(b) PROVE a = b
        BY <1>4
      <4>1. QED
        BY <3>1
    <3>3. CASE Len(a) < Len(b)
      <4>1. Len(a) \in Nat /\ Len(b) \in Nat
        BY <1>1
      <4>2. \A j \in 1..Len(a) : a[j] = b[j]
        BY <3>1, <3>3, <4>1
      <4>3. Differ(a, b, Len(a))
        BY <3>3, <4>1, <4>2 DEF Differ
      <4>4. QED
        BY <4>1, <4>3, PrecedesIs
    <3>4. CASE Len(b) < Len(a)
      <4>1. Differ(b, a, Len(b))
        <5>1. \A j \in 1..Len(b) : b[j] = a[j]
          BY <1>1, <3>1, <3>4
        <5>2. QED
          BY <1>1, <3>4, <5>1 DEF Differ
      <4>2. QED
        BY <1>1, <4>1, PrecedesIs
    <3>5. QED
      BY <1>1, <3>2, <3>3, <3>4
  <2>2. CASE D # {}
    <3>1. PICK k \in D : \A j \in D : k <= j
      <4>1. D \subseteq Nat
        OBVIOUS
      <4> HIDE DEF D
      <4>2. QED
        BY <2>2, <4>1, LeastNumber
    <3>2. \A j \in 1..k : a[j] = b[j]
      <4> SUFFICES ASSUME NEW j \in 1..k, a[j] # b[j] PROVE FALSE
        OBVIOUS
      <4>1. j - 1 \in D /\ ~(k <= j - 1)
        BY <1>1, <3>1
      <4>2. QED
        BY <3>1, <4>1
    <3>3. /\ k \in Nat /\ k < Len(a) /\ k < Len(b)
          /\ Rank(a[k + 1]) \in Nat /\ Rank(b[k + 1]) \in Nat /\ Rank(a[k + 1]) # Rank(b[k + 1])
      BY <1>1, <3>1, RankFacts
    <3>4. Differ(a, b, k) \/ Differ(b, a, k)
      BY <1>1, <3>2, <3>3 DEF Differ
    <3>5. QED
      BY <3>3, <3>4, PrecedesIs
  <2>3. QED
    BY <2>1, <2>2
<1>5. QED
  BY <1>2, <1>3, <1>4
-----------------------------------------------------------------------------
(***************************************************************************)
(* The names of detected profiles are names (names.rs).                    *)
(***************************************************************************)
LEMMA WordsAreNames ==
  ASSUME NEW dn \in Seq(DOMAIN Slug)
  PROVE  Words(dn) \in Seq(Word)
<1> DEFINE ss == [i \in DOMAIN dn |-> Slug[dn[i]]]
<1>1. ss \in [1..Len(dn) -> Seq(Word)] /\ Len(dn) \in Nat
  BY ProfileDetectionAssumption DEF Word
<1>2. ss \in Seq(Seq(Word))
  <2> HIDE DEF ss
  <2>1. QED
    BY <1>1, IsAList
<1>3. FlattenSeq(ss) \in Seq(Word)
  <2> HIDE DEF ss
  <2>1. QED
    BY <1>2, FlatFacts
<1>4. QED
  BY <1>3 DEF Words

LEMMA PartOfAPlace ==
  ASSUME NEW dn \in Places, NEW n \in 1..Len(dn)
  PROVE  SubSeq(dn, 1, n) \in Seq(DOMAIN Slug)
BY DEF Places

LEMMA NamedAt ==
  ASSUME NEW p, p.at \in Places, p.kind \in Word, NEW n \in 1..Len(p.at)
  PROVE  NameAt(p, n) \in Seq(Word)
<1>1. Words(SubSeq(p.at, 1, n)) \in Seq(Word)
  BY PartOfAPlace, WordsAreNames
<1>2. <<p.kind>> \in Seq(Word)
  OBVIOUS
<1>3. QED
  BY <1>1, <1>2 DEF NameAt

\* Growing names never grow beyond the places they are of.
LEMMA DepthsAreDepths ==
  ASSUME NEW P, NEW ps \in Seq(P), \A i \in DOMAIN ps : ps[i].at \in Places
  PROVE  \A i \in DOMAIN ps : Depths(ps)[i] \in 1..Len(ps[i].at)
<1> DEFINE X == {d \in [DOMAIN ps -> Nat] : \A i \in DOMAIN ps : d[i] \in 1..Len(ps[i].at)}
           rounds == Len(FlattenSeq([i \in DOMAIN ps |-> ps[i].at]))
           start == [i \in DOMAIN ps |-> 1]
<1>1. rounds \in Nat
  <2> DEFINE ss == [i \in DOMAIN ps |-> ps[i].at]
  <2>1. ss \in [1..Len(ps) -> Seq(DOMAIN Slug)] /\ Len(ps) \in Nat
    BY DEF Places
  <2> HIDE DEF ss
  <2>2. ss \in Seq(Seq(DOMAIN Slug))
    BY <2>1, IsAList
  <2>3. FlattenSeq(ss) \in Seq(DOMAIN Slug)
    BY <2>2, FlatFacts
  <2>4. Len(FlattenSeq(ss)) \in Nat
    BY <2>3
  <2>5. QED
    BY <2>4 DEF ss
<1>2. start \in X
  BY DEF Places
<1>3. \A d \in X : Grown(ps, d) \in X
  <2> SUFFICES ASSUME NEW d \in X PROVE Grown(ps, d) \in X
    OBVIOUS
  <2>1. ASSUME NEW i \in DOMAIN ps
        PROVE (IF Clashes(NamesAt(ps, d), i) /\ d[i] < Len(ps[i].at) THEN d[i] + 1 ELSE d[i])
                \in 1..Len(ps[i].at)
    <3>1. Len(ps[i].at) \in Nat /\ d[i] \in 1..Len(ps[i].at)
      BY DEF Places
    <3>2. QED
      BY <3>1
  <2>2. QED
    BY <2>1 DEF Grown
<1> DEFINE step == [a \in (1..rounds) \X X |-> Grown(ps, a[2])]
<1>4. step \in [(1..rounds) \X X -> X]
  <2> HIDE DEF X, rounds
  <2>1. QED
    BY <1>3
<1>5. PICK g \in Courses(rounds, X, start, step) : TRUE
  <2> HIDE DEF X, rounds, step, start
  <2>1. QED
    BY <1>1, <1>2, <1>4, Iterated
<1>6. g \in [0..rounds -> X] /\ g[0] = start
  <2> HIDE DEF X, rounds, step, start
  <2>1. QED
    BY <1>5 DEF Courses
<1>7. \A r \in 1..rounds : g[r] = step[<<r, g[r - 1]>>]
  <2> HIDE DEF X, rounds, step, start
  <2>1. QED
    BY <1>5 DEF Courses
<1>8. \A r \in 1..rounds : g[r] = Grown(ps, g[r - 1])
  <2> SUFFICES ASSUME NEW r \in 1..rounds PROVE g[r] = Grown(ps, g[r - 1])
    OBVIOUS
  <2> HIDE DEF X, rounds, start
  <2>1. r - 1 \in 0..rounds
    BY <1>1
  <2>2. <<r, g[r - 1]>> \in (1..rounds) \X X
    BY <1>6, <2>1
  <2>3. step[<<r, g[r - 1]>>] = Grown(ps, g[r - 1])
    BY <2>2
  <2>4. QED
    BY <1>7, <2>3
<1> DEFINE After(f) == f = [r \in 0..rounds |->
             IF r = 0 THEN [i \in DOMAIN ps |-> 1]
             ELSE IF Grown(ps, f[r - 1]) = f[r - 1] THEN f[r - 1] ELSE Grown(ps, f[r - 1])]
           F == CHOOSE f : After(f)
<1>9. After(g)
  <2>1. \A r \in 0..rounds : g[r] = IF r = 0 THEN [i \in DOMAIN ps |-> 1]
             ELSE IF Grown(ps, g[r - 1]) = g[r - 1] THEN g[r - 1] ELSE Grown(ps, g[r - 1])
    <3> SUFFICES ASSUME NEW r \in 0..rounds
                 PROVE g[r] = IF r = 0 THEN [i \in DOMAIN ps |-> 1]
                   ELSE IF Grown(ps, g[r - 1]) = g[r - 1] THEN g[r - 1] ELSE Grown(ps, g[r - 1])
      OBVIOUS
    <3>1. CASE r = 0
      BY <1>6, <3>1
    <3>2. CASE r # 0
      <4>1. r \in 1..rounds
        BY <1>1, <3>2
      <4>2. QED
        BY <1>8, <3>2, <4>1
    <3>3. QED
      BY <3>1, <3>2
  <2> HIDE DEF X, rounds
  <2>2. QED
    BY <1>6, <2>1
<1>10. After(F)
  <2> HIDE DEF After
  <2>1. QED
    BY <1>9
<1>11. Depths(ps) = F[rounds]
  BY DEF Depths
<1> HIDE DEF F
<1> DEFINE T == {r \in 0..rounds : F[r] \in X}
<1>12. \A r \in 0..rounds : r \in T
  <2>1. 0 \in T
    BY <1>1, <1>2, <1>10
  <2>2. ASSUME NEW r \in 1..rounds, r - 1 \in T PROVE r \in T
    <3>1. r \in 0..rounds /\ r # 0
      BY <1>1
    <3>2. F[r] = IF Grown(ps, F[r - 1]) = F[r - 1] THEN F[r - 1] ELSE Grown(ps, F[r - 1])
      BY <1>10, <3>1
    <3>3. F[r - 1] \in X
      BY <2>2
    <3> HIDE DEF X, After, rounds
    <3>4. F[r] \in X
      BY <1>3, <3>2, <3>3
    <3>5. QED
      BY <3>1, <3>4
  <2> HIDE DEF T, rounds
  <2>3. QED
    BY <1>1, <2>1, <2>2, UpTo
<1>13. F[rounds] \in X
  <2> HIDE DEF X, rounds
  <2>1. QED
    BY <1>1, <1>12
<1>14. QED
  BY <1>11, <1>13

LEMMA NamesAreNames ==
  ASSUME NEW P, NEW ps \in Seq(P),
         \A i \in DOMAIN ps : ps[i].at \in Places /\ ps[i].kind \in Word /\ ps[i].structural \in Word
  PROVE  \A i \in DOMAIN ps : NamesGiven(ps)[i] \in Seq(Word)
<1> DEFINE names == NamesAt(ps, Depths(ps))
<1>1. ASSUME NEW i \in DOMAIN ps PROVE names[i] \in Seq(Word)
  <2>1. Depths(ps)[i] \in 1..Len(ps[i].at)
    BY DepthsAreDepths
  <2>2. names[i] = NameAt(ps[i], Depths(ps)[i])
    BY DEF NamesAt
  <2>3. QED
    BY <2>1, <2>2, NamedAt
<1>2. ASSUME NEW i \in DOMAIN ps PROVE NamesGiven(ps)[i] \in Seq(Word)
  <2>1. NamesGiven(ps)[i] = IF Clashes(names, i) THEN names[i] \o <<ps[i].structural>> ELSE names[i]
    BY DEF NamesGiven
  <2>2. names[i] \in Seq(Word) /\ <<ps[i].structural>> \in Seq(Word)
    BY <1>1
  <2> HIDE DEF names
  <2>3. QED
    BY <2>1, <2>2
<1>3. QED
  BY <1>2

LEMMA ByRank ==
  ASSUME NEW S, S \subseteq StructuralClasses
  PROVE  LET order == Sorted(S, LAMBDA a, b : Rank(a) < Rank(b))
         IN  order \in Seq(S) /\ IsInjective(order) /\ ToSet(order) = S
<1> DEFINE order == Sorted(S, LAMBDA a, b : Rank(a) < Rank(b))
           R == {p \in S \X S : Rank(p[1]) < Rank(p[2])}
<1>1. IsFiniteSet(S) /\ S \subseteq Word
  BY FiniteAlphabet, FS_Subset, ProfileDetectionAssumption DEF Word
<1>2. StrictOrder(R, S)
  <2>1. \A v, w \in S : Rank(v) \in Nat /\ (Rank(v) = Rank(w) => v = w)
    BY <1>1, RankFacts
  <2>2. \A v, w \in S : <<v, w>> \in R <=> Rank(v) < Rank(w)
    OBVIOUS
  <2>3. R \in SUBSET (S \X S)
    OBVIOUS
  <2> HIDE DEF R
  <2>4. \A x \in S : <<x, x>> \notin R
    BY <2>1, <2>2
  <2>5. \A x, y, z \in S : <<x, y>> \in R /\ <<y, z>> \in R => <<x, z>> \in R
    BY <2>1, <2>2
  <2>6. \A x, y \in S : x # y => <<x, y>> \in R \/ <<y, x>> \in R
    BY <2>1, <2>2
  <2>7. QED
    BY <2>3, <2>4, <2>5, <2>6 DEF StrictOrder
<1>3. order = SortedBy(R, S)
  <2>1. ASSUME NEW x \in S PROVE PlaceIn(R, S, x) = Cardinality({y \in S : Rank(y) < Rank(x)}) + 1
    <3>1. {y \in S : <<y, x>> \in R} = {y \in S : Rank(y) < Rank(x)}
      OBVIOUS
    <3> HIDE DEF R
    <3>2. QED
      BY <3>1 DEF PlaceIn
  <2>2. order = [n \in 1..Cardinality(S) |->
                   CHOOSE x \in S : Cardinality({y \in S : Rank(y) < Rank(x)}) + 1 = n]
    BY DEF Sorted, Place
  <2> HIDE DEF R, order
  <2>3. QED
    BY <2>1, <2>2 DEF SortedBy
<1> HIDE DEF R, order
<1>4. order \in Seq(S) /\ IsInjective(order) /\ ToSet(order) = S
  BY <1>1, <1>2, <1>3, SortedFacts
<1>5. QED
  BY <1>4 DEF order

LEMMA MajorityIsFinite ==
  ASSUME NEW E, IsFiniteSet(E), \A e \in E : IsFiniteSet(e.classes)
  PROVE  IsFiniteSet(Majority(E))
<1> DEFINE cs == {e.classes : e \in E}
           f == [e \in E |-> e.classes]
<1>1. f \in Surjection(E, cs)
  BY DEF Surjection
<1>2. IsFiniteSet(cs)
  <2> HIDE DEF cs, f
  <2>1. QED
    BY <1>1, FS_Surjection
<1>3. IsFiniteSet(UNION cs)
  <2>1. \A T \in cs : IsFiniteSet(T)
    OBVIOUS
  <2> HIDE DEF cs
  <2>2. QED
    BY <1>2, <2>1, FS_UNION
<1>4. Majority(E) \in SUBSET (UNION cs)
  BY DEF Majority
<1> HIDE DEF cs
<1>5. QED
  BY <1>3, <1>4, FS_Subset

\* A set of entries of which no class is infinite.
Finite(E) == IsFiniteSet(E) /\ \A e \in E : IsFiniteSet(e.classes)

\* group_container, one container after the other.
LEMMA Grouped ==
  ASSUME NEW E, Finite(E), NEW c, c.entries \subseteq E, c.dn \in Places
  PROVE  /\ \E n \in Nat : DOMAIN GroupContainer(c) = 1..n
         /\ \A i \in DOMAIN GroupContainer(c) : RawProfile(GroupContainer(c)[i], E)
<1> DEFINE present == UNION {StructuralOf(e.classes) : e \in c.entries}
           order == Sorted(present, LAMBDA a, b : Rank(a) < Rank(b))
           Of(i) == {e \in c.entries : StructuralOf(e.classes) = {order[i]}}
<1>1. present \subseteq StructuralClasses
  BY DEF StructuralOf
<1>2. order \in Seq(present)
  BY <1>1, ByRank
<1>3. DOMAIN order = 1..Len(order) /\ Len(order) \in Nat /\ \A i \in DOMAIN order : order[i] \in present
  <2> HIDE DEF order, present
  <2>1. QED
    BY <1>2
<1>4. GroupContainer(c) = [i \in DOMAIN order |-> BuildProfile(c.dn, order[i], Of(i))]
  BY DEF GroupContainer
<1>5. \A i \in DOMAIN order : Of(i) \in SUBSET E
  OBVIOUS
<1> HIDE DEF present, order, Of
<1>6. ASSUME NEW i \in DOMAIN order PROVE RawProfile(BuildProfile(c.dn, order[i], Of(i)), E)
  <2>1. order[i] \in Word
    BY <1>1, <1>3, ProfileDetectionAssumption DEF Word
  <2>2. KindOf(order[i], Majority(Of(i))) \in Word
    BY <2>1, ProfileDetectionAssumption DEF KindOf, Word
  <2>3. Finite(Of(i))
    BY <1>5, FS_Subset DEF Finite
  <2>4. IsFiniteSet(Majority(Of(i)))
    BY <2>3, MajorityIsFinite DEF Finite
  <2>5. <<>> \in Seq(Word)
    OBVIOUS
  <2>6. QED
    BY <1>5, <2>1, <2>2, <2>4, <2>5 DEF RawProfile, BuildProfile, ProfileFields
<1>7. QED
  BY <1>3, <1>4, <1>6

\* What detection starts the patterns with.
LEMMA Inferred ==
  ASSUME NEW s, NEW X, s.containers \in Seq(X),
         NEW E, Finite(E), \A c \in ToSet(s.containers) : c.entries \subseteq E /\ c.dn \in Places
  PROVE  /\ \E n \in Nat : DOMAIN Infer(s) = 1..n
         /\ \A i \in DOMAIN Infer(s) : RawProfile(Infer(s)[i], E)
<1> DEFINE ss == [i \in DOMAIN s.containers |-> GroupContainer(s.containers[i])]
           S == UNION {ToSet(ss[i]) : i \in DOMAIN ss}
           ps == FlattenSeq(ss)
<1>0. ASSUME NEW i \in DOMAIN ss
      PROVE  s.containers[i].entries \subseteq E /\ s.containers[i].dn \in Places
  <2>1. s.containers[i] \in ToSet(s.containers)
    BY DEF ToSet
  <2>2. QED
    BY <2>1
<1>1. ss \in Seq(Seq(S))
  <2>1. \A i \in DOMAIN ss : \E n \in Nat : DOMAIN ss[i] = 1..n
    BY <1>0, Grouped
  <2>2. \A i \in DOMAIN ss : \E n \in Nat : ss[i] = [j \in 1..n |-> ss[i][j]]
    <3> SUFFICES ASSUME NEW i \in DOMAIN ss
                 PROVE \E n \in Nat : ss[i] = [j \in 1..n |-> ss[i][j]]
      OBVIOUS
    <3>1. ss[i] = GroupContainer(s.containers[i])
      OBVIOUS
    <3> HIDE DEF ss
    <3>2. ss[i] = [j \in DOMAIN ss[i] |-> ss[i][j]]
      BY <3>1 DEF GroupContainer
    <3>3. QED
      BY <2>1, <3>2
  <2>3. \A i \in DOMAIN ss : ss[i] \in Seq(S)
    <3> SUFFICES ASSUME NEW i \in DOMAIN ss PROVE ss[i] \in Seq(S)
      OBVIOUS
    <3>1. PICK n \in Nat : ss[i] = [j \in 1..n |-> ss[i][j]]
      BY <2>2
    <3> HIDE DEF ss
    <3>2. \A j \in 1..n : ss[i][j] \in S
      <4>1. \A j \in DOMAIN ss[i] : ss[i][j] \in ToSet(ss[i])
        BY DEF ToSet
      <4>2. DOMAIN ss[i] = 1..n
        BY <3>1
      <4>3. QED
        BY <4>1, <4>2
    <3> HIDE DEF S
    <3>3. QED
      BY <3>1, <3>2
  <2>4. DOMAIN ss = 1..Len(s.containers) /\ Len(s.containers) \in Nat
    OBVIOUS
  <2>5. ss = [i \in 1..Len(s.containers) |-> ss[i]]
    BY <2>4
  <2> HIDE DEF ss, S
  <2>6. ss \in [1..Len(s.containers) -> Seq(S)]
    BY <2>3, <2>4, <2>5
  <2>7. QED
    BY <2>4, <2>6
<1>2. ps \in Seq(S) /\ ToSet(ps) = S
  <2> HIDE DEF ss, S
  <2>1. FlattenSeq(ss) \in Seq(S) /\ ToSet(FlattenSeq(ss)) = UNION {ToSet(ss[i]) : i \in DOMAIN ss}
    BY <1>1, FlatFacts
  <2>2. QED
    BY <2>1 DEF S
<1>3. \A p \in S : RawProfile(p, E)
  <2> SUFFICES ASSUME NEW i \in DOMAIN ss, NEW p \in ToSet(ss[i]) PROVE RawProfile(p, E)
    OBVIOUS
  <2>1. PICK j \in DOMAIN ss[i] : p = ss[i][j]
    BY DEF ToSet
  <2>2. QED
    BY <1>0, <2>1, Grouped
<1>4. Infer(s) = AssignNames(ps)
  BY DEF Infer
<1> HIDE DEF ps, S, ss
<1>5. DOMAIN Infer(s) = 1..Len(ps) /\ Len(ps) \in Nat
  BY <1>2, <1>4, NamesAssigned
<1>6. ASSUME NEW i \in DOMAIN Infer(s) PROVE RawProfile(Infer(s)[i], E)
  <2>1. i \in DOMAIN ps /\ ps[i] \in S
    BY <1>2, <1>4, NamesAssigned
  <2>2. Infer(s)[i] = [ps[i] EXCEPT !.name = NamesGiven(ps)[i]]
    BY <1>4, <2>1, NamesAssigned
  <2>3. RawProfile(ps[i], E)
    BY <1>3, <2>1
  <2>4. NamesGiven(ps)[i] \in Seq(Word)
    BY <1>2, <1>3, <2>1, NamesAreNames DEF RawProfile
  <2>5. QED
    BY <2>2, <2>3, <2>4 DEF RawProfile, ProfileFields
<1>7. QED
  BY <1>5, <1>6

\* What is detected in a sample of E.
Detection(ds, E) ==
  /\ \E n \in Nat : DOMAIN ds = 1..n
  /\ \A d \in DOMAIN ds : DetectedProfile(ds[d], E)

\* All of detection: its profiles are DetectedProfiles.
LEMMA Detects ==
  ASSUME NEW s, NEW X, s.containers \in Seq(X),
         NEW E, Finite(E), \A c \in ToSet(s.containers) : c.entries \subseteq E /\ c.dn \in Places,
         \A e \in E : e.gidNumber \subseteq 0..MaxId
  PROVE  Detection(OtherParts(PosixParts(Infer(s), s)), E)
<1> DEFINE known == s.found \cup UNION {s.containers[i].entries : i \in DOMAIN s.containers}
           ps == Infer(s)
           qs == PosixParts(ps, s)
<1>1. (\E n \in Nat : DOMAIN ps = 1..n) /\ \A i \in DOMAIN ps : RawProfile(ps[i], E)
  BY Inferred
<1>2. qs = [i \in DOMAIN ps |-> PosixRules(ps[i], known, s.lookedUp)]
  BY DEF PosixParts
<1> HIDE DEF ps, qs, known
<1>3. \A i \in DOMAIN qs : PosixProfile(qs[i], ps[i])
  BY <1>1, <1>2, PosixFacts DEF Finite
<1>4. DOMAIN qs = DOMAIN ps /\ DOMAIN OtherParts(qs) = DOMAIN qs
  BY <1>2 DEF OtherParts
<1>5. \A i \in DOMAIN qs : DetectedProfile(OtherParts(qs)[i], E)
  BY <1>1, <1>3, <1>4, OtherFacts
<1>6. Detection(OtherParts(qs), E)
  BY <1>1, <1>4, <1>5 DEF Detection
<1>7. QED
  BY <1>6 DEF ps, qs

\* The profiles that are only detected follow by their classes, then their names.
Ordered(ds, S) == Sorted(S, LAMBDA d, e : Earlier(ds[d], d, ds[e], e))

LEMMA ByEarlier ==
  ASSUME NEW ds, NEW E, Detection(ds, E), NEW S, S \subseteq DOMAIN ds
  PROVE  Ordered(ds, S) \in Seq(S) /\ IsInjective(Ordered(ds, S)) /\ ToSet(Ordered(ds, S)) = S
<1> DEFINE rest == Sorted(S, LAMBDA d, e : Earlier(ds[d], d, ds[e], e))
           Less(d, e) == Earlier(ds[d], d, ds[e], e)
           R == {p \in S \X S : Less(p[1], p[2])}
<1>1. S \subseteq Nat /\ IsFiniteSet(S)
  <2>1. PICK n \in Nat : DOMAIN ds = 1..n
    BY DEF Detection
  <2>2. n \in Int /\ 1 \in Int
    BY <2>1
  <2>3. IsFiniteSet(1..n)
    BY <2>2, FS_Interval
  <2>4. QED
    BY <2>1, <2>3, FS_Subset
<1>2. \A d \in S : ds[d].name \in Seq(Word) /\ Cardinality(ds[d].classes) \in Nat
  <2>1. \A d \in S : ds[d].name \in Seq(Word) /\ IsFiniteSet(ds[d].classes)
    BY DEF Detection, DetectedProfile
  <2>2. QED
    BY <2>1, FS_CardinalityType
<1>3. ASSUME NEW x \in S PROVE ~Less(x, x)
  BY <1>1, <1>2, PrecedesOrders DEF Earlier
<1>4. ASSUME NEW x \in S, NEW y \in S, NEW z \in S, Less(x, y), Less(y, z) PROVE Less(x, z)
  <2> DEFINE k(i) == Cardinality(ds[i].classes)
             a(i) == ds[i].name
  <2>1. \A i, j \in S : Less(i, j) <=> \/ k(i) > k(j)
                                       \/ k(i) = k(j) /\ Precedes(a(i), a(j))
                                       \/ k(i) = k(j) /\ a(i) = a(j) /\ i < j
    BY DEF Earlier
  <2>2. k(x) \in Nat /\ k(y) \in Nat /\ k(z) \in Nat /\ x \in Nat /\ y \in Nat /\ z \in Nat
    BY <1>1, <1>2
  <2>3. Precedes(a(x), a(y)) /\ Precedes(a(y), a(z)) => Precedes(a(x), a(z))
    BY <1>2, PrecedesOrders
  <2> HIDE DEF Less, k, a
  <2>4. QED
    BY <1>4, <2>1, <2>2, <2>3
<1>5. ASSUME NEW x \in S, NEW y \in S, x # y PROVE Less(x, y) \/ Less(y, x)
  <2>1. ds[x].name # ds[y].name => Precedes(ds[x].name, ds[y].name) \/ Precedes(ds[y].name, ds[x].name)
    BY <1>2, PrecedesOrders
  <2>2. x \in Nat /\ y \in Nat
    BY <1>1
  <2>3. QED
    BY <1>2, <1>5, <2>1, <2>2 DEF Earlier
<1> HIDE DEF Less
<1>6. StrictOrder(R, S)
  <2>1. \A v, w \in S : <<v, w>> \in R <=> Less(v, w)
    OBVIOUS
  <2>2. R \in SUBSET (S \X S)
    OBVIOUS
  <2> HIDE DEF R
  <2>3. QED
    BY <1>3, <1>4, <1>5, <2>1, <2>2 DEF StrictOrder
<1>7. rest = SortedBy(R, S)
  <2>1. ASSUME NEW x \in S PROVE PlaceIn(R, S, x) = Cardinality({y \in S : Less(y, x)}) + 1
    <3>1. {y \in S : <<y, x>> \in R} = {y \in S : Less(y, x)}
      OBVIOUS
    <3> HIDE DEF R
    <3>2. QED
      BY <3>1 DEF PlaceIn
  <2>2. rest = [n \in 1..Cardinality(S) |->
                   CHOOSE x \in S : Cardinality({y \in S : Less(y, x)}) + 1 = n]
    BY DEF Sorted, Place, Less
  <2> HIDE DEF R, rest
  <2>3. QED
    BY <2>1, <2>2 DEF SortedBy
<1> HIDE DEF R, rest
<1>8. rest \in Seq(S) /\ IsInjective(rest) /\ ToSet(rest) = S
  BY <1>1, <1>6, <1>7, SortedFacts
<1>9. QED
  BY <1>8 DEF rest, Ordered
-----------------------------------------------------------------------------
(***************************************************************************)
(* merge.rs: what the blocks are given.                                    *)
(***************************************************************************)
\* What is given once the first k blocks had their turn.
Given(fits, start, a, k) ==
  /\ a \in [DOMAIN start -> Nat]
  /\ \A o \in DOMAIN start : start[o] # 0 => a[o] = start[o]
  /\ \A o \in DOMAIN start : start[o] = 0 /\ a[o] # 0 => o <= k /\ a[o] \in fits[o]
  /\ \A o, u \in DOMAIN start : a[o] # 0 /\ a[o] = a[u] => o = u
  /\ \A o \in DOMAIN start : o <= k /\ a[o] = 0 =>
       \A d \in fits[o] : \E u \in DOMAIN start : a[u] = d /\ (u < o \/ start[u] = d)

\* One more block is given what it fits.
LEMMA GiveFacts ==
  ASSUME NEW n \in Nat, NEW start \in [1..n -> Nat],
         NEW fits \in [1..n -> SUBSET (Nat \ {0})],
         NEW k \in 1..n, NEW a, Given(fits, start, a, k - 1)
  PROVE  Given(fits, start, Give(fits, a, k), k)
<1> DEFINE free == fits[k] \ ToSet(a)
           b == Give(fits, a, k)
<1>1. a \in [1..n -> Nat] /\ DOMAIN start = 1..n
  BY DEF Given
<1>2. ToSet(a) = {a[u] : u \in 1..n}
  BY <1>1 DEF ToSet
<1>3. b = IF a[k] # 0 \/ free = {} THEN a ELSE [a EXCEPT ![k] = First(free)]
  BY DEF Give
<1>4. CASE a[k] # 0 \/ free = {}
  <2>1. b = a
    BY <1>3, <1>4
  <2>2. ASSUME a[k] = 0, NEW d \in fits[k]
        PROVE  \E u \in 1..n : a[u] = d /\ (u < k \/ start[u] = d)
    <3>1. PICK u \in 1..n : a[u] = d
      BY <1>2, <1>4, <2>2
    <3>2. a[u] # 0
      BY <3>1
    <3>3. u # k
      BY <2>2, <3>2
    <3>4. start[u] = 0 => u <= k - 1
      BY <1>1, <3>2 DEF Given
    <3>5. start[u] # 0 => start[u] = d
      BY <1>1, <3>1 DEF Given
    <3>6. QED
      BY <3>1, <3>4, <3>5
  <2>3. \A o \in 1..n : start[o] = 0 /\ a[o] # 0 => o <= k /\ a[o] \in fits[o]
    BY <1>1 DEF Given
  <2>4. ASSUME NEW o \in 1..n, o <= k, a[o] = 0, NEW d \in fits[o]
        PROVE  \E u \in 1..n : a[u] = d /\ (u < o \/ start[u] = d)
    <3>1. CASE o = k
      BY <2>2, <2>4, <3>1
    <3>2. CASE o # k
      <4>1. o <= k - 1
        BY <2>4, <3>2
      <4>2. QED
        BY <1>1, <2>4, <4>1 DEF Given
    <3>3. QED
      BY <3>1, <3>2
  <2> HIDE DEF b, free
  <2>5. /\ a \in [DOMAIN start -> Nat]
        /\ \A o \in DOMAIN start : start[o] # 0 => a[o] = start[o]
        /\ \A o, u \in DOMAIN start : a[o] # 0 /\ a[o] = a[u] => o = u
    BY DEF Given
  <2>6. \A o \in DOMAIN start : o <= k /\ a[o] = 0 =>
          \A d \in fits[o] : \E u \in DOMAIN start : a[u] = d /\ (u < o \/ start[u] = d)
    BY <1>1, <2>4
  <2>7. \A o \in DOMAIN start : start[o] = 0 /\ a[o] # 0 => o <= k /\ a[o] \in fits[o]
    BY <1>1, <2>3
  <2>8. Given(fits, start, a, k)
    BY <2>5, <2>6, <2>7 DEF Given
  <2>9. QED
    BY <2>1, <2>8 DEF b
<1>5. CASE a[k] = 0 /\ free # {}
  <2> DEFINE f == First(free)
  <2>1. f \in fits[k] /\ f \in Nat /\ f # 0 /\ \A u \in 1..n : a[u] # f
    <3>1. free \subseteq Nat /\ free # {}
      BY <1>5
    <3>2. f \in free
      BY <3>1, FirstIs
    <3>3. QED
      BY <1>2, <3>2
  <2>2. b = [a EXCEPT ![k] = f]
    BY <1>3, <1>5
  <2> HIDE DEF f, b, free
  <2>3. /\ b \in [1..n -> Nat] /\ b[k] = f
        /\ \A o \in 1..n : o # k => b[o] = a[o]
    BY <1>1, <2>1, <2>2
  <2>4. \A o \in 1..n : start[o] # 0 => b[o] = start[o]
    BY <1>1, <1>5, <2>3 DEF Given
  <2>5. \A o \in 1..n : start[o] = 0 /\ b[o] # 0 => o <= k /\ b[o] \in fits[o]
    BY <1>1, <2>1, <2>3 DEF Given
  <2>6. \A o, u \in 1..n : b[o] # 0 /\ b[o] = b[u] => o = u
    <3> SUFFICES ASSUME NEW o \in 1..n, NEW u \in 1..n, b[o] # 0, b[o] = b[u] PROVE o = u
      OBVIOUS
    <3>1. \A i, j \in 1..n : a[i] # 0 /\ a[i] = a[j] => i = j
      BY <1>1 DEF Given
    <3>2. CASE o = k
      BY <2>1, <2>3, <3>2
    <3>3. CASE o # k /\ u = k
      BY <2>1, <2>3, <3>3
    <3>4. CASE o # k /\ u # k
      BY <2>3, <3>1, <3>4
    <3>5. QED
      BY <3>2, <3>3, <3>4
  <2>7. ASSUME NEW o \in 1..n, o <= k, b[o] = 0, NEW d \in fits[o]
        PROVE  \E u \in 1..n : b[u] = d /\ (u < o \/ start[u] = d)
    <3>1. o # k /\ o <= k - 1 /\ a[o] = 0
      BY <2>1, <2>3, <2>7
    <3>2. PICK u \in 1..n : a[u] = d /\ (u < o \/ start[u] = d)
      BY <1>1, <2>7, <3>1 DEF Given
    <3>3. u # k
      BY <1>5, <3>2
    <3>4. QED
      BY <2>3, <3>2, <3>3
  <2>8. \A o \in DOMAIN start : o <= k /\ b[o] = 0 =>
          \A d \in fits[o] : \E u \in DOMAIN start : b[u] = d /\ (u < o \/ start[u] = d)
    BY <1>1, <2>7
  <2>9. /\ b \in [DOMAIN start -> Nat]
        /\ \A o \in DOMAIN start : start[o] # 0 => b[o] = start[o]
        /\ \A o \in DOMAIN start : start[o] = 0 /\ b[o] # 0 => o <= k /\ b[o] \in fits[o]
        /\ \A o, u \in DOMAIN start : b[o] # 0 /\ b[o] = b[u] => o = u
    BY <1>1, <2>3, <2>4, <2>5, <2>6
  <2>10. Given(fits, start, b, k)
    BY <2>8, <2>9 DEF Given
  <2>11. QED
    BY <2>10 DEF b
<1>6. QED
  BY <1>4, <1>5

\* All blocks have had their turn: nothing is given twice.
LEMMA HandedFacts ==
  ASSUME NEW n \in Nat, NEW start \in [1..n -> Nat],
         NEW fits \in [1..n -> SUBSET (Nat \ {0})],
         \A o, u \in 1..n : start[o] # 0 /\ start[o] = start[u] => o = u
  PROVE  Given(fits, start, Handed(fits, start), n)
<1> DEFINE X == [1..n -> Nat]
           step == [p \in (1..n) \X X |-> IF Give(fits, p[2], p[1]) \in X THEN Give(fits, p[2], p[1]) ELSE start]
<1>1. Len(fits) = n /\ DOMAIN start = 1..n
  BY IsAList
<1>2. start \in X
  OBVIOUS
<1>20. step \in [(1..n) \X X -> X]
  OBVIOUS
<1>21. n \in Nat
  OBVIOUS
<1>3. PICK g \in Courses(n, X, start, step) : TRUE
  <2> HIDE DEF X, step
  <2>1. Courses(n, X, start, step) # {}
    BY <1>2, <1>20, <1>21, Iterated
  <2>2. QED
    BY <2>1
<1>4. g \in [0..n -> X] /\ g[0] = start
  <2> HIDE DEF X, step
  <2>1. QED
    BY <1>3 DEF Courses
<1>5. \A k \in 1..n : g[k] = step[<<k, g[k - 1]>>]
  <2> HIDE DEF X, step
  <2>1. QED
    BY <1>3 DEF Courses
<1> DEFINE T == {k \in 0..n : Given(fits, start, g[k], k)}
<1>6. ASSUME NEW k \in 1..n, k - 1 \in T
      PROVE  k \in T /\ g[k] = Give(fits, g[k - 1], k)
  <2>1. Given(fits, start, Give(fits, g[k - 1], k), k)
    BY <1>6, GiveFacts
  <2>2. Give(fits, g[k - 1], k) \in X
    BY <1>1, <2>1 DEF Given
  <2>3. k - 1 \in 0..n /\ k \in 0..n
    OBVIOUS
  <2> HIDE DEF X
  <2>4. <<k, g[k - 1]>> \in (1..n) \X X
    BY <1>4, <2>3
  <2>5. step[<<k, g[k - 1]>>] = Give(fits, g[k - 1], k)
    BY <2>2, <2>4
  <2> HIDE DEF step
  <2>6. QED
    BY <1>5, <2>1, <2>3, <2>5
<1>7. 0 \in T
  <2>1. Given(fits, start, start, 0)
    BY <1>1 DEF Given
  <2>2. QED
    BY <1>4, <2>1
<1>8. \A k \in 0..n : k \in T
  <2> HIDE DEF T
  <2>1. \A k \in 1..n : k - 1 \in T => k \in T
    BY <1>6
  <2>2. QED
    BY <1>7, <2>1, UpTo
<1>9. \A k \in 1..n : g[k] = Give(fits, g[k - 1], k)
  <2> HIDE DEF T
  <2>1. \A k \in 1..n : k - 1 \in 0..n
    OBVIOUS
  <2>2. QED
    BY <1>6, <1>8, <2>1
<1> DEFINE After(f) == f = [o \in 0..Len(fits) |-> IF o = 0 THEN start ELSE Give(fits, f[o - 1], o)]
           F == CHOOSE f : After(f)
<1>10. After(g)
  <2>1. \A o \in 0..n : g[o] = IF o = 0 THEN start ELSE Give(fits, g[o - 1], o)
    BY <1>4, <1>9
  <2> HIDE DEF X
  <2>2. g = [o \in 0..n |-> g[o]]
    BY <1>4
  <2>3. QED
    BY <1>1, <2>1, <2>2
<1>11. After(F)
  <2> HIDE DEF After
  <2>1. QED
    BY <1>10
<1>12. Handed(fits, start) = F[n]
  BY <1>1 DEF Handed
<1> HIDE DEF F
<1>13. \A k \in 0..n : F[k] = g[k]
  <2> DEFINE U == {k \in 0..n : F[k] = g[k]}
  <2>1. 0 \in U
    BY <1>1, <1>4, <1>11
  <2>2. \A k \in 1..n : k - 1 \in U => k \in U
    <3> SUFFICES ASSUME NEW k \in 1..n, k - 1 \in U PROVE k \in U
      OBVIOUS
    <3>1. k \in 0..n /\ k # 0 /\ F[k - 1] = g[k - 1]
      OBVIOUS
    <3>2. F[k] = Give(fits, F[k - 1], k)
      BY <1>1, <1>11, <3>1
    <3>3. QED
      BY <1>9, <3>1, <3>2
  <2>3. \A k \in 0..n : k \in U
    <3> HIDE DEF U
    <3>1. QED
      BY <2>1, <2>2, UpTo
  <2>4. QED
    BY <2>3
<1>14. n \in T /\ Handed(fits, start) = g[n]
  BY <1>8, <1>12, <1>13
<1>15. QED
  BY <1>14

\* The two passes of merge_core.
LEMMA TakenFacts ==
  ASSUME NEW nd \in Nat, NEW ds, DOMAIN ds = 1..nd, NEW n \in Nat, NEW cs, DOMAIN cs = 1..n
  PROVE  LET start == [o \in 1..n |-> 0]
             named == Handed(Named(ds, cs), start)
         IN  /\ Given(Named(ds, cs), start, named, n)
             /\ Given(Placed(ds, cs), named, Taken(ds, cs), n)
             /\ \A o \in 1..n : Taken(ds, cs)[o] # 0 => Taken(ds, cs)[o] \in DOMAIN ds
<1> DEFINE start == [o \in 1..n |-> 0]
           named == Handed(Named(ds, cs), start)
<1>1. Named(ds, cs) \in [1..n -> SUBSET (Nat \ {0})]
  <2>1. ASSUME NEW o \in 1..n
        PROVE  (LET same == {d \in DOMAIN ds : ds[d].name = cs[o].name}
                IN  IF same = {} THEN {} ELSE {First(same)}) \in SUBSET (Nat \ {0})
    <3> DEFINE same == {d \in DOMAIN ds : ds[d].name = cs[o].name}
    <3>1. CASE same # {}
      <4>1. same \subseteq Nat /\ same \subseteq Nat \ {0}
        OBVIOUS
      <4>2. First(same) \in same
        BY <3>1, <4>1, FirstIs
      <4> HIDE DEF same
      <4>3. QED
        BY <3>1, <4>1, <4>2 DEF same
    <3>2. CASE same = {}
      BY <3>2
    <3>3. QED
      BY <3>1, <3>2
  <2>2. QED
    BY <2>1 DEF Named
<1>2. Placed(ds, cs) \in [1..n -> SUBSET (Nat \ {0})]
  BY DEF Placed
<1>3. \A o \in 1..n : Named(ds, cs)[o] \subseteq DOMAIN ds /\ Placed(ds, cs)[o] \subseteq DOMAIN ds
  <2>1. ASSUME NEW o \in 1..n PROVE Named(ds, cs)[o] \subseteq DOMAIN ds
    <3> DEFINE same == {d \in DOMAIN ds : ds[d].name = cs[o].name}
    <3>1. Named(ds, cs)[o] = IF same = {} THEN {} ELSE {First(same)}
      BY DEF Named
    <3>2. same # {} => First(same) \in same
      <4>1. same \subseteq Nat
        OBVIOUS
      <4> HIDE DEF same
      <4>2. QED
        BY <4>1, FirstIs
    <3>3. QED
      BY <3>1, <3>2
  <2>2. QED
    BY <2>1 DEF Placed
<1>4. start \in [1..n -> Nat] /\ \A o, u \in 1..n : start[o] # 0 /\ start[o] = start[u] => o = u
  OBVIOUS
<1>5. Given(Named(ds, cs), start, named, n)
  <2> HIDE DEF start
  <2>1. QED
    BY <1>1, <1>4, HandedFacts
<1>6. Taken(ds, cs) = Handed(Placed(ds, cs), named)
  BY DEF Taken
<1>7. DOMAIN start = 1..n /\ \A o \in 1..n : start[o] = 0
  OBVIOUS
<1> HIDE DEF start, named
<1>8. named \in [1..n -> Nat] /\ \A o, u \in 1..n : named[o] # 0 /\ named[o] = named[u] => o = u
  BY <1>5, <1>7 DEF Given
<1>9. Given(Placed(ds, cs), named, Taken(ds, cs), n)
  BY <1>2, <1>6, <1>8, HandedFacts
<1>10. ASSUME NEW o \in 1..n, Taken(ds, cs)[o] # 0 PROVE Taken(ds, cs)[o] \in DOMAIN ds
  <2>1. DOMAIN named = 1..n
    BY <1>8
  <2>2. CASE named[o] = 0
    <3>1. Taken(ds, cs)[o] \in Placed(ds, cs)[o]
      BY <1>9, <1>10, <2>1, <2>2 DEF Given
    <3>2. QED
      BY <1>3, <3>1
  <2>3. CASE named[o] # 0
    <3>1. Taken(ds, cs)[o] = named[o]
      BY <1>9, <2>1, <2>3 DEF Given
    <3>2. named[o] \in Named(ds, cs)[o]
      BY <1>5, <1>7, <2>3 DEF Given
    <3>3. QED
      BY <1>3, <3>1, <3>2
  <2>4. QED
    BY <2>2, <2>3
<1>11. QED
  BY <1>5, <1>9, <1>10 DEF start, named

LEMMA TakenIs ==
  ASSUME NEW nd \in Nat, NEW ds, DOMAIN ds = 1..nd, NEW n \in Nat, NEW cs, DOMAIN cs = 1..n
  PROVE  /\ Taken(ds, cs) \in [1..n -> Nat]
         /\ \A o \in 1..n : Taken(ds, cs)[o] # 0 => Taken(ds, cs)[o] \in DOMAIN ds
         /\ \A o, u \in 1..n : Taken(ds, cs)[o] # 0 /\ Taken(ds, cs)[o] = Taken(ds, cs)[u] => o = u
<1> DEFINE start == [o \in 1..n |-> 0]
           named == Handed(Named(ds, cs), start)
<1>1. /\ Given(Named(ds, cs), start, named, n)
      /\ Given(Placed(ds, cs), named, Taken(ds, cs), n)
      /\ \A o \in 1..n : Taken(ds, cs)[o] # 0 => Taken(ds, cs)[o] \in DOMAIN ds
  BY TakenFacts
<1>2. DOMAIN start = 1..n
  OBVIOUS
<1> HIDE DEF start, named
<1>3. DOMAIN named = 1..n
  BY <1>1, <1>2 DEF Given
<1>4. QED
  BY <1>1, <1>3 DEF Given

\* Some generated parts are taken away.
Gone(p, paths) == paths \cap (DOMAIN p.parts \ p.own)
Trims(p, paths) == "companion.memberUid" \in paths /\ "companion" \in DOMAIN p.parts \ p.own

Trimmed(p, paths, q) ==
  /\ DOMAIN q = DOMAIN p
  /\ \A f \in DOMAIN p \ {"parts", "pending"} : q[f] = p[f]
  /\ DOMAIN q.parts = DOMAIN p.parts \ Gone(p, paths)
  /\ \A k \in DOMAIN q.parts : k # "companion" => q.parts[k] = p.parts[k]
  /\ "companion" \in DOMAIN q.parts =>
       q.parts["companion"] = IF Trims(p, paths)
                              THEN [p.parts["companion"] EXCEPT !.attrs = @ \ {"memberUid"}]
                              ELSE p.parts["companion"]
  /\ q.pending = (paths \ Gone(p, paths)) \ {t \in {"companion.memberUid"} : Trims(p, paths)}

\* suppress, as a relation.
LEMMA SuppressedFacts ==
  ASSUME NEW p, {"parts", "pending"} \subseteq DOMAIN p, NEW paths
  PROVE  Trimmed(p, paths, Suppressed(p, paths))
<1> DEFINE q    == Suppressed(p, paths)
           gone == paths \cap (DOMAIN p.parts \ p.own)
           trim == "companion.memberUid" \in paths /\ "companion" \in DOMAIN p.parts \ p.own
           new  == [k \in DOMAIN p.parts \ gone |->
                      IF k = "companion" /\ trim
                      THEN [p.parts[k] EXCEPT !.attrs = @ \ {"memberUid"}] ELSE p.parts[k]]
           left == (paths \ gone) \ {t \in {"companion.memberUid"} : trim}
<1>1. q = [p EXCEPT !.parts = new, !.pending = left]
  BY DEF Suppressed
<1>2. /\ DOMAIN new = DOMAIN p.parts \ gone
      /\ \A k \in DOMAIN new : k # "companion" => new[k] = p.parts[k]
      /\ "companion" \in DOMAIN new =>
            new["companion"] = IF trim THEN [p.parts["companion"] EXCEPT !.attrs = @ \ {"memberUid"}]
                                       ELSE p.parts["companion"]
  <2> HIDE DEF gone, trim
  <2>1. QED
    OBVIOUS
<1> HIDE DEF new, left, gone, trim, q
<1>3. /\ DOMAIN q = DOMAIN p /\ q.parts = new /\ q.pending = left
      /\ \A f \in DOMAIN p \ {"parts", "pending"} : q[f] = p[f]
  BY <1>1
<1>4. QED
  BY <1>2, <1>3 DEF left, gone, trim, q, Trimmed, Gone, Trims

BlockFields == {"name", "classes", "base", "parts", "own", "of", "by", "pending"}

\* A block's profile before what it suppresses is taken away.
Unsuppressed(ds, cs, o, d) ==
  LET base  == One(cs[o].base, ds[d].at)
      kind  == One(UNION {StructuralOf(c) : c \in cs[o].classes}, ds[d].structural)
      under == Renamed(ds[d].parts, ds, cs)
      moved == [k \in DOMAIN under |->
                  IF k \in Numbers /\ IsRange(under[k])
                  THEN [under[k] EXCEPT !.base = base, !.structural = kind] ELSE under[k]]
  IN  [name |-> cs[o].name, classes |-> One(cs[o].classes, ds[d].classes),
       base |-> base, parts |-> Over(cs[o].parts, moved), own |-> DOMAIN cs[o].parts,
       of |-> d, by |-> o, pending |-> {}]

LEMMA MergeOneIs ==
  ASSUME NEW ds, NEW cs, NEW o, NEW d
  PROVE  MergeOne(ds, cs, o, d) = Suppressed(Unsuppressed(ds, cs, o, d), cs[o].suppress)
BY DEF MergeOne, Unsuppressed

LEMMA UnsuppressedFacts ==
  ASSUME NEW ds, NEW cs, NEW o, NEW d
  PROVE  LET u == Unsuppressed(ds, cs, o, d) IN
           /\ DOMAIN u = BlockFields
           /\ u.name = cs[o].name /\ u.classes = One(cs[o].classes, ds[d].classes)
           /\ u.own = DOMAIN cs[o].parts /\ u.of = d /\ u.by = o /\ u.pending = {}
           /\ DOMAIN u.parts = DOMAIN cs[o].parts \cup DOMAIN ds[d].parts
           /\ \A k \in DOMAIN cs[o].parts : u.parts[k] = cs[o].parts[k]
           /\ \A k \in DOMAIN ds[d].parts \ DOMAIN cs[o].parts :
                /\ k \in Widgets => u.parts[k] = Renamed(ds[d].parts, ds, cs)[k]
                /\ k \notin Numbers \cup Widgets => u.parts[k] = ds[d].parts[k]
                /\ k \in Numbers /\ ~IsRange(ds[d].parts[k]) => u.parts[k] = ds[d].parts[k]
                /\ k \in Numbers /\ IsRange(ds[d].parts[k]) =>
                     /\ DOMAIN u.parts[k] = DOMAIN ds[d].parts[k]
                     /\ \A f \in DOMAIN u.parts[k] \ {"base", "structural"} :
                          u.parts[k][f] = ds[d].parts[k][f]
<1> DEFINE u == Unsuppressed(ds, cs, o, d)
           base  == One(cs[o].base, ds[d].at)
           kind  == One(UNION {StructuralOf(c) : c \in cs[o].classes}, ds[d].structural)
           under == Renamed(ds[d].parts, ds, cs)
           moved == [k \in DOMAIN under |->
                  IF k \in Numbers /\ IsRange(under[k])
                  THEN [under[k] EXCEPT !.base = base, !.structural = kind] ELSE under[k]]
           parts == Over(cs[o].parts, moved)
<1>1. /\ DOMAIN u = BlockFields
      /\ u.name = cs[o].name /\ u.classes = One(cs[o].classes, ds[d].classes)
      /\ u.own = DOMAIN cs[o].parts /\ u.of = d /\ u.by = o /\ u.pending = {}
      /\ u.parts = parts
  BY DEF Unsuppressed, BlockFields
<1>2. DOMAIN under = DOMAIN ds[d].parts /\ \A k \in DOMAIN under : k \notin Widgets => under[k] = ds[d].parts[k]
  BY DEF Renamed
<1>3. \A k \in Numbers : k \notin Widgets
  BY DEF Numbers, Widgets
<1> HIDE DEF u, base, kind, under
<1>4. /\ DOMAIN moved = DOMAIN ds[d].parts
      /\ \A k \in DOMAIN moved :
           /\ k \in Widgets => moved[k] = under[k]
           /\ k \notin Numbers \cup Widgets => moved[k] = ds[d].parts[k]
           /\ k \in Numbers /\ ~IsRange(ds[d].parts[k]) => moved[k] = ds[d].parts[k]
  BY <1>2, <1>3
<1>5. ASSUME NEW k \in DOMAIN moved, k \in Numbers, IsRange(ds[d].parts[k])
      PROVE  /\ DOMAIN moved[k] = DOMAIN ds[d].parts[k]
             /\ \A f \in DOMAIN moved[k] \ {"base", "structural"} : moved[k][f] = ds[d].parts[k][f]
  <2> DEFINE r == ds[d].parts[k]
  <2>1. moved[k] = [r EXCEPT !.base = base, !.structural = kind]
    BY <1>2, <1>3, <1>5
  <2> HIDE DEF moved, r
  <2>2. /\ DOMAIN moved[k] = DOMAIN r
        /\ \A f \in DOMAIN r \ {"base", "structural"} : moved[k][f] = r[f]
    BY <2>1
  <2>3. QED
    BY <2>2 DEF r
<1> HIDE DEF moved
<1>6. /\ DOMAIN parts = DOMAIN cs[o].parts \cup DOMAIN moved
      /\ \A k \in DOMAIN cs[o].parts : parts[k] = cs[o].parts[k]
      /\ \A k \in DOMAIN moved : k \notin DOMAIN cs[o].parts => parts[k] = moved[k]
  BY OverFacts
<1> HIDE DEF parts
<1>7. ASSUME NEW k \in DOMAIN ds[d].parts \ DOMAIN cs[o].parts
      PROVE  /\ k \in Widgets => u.parts[k] = under[k]
             /\ k \notin Numbers \cup Widgets => u.parts[k] = ds[d].parts[k]
             /\ k \in Numbers /\ ~IsRange(ds[d].parts[k]) => u.parts[k] = ds[d].parts[k]
             /\ k \in Numbers /\ IsRange(ds[d].parts[k]) =>
                  /\ DOMAIN u.parts[k] = DOMAIN ds[d].parts[k]
                  /\ \A f \in DOMAIN u.parts[k] \ {"base", "structural"} :
                       u.parts[k][f] = ds[d].parts[k][f]
  <2>1. u.parts[k] = moved[k] /\ k \in DOMAIN moved
    BY <1>1, <1>4, <1>6
  <2>2. QED
    BY <1>4, <1>5, <2>1
<1>8. QED
  BY <1>1, <1>4, <1>6, <1>7 DEF u, under

\* A block that has no profile of its own.
Alone(ds, cs, o) ==
  [name |-> cs[o].name, classes |-> One(cs[o].classes, {}),
   base |-> One(cs[o].base, <<>>), parts |-> cs[o].parts,
   own |-> DOMAIN cs[o].parts, of |-> 0, by |-> o, pending |-> cs[o].suppress]

Enabled(ds, cs, o) == cs[o].enabled /\ ~(Taken(ds, cs)[o] = 0 /\ cs[o].classes = {})

BlockProfile(ds, cs, o) ==
  IF Taken(ds, cs)[o] # 0 THEN MergeOne(ds, cs, o, Taken(ds, cs)[o]) ELSE Alone(ds, cs, o)

FromBlocks(ds, cs) == {BlockProfile(ds, cs, o) : o \in {u \in DOMAIN cs : Enabled(ds, cs, u)}}
FromDetection(ds, cs) ==
  {OnlyDetected(ds, cs, d) : d \in DOMAIN ds \ ToSet(Taken(ds, cs))}

LEMMA BlockProfileFacts ==
  ASSUME NEW ds, NEW cs, NEW o
  PROVE  /\ DOMAIN BlockProfile(ds, cs, o) = BlockFields
         /\ BlockProfile(ds, cs, o).by = o /\ BlockProfile(ds, cs, o).of = Taken(ds, cs)[o]
         /\ BlockProfile(ds, cs, o).name = cs[o].name
         /\ BlockProfile(ds, cs, o).own = DOMAIN cs[o].parts
<1>1. CASE Taken(ds, cs)[o] # 0
  <2> DEFINE d == Taken(ds, cs)[o]
             u == Unsuppressed(ds, cs, o, d)
             q == Suppressed(u, cs[o].suppress)
  <2>1. BlockProfile(ds, cs, o) = q
    BY <1>1, MergeOneIs DEF BlockProfile
  <2>2. /\ DOMAIN u = BlockFields /\ u.name = cs[o].name
        /\ u.own = DOMAIN cs[o].parts /\ u.of = d /\ u.by = o
    BY UnsuppressedFacts
  <2> HIDE DEF u, d
  <2>3. {"parts", "pending"} \subseteq DOMAIN u
    BY <2>2 DEF BlockFields
  <2>3a. Trimmed(u, cs[o].suppress, q)
    BY <2>3, SuppressedFacts
  <2>4. DOMAIN q = DOMAIN u /\ \A f \in DOMAIN u \ {"parts", "pending"} : q[f] = u[f]
    BY <2>3a DEF Trimmed
  <2> HIDE DEF q
  <2>5. q.by = u.by /\ q.of = u.of /\ q.name = u.name /\ q.own = u.own
    BY <2>2, <2>4 DEF BlockFields
  <2>6. QED
    BY <2>1, <2>2, <2>4, <2>5 DEF d
<1>2. CASE Taken(ds, cs)[o] = 0
  BY <1>2 DEF BlockProfile, Alone, BlockFields
<1>3. QED
  BY <1>1, <1>2

LEMMA OfBlockIs ==
  ASSUME NEW ds, NEW cs, NEW o
  PROVE  OfBlock(ds, cs, o) = IF Enabled(ds, cs, o) THEN <<BlockProfile(ds, cs, o)>> ELSE <<>>
<1>1. CASE Taken(ds, cs)[o] # 0
  BY <1>1 DEF OfBlock, Enabled, BlockProfile
<1>2. CASE Taken(ds, cs)[o] = 0
  BY <1>2 DEF OfBlock, Enabled, BlockProfile, Alone
<1>3. QED
  BY <1>1, <1>2

\* merge_core leaves each block's profile and each profile left over, once.
LEMMA Merges ==
  ASSUME NEW ds, NEW E, Detection(ds, E), NEW X, NEW cs \in Seq(X)
  PROVE  /\ MergeCore(ds, cs) \in Seq(FromBlocks(ds, cs) \cup FromDetection(ds, cs))
         /\ IsInjective(MergeCore(ds, cs))
         /\ ToSet(MergeCore(ds, cs)) = FromBlocks(ds, cs) \cup FromDetection(ds, cs)
<1> DEFINE B == FromBlocks(ds, cs)
           D == FromDetection(ds, cs)
           S == B \cup D
           n == Len(cs)
           ss == [o \in 1..n |-> OfBlock(ds, cs, o)]
           free == DOMAIN ds \ ToSet(Taken(ds, cs))
           rest == Sorted(free, LAMBDA d, e : Earlier(ds[d], d, ds[e], e))
           tail == [i \in DOMAIN rest |-> OnlyDetected(ds, cs, rest[i])]
<1>1. n \in Nat /\ DOMAIN cs = 1..n
  OBVIOUS
<1>2. MergeCore(ds, cs) = FlattenSeq(ss) \o tail
  BY <1>1 DEF MergeCore
<1>3. rest \in Seq(free) /\ IsInjective(rest) /\ ToSet(rest) = free
  <2>1. free \subseteq DOMAIN ds
    OBVIOUS
  <2>2. rest = Ordered(ds, free)
    BY DEF Ordered
  <2> HIDE DEF rest, free
  <2>3. QED
    BY <2>1, <2>2, ByEarlier
<1> HIDE DEF n
<1>4. \A o \in 1..n : ss[o] = IF Enabled(ds, cs, o) THEN <<BlockProfile(ds, cs, o)>> ELSE <<>>
  BY OfBlockIs
<1>5. \A o \in 1..n : Enabled(ds, cs, o) => BlockProfile(ds, cs, o) \in B
  BY <1>1 DEF FromBlocks
<1>6. ss \in Seq(Seq(S))
  <2>1. \A o \in 1..n : ss[o] \in Seq(S)
    <3> SUFFICES ASSUME NEW o \in 1..n PROVE ss[o] \in Seq(S)
      OBVIOUS
    <3> HIDE DEF ss, B, D
    <3>1. CASE Enabled(ds, cs, o)
      <4>1. BlockProfile(ds, cs, o) \in S
        BY <1>5, <3>1
      <4> HIDE DEF S
      <4>2. ss[o] = <<BlockProfile(ds, cs, o)>>
        BY <1>4, <3>1
      <4>3. QED
        BY <4>1, <4>2
    <3>2. CASE ~Enabled(ds, cs, o)
      <4>1. ss[o] = <<>>
        BY <1>4, <3>2
      <4>2. QED
        BY <4>1
    <3>3. QED
      BY <3>1, <3>2
  <2>2. ss \in [1..n -> Seq(S)]
    <3> HIDE DEF S
    <3>1. QED
      BY <2>1
  <2> HIDE DEF ss, S
  <2>3. QED
    BY <1>1, <2>2, IsAList
<1>7. \A o \in 1..n : ToSet(ss[o]) = IF Enabled(ds, cs, o) THEN {BlockProfile(ds, cs, o)} ELSE {}
  <2> SUFFICES ASSUME NEW o \in 1..n
               PROVE ToSet(ss[o]) = IF Enabled(ds, cs, o) THEN {BlockProfile(ds, cs, o)} ELSE {}
    OBVIOUS
  <2> HIDE DEF ss
  <2>1. ToSet(<<BlockProfile(ds, cs, o)>>) = {BlockProfile(ds, cs, o)} /\ ToSet(<<>>) = {}
    BY DEF ToSet
  <2>2. QED
    BY <1>4, <2>1
<1>8. \A o \in 1..n : IsInjective(ss[o])
  <2> SUFFICES ASSUME NEW o \in 1..n PROVE IsInjective(ss[o])
    OBVIOUS
  <2> HIDE DEF ss
  <2>1. IsInjective(<<BlockProfile(ds, cs, o)>>) /\ IsInjective(<<>>)
    <3>1. DOMAIN <<BlockProfile(ds, cs, o)>> = {1}
      OBVIOUS
    <3>2. DOMAIN <<>> = {}
      OBVIOUS
    <3>3. QED
      BY <3>1, <3>2 DEF IsInjective
  <2>2. QED
    BY <1>4, <2>1
<1>9. \A i, j \in 1..n : i # j => ToSet(ss[i]) \cap ToSet(ss[j]) = {}
  <2> SUFFICES ASSUME NEW i \in 1..n, NEW j \in 1..n, i # j PROVE ToSet(ss[i]) \cap ToSet(ss[j]) = {}
    OBVIOUS
  <2>1. BlockProfile(ds, cs, i) # BlockProfile(ds, cs, j)
    BY BlockProfileFacts
  <2> HIDE DEF ss
  <2>2. ToSet(ss[i]) \subseteq {BlockProfile(ds, cs, i)} /\ ToSet(ss[j]) \subseteq {BlockProfile(ds, cs, j)}
    BY <1>7
  <2>3. QED
    BY <2>1, <2>2
<1>10. DOMAIN ss = 1..n
  OBVIOUS
<1>11. FlattenSeq(ss) \in Seq(S) /\ IsInjective(FlattenSeq(ss)) /\ ToSet(FlattenSeq(ss)) = B
  <2> HIDE DEF ss
  <2>1. /\ FlattenSeq(ss) \in Seq(S)
        /\ ToSet(FlattenSeq(ss)) = UNION {ToSet(ss[o]) : o \in DOMAIN ss}
    BY <1>6, FlatFacts
  <2>2. /\ \A i \in DOMAIN ss : IsInjective(ss[i])
        /\ \A i, j \in DOMAIN ss : i # j => ToSet(ss[i]) \cap ToSet(ss[j]) = {}
    BY <1>8, <1>9, <1>10
  <2>3. IsInjective(FlattenSeq(ss))
    BY <1>6, <2>2, FlatFacts
  <2>4. UNION {ToSet(ss[o]) : o \in DOMAIN ss} = B
    BY <1>1, <1>7, <1>10 DEF FromBlocks
  <2>5. QED
    BY <2>1, <2>3, <2>4
<1> HIDE DEF ss
<1>12. tail \in Seq(S) /\ IsInjective(tail) /\ ToSet(tail) = D
  <2>1. /\ DOMAIN rest = 1..Len(rest) /\ Len(rest) \in Nat
        /\ \A i \in DOMAIN rest : rest[i] \in free
        /\ \A i, j \in DOMAIN rest : rest[i] = rest[j] => i = j
        /\ \A d \in free : \E i \in DOMAIN rest : rest[i] = d
    <3> HIDE DEF rest, free
    <3>1. QED
      BY <1>3 DEF IsInjective, ToSet
  <2> HIDE DEF rest
  <2>2. \A i \in DOMAIN rest : tail[i] \in D
    BY <2>1 DEF FromDetection
  <2>3. tail \in [1..Len(rest) -> S]
    BY <2>1, <2>2
  <2>4. \A i, j \in DOMAIN tail : tail[i] = tail[j] => i = j
    <3> SUFFICES ASSUME NEW i \in DOMAIN rest, NEW j \in DOMAIN rest, tail[i] = tail[j] PROVE i = j
      OBVIOUS
    <3>1. OnlyDetected(ds, cs, rest[i]) = OnlyDetected(ds, cs, rest[j])
      OBVIOUS
    <3>2. rest[i] = rest[j]
      BY <3>1 DEF OnlyDetected
    <3>3. QED
      BY <2>1, <3>2
  <2>5. ToSet(tail) = D
    <3>1. ToSet(tail) = {OnlyDetected(ds, cs, rest[i]) : i \in DOMAIN rest}
      BY DEF ToSet
    <3>2. QED
      BY <2>1, <3>1 DEF FromDetection
  <2> HIDE DEF tail
  <2>6. QED
    BY <2>1, <2>3, <2>4, <2>5, IsAList DEF IsInjective
<1>13. ToSet(FlattenSeq(ss)) \cap ToSet(tail) = {}
  <2> SUFFICES ASSUME NEW p \in B, p \in D PROVE FALSE
    BY <1>11, <1>12
  <2>1. PICK o \in DOMAIN cs : p = BlockProfile(ds, cs, o)
    BY DEF FromBlocks
  <2>2. PICK d \in DOMAIN ds : p = OnlyDetected(ds, cs, d)
    BY DEF FromDetection
  <2>3. p.by = o /\ o # 0
    BY <1>1, <2>1, BlockProfileFacts
  <2>4. p.by = 0
    BY <2>2 DEF OnlyDetected
  <2>5. QED
    BY <2>3, <2>4
<1> HIDE DEF tail, B, D
<1>14. /\ FlattenSeq(ss) \o tail \in Seq(S)
       /\ ToSet(FlattenSeq(ss) \o tail) = B \cup D
  <2> HIDE DEF S
  <2>1. /\ FlattenSeq(ss) \o tail \in Seq(S)
        /\ ToSet(FlattenSeq(ss) \o tail) = ToSet(FlattenSeq(ss)) \cup ToSet(tail)
    BY <1>11, <1>12, ConcatSet
  <2>2. QED
    BY <1>11, <1>12, <2>1
<1>15. IsInjective(FlattenSeq(ss) \o tail)
  <2> HIDE DEF S
  <2>1. QED
    BY <1>11, <1>12, <1>13, ConcatOnce
<1>16. QED
  BY <1>2, <1>14, <1>15 DEF B, D
-----------------------------------------------------------------------------
(***************************************************************************)
(* The numbers of the profiles, step by step.                              *)
(***************************************************************************)
Mixed(classes) == {"posixAccount", "posixGroup"} \subseteq classes

\* What the blocks must leave to detection (NumbersAreFree).
LeavesNumbers(b) ==
  /\ ~ConfigNumbers(b)
  /\ \A classes \in b.classes : ~Mixed(classes)
  /\ \A k \in DOMAIN b.parts \cap Numbers : ~IsRange(b.parts[k])

\* A range is one of the attribute it is for; one whose numbers a companion
\* shares counts users and groups.
NumberParts(parts) ==
  /\ "defaults.uidNumber" \in DOMAIN parts /\ IsRange(parts["defaults.uidNumber"]) =>
       RangeFor(parts["defaults.uidNumber"], "uidNumber")
  /\ "defaults.gidNumber" \in DOMAIN parts =>
       \/ parts["defaults.gidNumber"] = Follow
       \/ IsLiteral(parts["defaults.gidNumber"])
       \/ RangeFor(parts["defaults.gidNumber"], "gidNumber")
  /\ {"companion", "defaults.uidNumber"} \subseteq DOMAIN parts =>
       (IsRange(parts["defaults.uidNumber"]) => parts["defaults.uidNumber"].unified = TRUE)

\* A range that is missing still will be one that counts both.
Merged(p) ==
  /\ DOMAIN p = BlockFields
  /\ ~Mixed(p.classes)
  /\ NumberParts(p.parts)
  /\ "companion" \in DOMAIN p.parts /\ "defaults.uidNumber" \notin DOMAIN p.parts =>
       GidFollows(p.parts)

LEMMA NumberKeys ==
  /\ "defaults.uidNumber" \in Numbers \ Widgets /\ "defaults.gidNumber" \in Numbers \ Widgets
  /\ "companion" \notin Numbers \cup Widgets
  /\ "defaults.uidNumber" # "companion" /\ "defaults.gidNumber" # "companion"
  /\ "defaults.uidNumber" # "defaults.gidNumber"
BY DEF Numbers, Widgets

LEMMA LiteralsAreNoRanges ==
  /\ ~IsRange(Follow)
  /\ \A v : IsLiteral(v) => ~IsRange(v)
  /\ \A v, attr : RangeFor(v, attr) => IsRange(v)
<1>1. ~IsRange(Follow)
  BY DEF Follow, IsRange
<1>2. ASSUME NEW v, IsLiteral(v) PROVE ~IsRange(v)
  <2>1. PICK n \in 0..MaxId : v = Literal(n)
    BY <1>2 DEF IsLiteral
  <2>2. v.how = "literal"
    BY <2>1 DEF Literal
  <2>3. QED
    BY <2>2 DEF IsRange
<1>3. \A v, attr : RangeFor(v, attr) => IsRange(v)
  BY DEF RangeFor, IsRange
<1>4. QED
  BY <1>1, <1>2, <1>3

LEMMA OneIs ==
  ASSUME NEW option, NEW otherwise
  PROVE  One(option, otherwise) \in option \/ One(option, otherwise) = otherwise
BY DEF One

LEMMA DetectedNumbers ==
  ASSUME NEW q, NEW E, DetectedProfile(q, E), IsFiniteSet(E), \A e \in E : ~Mixed(e.classes)
  PROVE  /\ ~Mixed(q.classes) /\ NumberParts(q.parts)
         /\ "companion" \in DOMAIN q.parts =>
              /\ "defaults.uidNumber" \in DOMAIN q.parts
              /\ q.parts["defaults.uidNumber"].unified = TRUE
              /\ GidFollows(q.parts)
<1>1. IsFiniteSet(q.entries) /\ \A e \in q.entries : ~Mixed(e.classes)
  BY FS_Subset DEF DetectedProfile
<1>2. ~Mixed(q.classes)
  <2>1. \A e \in q.entries : ~({"posixAccount", "posixGroup"} \subseteq e.classes)
    BY <1>1 DEF Mixed
  <2>2. ~({"posixAccount", "posixGroup"} \subseteq Majority(q.entries))
    BY <1>1, <2>1, MajorityUnmixed
  <2>3. QED
    BY <2>2 DEF Mixed, DetectedProfile
<1>3. QED
  <2>1. DetectedProfile(q, E)
    OBVIOUS
  <2>2. NumberParts(q.parts)
    BY <2>1 DEF DetectedProfile, NumberParts
  <2>3. QED
    BY <1>2, <2>1, <2>2 DEF DetectedProfile, GidFollows

\* What a block's profile is: of a detected one, some parts kept, some its own.
LEMMA TakenBlock ==
  ASSUME NEW ds, NEW cs, NEW o, Taken(ds, cs)[o] # 0
  PROVE  LET d == Taken(ds, cs)[o]
             u == Unsuppressed(ds, cs, o, d)
         IN  Trimmed(u, cs[o].suppress, BlockProfile(ds, cs, o))
<1> DEFINE d == Taken(ds, cs)[o]
           u == Unsuppressed(ds, cs, o, d)
<1>1. BlockProfile(ds, cs, o) = Suppressed(u, cs[o].suppress)
  BY MergeOneIs DEF BlockProfile
<1>2. DOMAIN u = BlockFields
  BY UnsuppressedFacts
<1> HIDE DEF u, d
<1>3. Trimmed(u, cs[o].suppress, Suppressed(u, cs[o].suppress))
  BY <1>2, SuppressedFacts DEF BlockFields
<1>4. QED
  BY <1>1, <1>3 DEF u, d

\* The numbers of a block laid over a detected profile.
LEMMA TakenNumbers ==
  ASSUME NEW ds, NEW E, Detection(ds, E), IsFiniteSet(E), \A e \in E : ~Mixed(e.classes),
         NEW cs, NEW o, LeavesNumbers(cs[o]), Taken(ds, cs)[o] \in DOMAIN ds, Taken(ds, cs)[o] # 0
  PROVE  Merged(BlockProfile(ds, cs, o))
<1> DEFINE d == Taken(ds, cs)[o]
           u == Unsuppressed(ds, cs, o, d)
           p == BlockProfile(ds, cs, o)
           b == cs[o]
           q == ds[d]
           uid == "defaults.uidNumber"
           gid == "defaults.gidNumber"
<1>1. Trimmed(u, b.suppress, p)
  BY TakenBlock
<1>2. /\ DOMAIN u = BlockFields /\ u.own = DOMAIN b.parts
      /\ u.classes = One(b.classes, q.classes)
      /\ DOMAIN u.parts = DOMAIN b.parts \cup DOMAIN q.parts
      /\ \A k \in DOMAIN b.parts : u.parts[k] = b.parts[k]
  BY UnsuppressedFacts
<1>3. \A k \in DOMAIN q.parts \ DOMAIN b.parts :
        /\ k \notin Numbers \cup Widgets => u.parts[k] = q.parts[k]
        /\ k \in Numbers /\ ~IsRange(q.parts[k]) => u.parts[k] = q.parts[k]
        /\ k \in Numbers /\ IsRange(q.parts[k]) =>
             /\ DOMAIN u.parts[k] = DOMAIN q.parts[k]
             /\ \A f \in DOMAIN u.parts[k] \ {"base", "structural"} : u.parts[k][f] = q.parts[k][f]
  BY UnsuppressedFacts
<1>4. /\ ~Mixed(q.classes) /\ NumberParts(q.parts)
      /\ "companion" \in DOMAIN q.parts =>
           /\ uid \in DOMAIN q.parts
           /\ q.parts[uid].unified = TRUE
           /\ GidFollows(q.parts)
  <2>1. DetectedProfile(q, E)
    BY DEF Detection
  <2> HIDE DEF q
  <2>2. QED
    BY <2>1, DetectedNumbers
<1>5. /\ gid \notin DOMAIN b.parts /\ "companion" \notin DOMAIN b.parts
      /\ ~({gid, uid} \subseteq b.suppress)
      /\ \A classes \in b.classes : ~Mixed(classes)
      /\ uid \in DOMAIN b.parts => ~IsRange(b.parts[uid])
  BY NumberKeys DEF LeavesNumbers, ConfigNumbers
<1>6. /\ DOMAIN p = DOMAIN u /\ p.classes = u.classes
      /\ DOMAIN p.parts = DOMAIN u.parts \ Gone(u, b.suppress)
      /\ \A k \in DOMAIN p.parts : k # "companion" => p.parts[k] = u.parts[k]
  <2> HIDE DEF u, p, b
  <2>1. QED
    BY <1>1, <1>2 DEF Trimmed, BlockFields
<1>7. Gone(u, b.suppress) = b.suppress \cap (DOMAIN u.parts \ DOMAIN b.parts)
  <2> HIDE DEF u, b
  <2>1. QED
    BY <1>2 DEF Gone
<1>8. ~Mixed(p.classes)
  <2>1. u.classes \in b.classes \/ u.classes = q.classes
    BY <1>2, OneIs
  <2>2. QED
    BY <1>4, <1>5, <1>6, <2>1
<1> HIDE DEF u, p, b, q, d
<1>9. ASSUME uid \in DOMAIN u.parts, IsRange(u.parts[uid])
      PROVE  /\ RangeFor(u.parts[uid], "uidNumber")
             /\ "companion" \in DOMAIN u.parts => u.parts[uid].unified = TRUE
  <2>1. uid \notin DOMAIN b.parts /\ uid \in DOMAIN q.parts
    BY <1>2, <1>5, <1>9
  <2>2. IsRange(q.parts[uid])
    BY <1>3, <1>9, <2>1, NumberKeys
  <2>3. /\ DOMAIN u.parts[uid] = DOMAIN q.parts[uid]
        /\ \A f \in DOMAIN u.parts[uid] \ {"base", "structural"} : u.parts[uid][f] = q.parts[uid][f]
    BY <1>3, <2>1, <2>2, NumberKeys
  <2>4. RangeFor(q.parts[uid], "uidNumber")
    BY <1>4, <2>1, <2>2 DEF NumberParts
  <2>5. u.parts[uid].how = q.parts[uid].how /\ u.parts[uid].attr = q.parts[uid].attr
        /\ u.parts[uid].unified = q.parts[uid].unified
    BY <2>3, <2>4 DEF RangeFor
  <2>6. QED
    BY <1>2, <1>4, <1>5, <2>3, <2>4, <2>5 DEF RangeFor
<1>10. ASSUME gid \in DOMAIN u.parts
       PROVE  /\ \/ u.parts[gid] = Follow \/ IsLiteral(u.parts[gid])
                 \/ RangeFor(u.parts[gid], "gidNumber")
              /\ q.parts[gid] = Follow => u.parts[gid] = Follow
              /\ gid \in DOMAIN q.parts
  <2>1. gid \notin DOMAIN b.parts /\ gid \in DOMAIN q.parts
    BY <1>2, <1>5, <1>10
  <2>2. CASE ~IsRange(q.parts[gid])
    <3>1. u.parts[gid] = q.parts[gid]
      BY <1>3, <2>1, <2>2, NumberKeys
    <3>2. QED
      BY <1>4, <2>1, <3>1 DEF NumberParts
  <2>3. CASE IsRange(q.parts[gid])
    <3>1. /\ DOMAIN u.parts[gid] = DOMAIN q.parts[gid]
          /\ \A f \in DOMAIN u.parts[gid] \ {"base", "structural"} :
               u.parts[gid][f] = q.parts[gid][f]
      BY <1>3, <2>1, <2>3, NumberKeys
    <3>2. RangeFor(q.parts[gid], "gidNumber") /\ q.parts[gid] # Follow
      BY <1>4, <2>1, <2>3, LiteralsAreNoRanges DEF NumberParts
    <3>3. u.parts[gid].how = q.parts[gid].how /\ u.parts[gid].attr = q.parts[gid].attr
      BY <3>1, <3>2 DEF RangeFor
    <3>4. QED
      BY <2>1, <3>1, <3>2, <3>3 DEF RangeFor
  <2>4. QED
    BY <2>2, <2>3
<1>11. uid \in DOMAIN p.parts => p.parts[uid] = u.parts[uid]
  BY <1>6, NumberKeys
<1>12. gid \in DOMAIN p.parts => p.parts[gid] = u.parts[gid]
  BY <1>6, NumberKeys
<1>13. NumberParts(p.parts)
  <2>1. uid \in DOMAIN p.parts /\ IsRange(p.parts[uid]) => RangeFor(p.parts[uid], "uidNumber")
    BY <1>6, <1>9, <1>11
  <2>2. gid \in DOMAIN p.parts =>
          p.parts[gid] = Follow \/ IsLiteral(p.parts[gid]) \/ RangeFor(p.parts[gid], "gidNumber")
    BY <1>6, <1>10, <1>12
  <2>3. {"companion", uid} \subseteq DOMAIN p.parts /\ IsRange(p.parts[uid])
          => p.parts[uid].unified = TRUE
    BY <1>6, <1>9, <1>11
  <2>4. QED
    BY <2>1, <2>2, <2>3 DEF NumberParts
<1>14. ASSUME "companion" \in DOMAIN p.parts, uid \notin DOMAIN p.parts PROVE GidFollows(p.parts)
  <2>1. "companion" \in DOMAIN q.parts
    BY <1>2, <1>5, <1>6, <1>14
  <2>2. uid \in DOMAIN q.parts /\ gid \in DOMAIN q.parts /\ q.parts[gid] = Follow
    BY <1>4, <2>1 DEF GidFollows
  <2>3. uid \in b.suppress
    BY <1>2, <1>6, <1>7, <1>14, <2>2
  <2>4. gid \in DOMAIN p.parts
    BY <1>2, <1>5, <1>6, <1>7, <2>2, <2>3
  <2>5. p.parts[gid] = Follow
    BY <1>6, <1>10, <1>12, <2>2, <2>4
  <2>6. QED
    BY <2>4, <2>5 DEF GidFollows
<1>15. Merged(p)
  BY <1>2, <1>6, <1>8, <1>13, <1>14 DEF Merged
<1>16. QED
  BY <1>15 DEF p

\* The numbers of whatever merge_core left.
LEMMA MergedNumbers ==
  ASSUME NEW ds, NEW E, Detection(ds, E), IsFiniteSet(E), \A e \in E : ~Mixed(e.classes),
         NEW X, NEW cs \in Seq(X), \A o \in DOMAIN cs : LeavesNumbers(cs[o]),
         NEW p \in FromBlocks(ds, cs) \cup FromDetection(ds, cs)
  PROVE  Merged(p)
<1>1. CASE p \in FromBlocks(ds, cs)
  <2>1. PICK o \in DOMAIN cs : Enabled(ds, cs, o) /\ p = BlockProfile(ds, cs, o)
    BY <1>1 DEF FromBlocks
  <2>2. LeavesNumbers(cs[o])
    BY <2>1
  <2>3. CASE Taken(ds, cs)[o] # 0
    <3>1. PICK nd \in Nat : DOMAIN ds = 1..nd
      BY DEF Detection
    <3>2. DOMAIN cs = 1..Len(cs) /\ Len(cs) \in Nat
      OBVIOUS
    <3>3. Taken(ds, cs)[o] \in DOMAIN ds
      BY <2>1, <2>3, <3>1, <3>2, TakenIs
    <3>4. QED
      BY <2>1, <2>2, <2>3, <3>3, TakenNumbers
  <2>4. CASE Taken(ds, cs)[o] = 0
    <3>1. p = Alone(ds, cs, o) /\ cs[o].classes # {}
      BY <2>1, <2>4 DEF BlockProfile, Enabled
    <3>2. DOMAIN p = BlockFields /\ p.classes = One(cs[o].classes, {}) /\ p.parts = cs[o].parts
      BY <3>1 DEF Alone, BlockFields
    <3>3. p.classes \in cs[o].classes
      BY <3>1, <3>2 DEF One
    <3>4. ~Mixed(p.classes)
      BY <2>2, <3>3 DEF LeavesNumbers
    <3>5. QED
      BY <2>2, <3>2, <3>4, NumberKeys DEF Merged, NumberParts, LeavesNumbers, ConfigNumbers
  <2>5. QED
    BY <2>3, <2>4
<1>2. CASE p \in FromDetection(ds, cs)
  <2>1. PICK d \in DOMAIN ds : p = OnlyDetected(ds, cs, d)
    BY <1>2 DEF FromDetection
  <2> DEFINE q == ds[d]
  <2>2. /\ ~Mixed(q.classes) /\ NumberParts(q.parts)
        /\ "companion" \in DOMAIN q.parts => "defaults.uidNumber" \in DOMAIN q.parts
    <3>1. DetectedProfile(q, E)
      BY DEF Detection
    <3> HIDE DEF q
    <3>2. QED
      BY <3>1, DetectedNumbers
  <2>3. /\ DOMAIN p = BlockFields /\ p.classes = q.classes
        /\ p.parts = Renamed(q.parts, ds, cs)
    BY <2>1 DEF OnlyDetected, BlockFields
  <2>4. /\ DOMAIN Renamed(q.parts, ds, cs) = DOMAIN q.parts
        /\ \A k \in DOMAIN q.parts : k \notin Widgets => Renamed(q.parts, ds, cs)[k] = q.parts[k]
    BY DEF Renamed
  <2> HIDE DEF q
  <2>5. NumberParts(p.parts)
    BY <2>2, <2>3, <2>4, NumberKeys DEF NumberParts
  <2>6. QED
    BY <2>2, <2>3, <2>4, <2>5 DEF Merged
<1>3. QED
  BY <1>1, <1>2
-----------------------------------------------------------------------------
(***************************************************************************)
(* assume.rs: what a profile is after the assumptions.                     *)
(***************************************************************************)
LEMMA MarkUnifiedFacts ==
  ASSUME NEW parts, NEW key \in DOMAIN parts
  PROVE  /\ DOMAIN MarkUnified(parts, key) = DOMAIN parts
         /\ \A k \in DOMAIN parts \ {key} : MarkUnified(parts, key)[k] = parts[k]
         /\ ~IsRange(parts[key]) => MarkUnified(parts, key)[key] = parts[key]
         /\ IsRange(parts[key]) => MarkUnified(parts, key)[key] = [parts[key] EXCEPT !.unified = TRUE]
<1>1. CASE IsRange(parts[key])
  <2>1. MarkUnified(parts, key) = [parts EXCEPT ![key] = [parts[key] EXCEPT !.unified = TRUE]]
    BY <1>1 DEF MarkUnified
  <2> DEFINE new == [parts[key] EXCEPT !.unified = TRUE]
  <2>2. MarkUnified(parts, key) = [parts EXCEPT ![key] = new]
    BY <2>1
  <2> HIDE DEF new
  <2>3. /\ DOMAIN MarkUnified(parts, key) = DOMAIN parts
        /\ \A k \in DOMAIN parts \ {key} : MarkUnified(parts, key)[k] = parts[k]
        /\ MarkUnified(parts, key)[key] = new
    BY <2>2
  <2>4. QED
    BY <1>1, <2>3 DEF new
<1>2. CASE ~IsRange(parts[key])
  BY <1>2 DEF MarkUnified
<1>3. QED
  BY <1>1, <1>2

\* Where a private group is assumed.
Private(ds, p, base, lost) ==
  /\ ~lost /\ ~Contrary(ds, p) /\ base # {}
  /\ {"defaults.gidNumber", "companion"} \cap DOMAIN p.parts = {}

Otherwise(p, q) == DOMAIN q = DOMAIN p /\ \A f \in DOMAIN p \ {"parts"} : q[f] = p[f]

WithPrivate(ds, p, base, lost, q) ==
  /\ Has(p, "posixAccount") /\ Private(ds, p, base, lost)
  /\ DOMAIN q.parts = DOMAIN p.parts \cup {"defaults.uidNumber", "defaults.gidNumber", "companion"}
  /\ q.parts["defaults.gidNumber"] = Follow /\ \E b : q.parts["companion"] = CompanionAt(b)
  /\ "defaults.uidNumber" \in DOMAIN p.parts =>
       q.parts["defaults.uidNumber"] = MarkUnified(p.parts, "defaults.uidNumber")["defaults.uidNumber"]

FilledUser(ds, p, base, lost, q) ==
  /\ Otherwise(p, q)
  /\ DOMAIN p.parts \subseteq DOMAIN q.parts
  /\ \A k \in DOMAIN p.parts \ {"defaults.uidNumber"} : q.parts[k] = p.parts[k]
  /\ "defaults.uidNumber" \in DOMAIN p.parts =>
       q.parts["defaults.uidNumber"]
         \in {p.parts["defaults.uidNumber"], MarkUnified(p.parts, "defaults.uidNumber")["defaults.uidNumber"]}
  /\ Has(p, "posixAccount") => "defaults.uidNumber" \in DOMAIN q.parts
  /\ "defaults.uidNumber" \in DOMAIN q.parts \ DOMAIN p.parts =>
       \E b, s : q.parts["defaults.uidNumber"] = RangeOf("uidNumber", b, s, GidFollows(q.parts))
  /\ \/ DOMAIN q.parts \subseteq DOMAIN p.parts \cup {"defaults.uidNumber"}
     \/ WithPrivate(ds, p, base, lost, q)

\* Rules C and D for a user's profile, as a relation.
LEMMA AssumedUserFacts ==
  ASSUME NEW ds, NEW p, "parts" \in DOMAIN p, NEW base, NEW lost
  PROVE  FilledUser(ds, p, base, lost, AssumedUser(ds, p, base, lost))
<1> DEFINE uid == "defaults.uidNumber"
           gid == "defaults.gidNumber"
           added == Over(Part(gid, Follow), Part("companion", CompanionAt(One(base, <<>>))))
           parts == IF Private(ds, p, base, lost) THEN Over(p.parts, added) ELSE p.parts
           rng == RangeOf("uidNumber", p.base, StructuralName(p), GidFollows(parts))
           new == IF uid \notin DOMAIN parts THEN Over(parts, Part(uid, rng))
                  ELSE IF Private(ds, p, base, lost) THEN MarkUnified(parts, uid) ELSE parts
           q == AssumedUser(ds, p, base, lost)
<1>1. q = IF ~Has(p, "posixAccount") THEN p ELSE [p EXCEPT !.parts = new]
  BY DEF AssumedUser, Private
<1>2. /\ DOMAIN added = {gid, "companion"}
      /\ added[gid] = Follow /\ \E b : added["companion"] = CompanionAt(b)
  <2> DEFINE a == Part(gid, Follow)
             b == Part("companion", CompanionAt(One(base, <<>>)))
  <2>1. DOMAIN a = {gid} /\ a[gid] = Follow
    BY PartFacts
  <2>2. DOMAIN b = {"companion"} /\ b["companion"] = CompanionAt(One(base, <<>>))
    BY PartFacts
  <2> HIDE DEF a, b
  <2>3. /\ DOMAIN Over(a, b) = DOMAIN a \cup DOMAIN b
        /\ \A k \in DOMAIN a : Over(a, b)[k] = a[k]
        /\ \A k \in DOMAIN b : k \notin DOMAIN a => Over(a, b)[k] = b[k]
    BY OverFacts
  <2>4. QED
    BY <2>1, <2>2, <2>3 DEF a, b
<1> HIDE DEF added
<1>3. /\ DOMAIN Over(p.parts, added) = DOMAIN p.parts \cup DOMAIN added
      /\ \A k \in DOMAIN p.parts : Over(p.parts, added)[k] = p.parts[k]
      /\ \A k \in DOMAIN added : k \notin DOMAIN p.parts => Over(p.parts, added)[k] = added[k]
  BY OverFacts
<1>4. /\ DOMAIN p.parts \subseteq DOMAIN parts
      /\ \A k \in DOMAIN p.parts : parts[k] = p.parts[k]
      /\ Private(ds, p, base, lost) =>
           /\ DOMAIN parts = DOMAIN p.parts \cup {gid, "companion"}
           /\ parts[gid] = Follow /\ \E b : parts["companion"] = CompanionAt(b)
      /\ ~Private(ds, p, base, lost) => DOMAIN parts = DOMAIN p.parts
  <2>1. CASE Private(ds, p, base, lost)
    <3>1. {gid, "companion"} \cap DOMAIN p.parts = {}
      BY <2>1 DEF Private
    <3>2. parts = Over(p.parts, added)
      BY <2>1
    <3> HIDE DEF parts
    <3>3. QED
      BY <1>2, <1>3, <2>1, <3>1, <3>2
  <2>2. CASE ~Private(ds, p, base, lost)
    BY <2>2
  <2>3. QED
    BY <2>1, <2>2
<1> HIDE DEF parts, rng
<1>5. /\ DOMAIN new = DOMAIN parts \cup {uid}
      /\ \A k \in DOMAIN parts \ {uid} : new[k] = parts[k]
      /\ uid \notin DOMAIN parts => new[uid] = rng
      /\ uid \in DOMAIN parts =>
           new[uid] = IF Private(ds, p, base, lost) THEN MarkUnified(parts, uid)[uid] ELSE parts[uid]
  <2>1. CASE uid \notin DOMAIN parts
    <3> DEFINE v == Part(uid, rng)
    <3>1. DOMAIN v = {uid} /\ v[uid] = rng
      BY PartFacts
    <3>2. new = Over(parts, v)
      BY <2>1
    <3> HIDE DEF v, new
    <3>3. /\ DOMAIN Over(parts, v) = DOMAIN parts \cup DOMAIN v
          /\ \A k \in DOMAIN parts : Over(parts, v)[k] = parts[k]
          /\ \A k \in DOMAIN v : k \notin DOMAIN parts => Over(parts, v)[k] = v[k]
      BY OverFacts
    <3>4. QED
      BY <2>1, <3>1, <3>2, <3>3
  <2>2. CASE uid \in DOMAIN parts /\ Private(ds, p, base, lost)
    <3>1. new = MarkUnified(parts, uid)
      BY <2>2
    <3> HIDE DEF new
    <3>2. QED
      BY <2>2, <3>1, MarkUnifiedFacts
  <2>3. CASE uid \in DOMAIN parts /\ ~Private(ds, p, base, lost)
    BY <2>3
  <2>4. QED
    BY <2>1, <2>2, <2>3
<1> HIDE DEF new
<1>6. CASE Has(p, "posixAccount")
  <2>1. DOMAIN q = DOMAIN p /\ q.parts = new /\ \A f \in DOMAIN p \ {"parts"} : q[f] = p[f]
    BY <1>1, <1>6
  <2>2. uid # gid /\ uid # "companion" /\ gid # "companion"
    OBVIOUS
  <2>3. uid \in DOMAIN parts <=> uid \in DOMAIN p.parts
    BY <1>4, <2>2
  <2>4. uid \in DOMAIN p.parts => MarkUnified(parts, uid)[uid] = MarkUnified(p.parts, uid)[uid]
    <3> SUFFICES ASSUME uid \in DOMAIN p.parts
                 PROVE  MarkUnified(parts, uid)[uid] = MarkUnified(p.parts, uid)[uid]
      OBVIOUS
    <3>1. parts[uid] = p.parts[uid] /\ uid \in DOMAIN parts
      BY <1>4
    <3>2. CASE IsRange(p.parts[uid])
      <4> DEFINE old == p.parts
      <4>1. uid \in DOMAIN old /\ IsRange(old[uid]) /\ parts[uid] = old[uid]
        BY <3>1, <3>2
      <4> HIDE DEF old
      <4>2. /\ MarkUnified(parts, uid)[uid] = [parts[uid] EXCEPT !.unified = TRUE]
            /\ MarkUnified(old, uid)[uid] = [old[uid] EXCEPT !.unified = TRUE]
        BY <3>1, <4>1, MarkUnifiedFacts
      <4>3. MarkUnified(parts, uid)[uid] = MarkUnified(old, uid)[uid]
        BY <4>1, <4>2
      <4>4. QED
        BY <4>3 DEF old
    <3>3. CASE ~IsRange(p.parts[uid])
      BY <3>1, <3>3, MarkUnifiedFacts
    <3>4. QED
      BY <3>2, <3>3
  <2>5. GidFollows(parts) <=> GidFollows(q.parts)
    BY <1>5, <2>1, <2>2 DEF GidFollows
  <2>6. uid \in DOMAIN q.parts \ DOMAIN p.parts =>
           \E b, s : q.parts[uid] = RangeOf("uidNumber", b, s, GidFollows(q.parts))
    <3> SUFFICES ASSUME uid \in DOMAIN q.parts \ DOMAIN p.parts
                 PROVE  \E b, s : q.parts[uid] = RangeOf("uidNumber", b, s, GidFollows(q.parts))
      OBVIOUS
    <3>1. q.parts[uid] = rng
      BY <1>5, <2>1, <2>3
    <3>2. rng = RangeOf("uidNumber", p.base, StructuralName(p), GidFollows(parts))
      BY DEF rng
    <3>3. rng = RangeOf("uidNumber", p.base, StructuralName(p), GidFollows(q.parts))
      <4>1. GidFollows(parts) = GidFollows(q.parts)
        BY <2>5 DEF GidFollows
      <4>2. QED
        BY <3>2, <4>1
    <3> HIDE DEF q
    <3>4. QED
      BY <3>1, <3>3
  <2>7. Otherwise(p, q)
    BY <2>1 DEF Otherwise
  <2>8. /\ DOMAIN p.parts \subseteq DOMAIN q.parts
        /\ \A k \in DOMAIN p.parts \ {uid} : q.parts[k] = p.parts[k]
        /\ uid \in DOMAIN q.parts
    BY <1>4, <1>5, <2>1
  <2>9. uid \in DOMAIN p.parts =>
           q.parts[uid] \in {p.parts[uid], MarkUnified(p.parts, uid)[uid]}
    BY <1>4, <1>5, <2>1, <2>3, <2>4
  <2>10. CASE Private(ds, p, base, lost)
    <3>1. DOMAIN q.parts = DOMAIN p.parts \cup {uid, gid, "companion"}
      BY <1>4, <1>5, <2>1, <2>10
    <3>2. q.parts[gid] = Follow /\ \E b : q.parts["companion"] = CompanionAt(b)
      BY <1>4, <1>5, <2>1, <2>2, <2>10
    <3>3. uid \in DOMAIN p.parts => q.parts[uid] = MarkUnified(p.parts, uid)[uid]
      BY <1>5, <2>1, <2>3, <2>4, <2>10
    <3> HIDE DEF q
    <3>4. WithPrivate(ds, p, base, lost, q)
      BY <1>6, <2>10, <3>1, <3>2, <3>3, Zenon DEF WithPrivate
    <3>5. FilledUser(ds, p, base, lost, q)
      BY <2>6, <2>7, <2>8, <2>9, <3>4, Zenon DEF FilledUser
    <3>6. QED
      BY <3>5 DEF q
  <2>11. CASE ~Private(ds, p, base, lost)
    <3>1. DOMAIN q.parts \subseteq DOMAIN p.parts \cup {uid}
      BY <1>4, <1>5, <2>1, <2>11
    <3> HIDE DEF q
    <3>2. FilledUser(ds, p, base, lost, q)
      BY <2>6, <2>7, <2>8, <2>9, <3>1, Zenon DEF FilledUser
    <3>3. QED
      BY <3>2 DEF q
  <2>12. QED
    BY <2>10, <2>11
<1>7. CASE ~Has(p, "posixAccount")
  <2>1. q = p
    BY <1>1, <1>7
  <2>2. FilledUser(ds, p, base, lost, p)
    BY <1>7 DEF FilledUser, Otherwise
  <2>3. QED
    BY <2>1, <2>2
<1>8. QED
  BY <1>6, <1>7

FilledGroup(p, q) ==
  /\ Otherwise(p, q)
  /\ DOMAIN p.parts \subseteq DOMAIN q.parts
  /\ DOMAIN q.parts \subseteq DOMAIN p.parts \cup {"defaults.gidNumber"}
  /\ \A k \in DOMAIN p.parts \ {"defaults.gidNumber"} : q.parts[k] = p.parts[k]
  /\ "defaults.gidNumber" \in DOMAIN p.parts =>
       q.parts["defaults.gidNumber"]
         \in {p.parts["defaults.gidNumber"], MarkUnified(p.parts, "defaults.gidNumber")["defaults.gidNumber"]}
  /\ "defaults.gidNumber" \in DOMAIN q.parts \ DOMAIN p.parts =>
       \E b, s, u : q.parts["defaults.gidNumber"] = RangeOf("gidNumber", b, s, u)

\* And those for a group's.
LEMMA AssumedGroupFacts ==
  ASSUME NEW p, "parts" \in DOMAIN p, NEW unified
  PROVE  FilledGroup(p, AssumedGroup(p, unified))
<1> DEFINE gid == "defaults.gidNumber"
           rng == RangeOf("gidNumber", p.base, StructuralName(p), unified)
           new == IF gid \notin DOMAIN p.parts THEN Over(p.parts, Part(gid, rng))
                  ELSE IF unified THEN MarkUnified(p.parts, gid) ELSE p.parts
           q == AssumedGroup(p, unified)
<1>1. q = IF ~Has(p, "posixGroup") THEN p ELSE [p EXCEPT !.parts = new]
  BY DEF AssumedGroup
<1>2. \E b, s, u : rng = RangeOf("gidNumber", b, s, u)
  OBVIOUS
<1> HIDE DEF rng
<1>3. /\ DOMAIN new = DOMAIN p.parts \cup {gid}
      /\ \A k \in DOMAIN p.parts \ {gid} : new[k] = p.parts[k]
      /\ gid \notin DOMAIN p.parts => new[gid] = rng
      /\ gid \in DOMAIN p.parts => new[gid] \in {p.parts[gid], MarkUnified(p.parts, gid)[gid]}
  <2>1. CASE gid \notin DOMAIN p.parts
    <3> DEFINE v == Part(gid, rng)
               parts == p.parts
    <3>1. DOMAIN v = {gid} /\ v[gid] = rng
      BY PartFacts
    <3>2. new = Over(parts, v)
      BY <2>1
    <3> HIDE DEF v, new, parts
    <3>3. /\ DOMAIN Over(parts, v) = DOMAIN parts \cup DOMAIN v
          /\ \A k \in DOMAIN parts : Over(parts, v)[k] = parts[k]
          /\ \A k \in DOMAIN v : k \notin DOMAIN parts => Over(parts, v)[k] = v[k]
      BY OverFacts
    <3>4. QED
      BY <2>1, <3>1, <3>2, <3>3 DEF parts
  <2>2. CASE gid \in DOMAIN p.parts /\ unified
    <3> DEFINE old == p.parts
    <3>1. new = MarkUnified(old, gid) /\ gid \in DOMAIN old
      BY <2>2
    <3> HIDE DEF new, old
    <3>2. /\ DOMAIN MarkUnified(old, gid) = DOMAIN old
          /\ \A k \in DOMAIN old \ {gid} : MarkUnified(old, gid)[k] = old[k]
      BY <3>1, MarkUnifiedFacts
    <3>3. QED
      BY <3>1, <3>2 DEF old
  <2>3. CASE gid \in DOMAIN p.parts /\ ~unified
    BY <2>3
  <2>4. QED
    BY <2>1, <2>2, <2>3
<1> HIDE DEF new
<1>4. CASE Has(p, "posixGroup")
  <2>1. DOMAIN q = DOMAIN p /\ q.parts = new /\ \A f \in DOMAIN p \ {"parts"} : q[f] = p[f]
    BY <1>1, <1>4
  <2> HIDE DEF q
  <2>2. Otherwise(p, q)
    BY <2>1 DEF Otherwise
  <2>3. /\ DOMAIN p.parts \subseteq DOMAIN q.parts /\ DOMAIN q.parts \subseteq DOMAIN p.parts \cup {gid}
        /\ \A k \in DOMAIN p.parts \ {gid} : q.parts[k] = p.parts[k]
    BY <1>3, <2>1
  <2>4. gid \in DOMAIN p.parts =>
          q.parts[gid] \in {p.parts[gid], MarkUnified(p.parts, gid)[gid]}
    BY <1>3, <2>1
  <2>5. gid \in DOMAIN q.parts \ DOMAIN p.parts =>
          \E b, s, u : q.parts[gid] = RangeOf("gidNumber", b, s, u)
    BY <1>2, <1>3, <2>1
  <2>6. FilledGroup(p, q)
    BY <2>2, <2>3, <2>4, <2>5, Zenon DEF FilledGroup
  <2>7. QED
    BY <2>6 DEF q
<1>5. CASE ~Has(p, "posixGroup")
  <2>1. q = p
    BY <1>1, <1>5
  <2>2. FilledGroup(p, p)
    BY DEF FilledGroup, Otherwise
  <2>3. QED
    BY <2>1, <2>2
<1>6. QED
  BY <1>4, <1>5

LEMMA MarkedRange ==
  ASSUME NEW parts, NEW key \in DOMAIN parts, NEW attr,
         IsRange(parts[key]) => RangeFor(parts[key], attr)
  PROVE  LET v == MarkUnified(parts, key)[key]
         IN  /\ ~IsRange(parts[key]) => v = parts[key]
             /\ IsRange(parts[key]) => RangeFor(v, attr) /\ v.unified = TRUE
<1> DEFINE old == parts[key]
           v == MarkUnified(parts, key)[key]
<1>1. CASE IsRange(old)
  <2>1. v = [old EXCEPT !.unified = TRUE]
    BY <1>1, MarkUnifiedFacts
  <2>2. RangeFor(old, attr)
    BY <1>1
  <2> HIDE DEF old, v
  <2>3. DOMAIN v = DOMAIN old /\ v.unified = TRUE /\ v.how = old.how /\ v.attr = old.attr
    BY <2>1, <2>2 DEF RangeFor
  <2>4. RangeFor(v, attr) /\ v.unified = TRUE
    BY <2>2, <2>3 DEF RangeFor
  <2>5. QED
    BY <1>1, <2>4 DEF old, v
<1>2. CASE ~IsRange(old)
  BY <1>2, MarkUnifiedFacts
<1>3. QED
  BY <1>1, <1>2

LEMMA UserNumbers ==
  ASSUME NEW ds, NEW p, NEW base, NEW lost, NEW q, Merged(p), FilledUser(ds, p, base, lost, q)
  PROVE  DOMAIN q = BlockFields /\ q.classes = p.classes /\ NumberParts(q.parts)
<1> DEFINE uid == "defaults.uidNumber"
           gid == "defaults.gidNumber"
           v == MarkUnified(p.parts, uid)[uid]
<1>1. DOMAIN q = BlockFields /\ q.classes = p.classes
  BY DEF Merged, FilledUser, Otherwise, BlockFields
<1>2. uid \in DOMAIN p.parts =>
        /\ IsRange(p.parts[uid]) => RangeFor(p.parts[uid], "uidNumber")
        /\ ~IsRange(p.parts[uid]) => v = p.parts[uid]
        /\ IsRange(p.parts[uid]) => RangeFor(v, "uidNumber") /\ v.unified = TRUE
  <2> SUFFICES ASSUME uid \in DOMAIN p.parts
               PROVE  /\ IsRange(p.parts[uid]) => RangeFor(p.parts[uid], "uidNumber")
                      /\ ~IsRange(p.parts[uid]) => v = p.parts[uid]
                      /\ IsRange(p.parts[uid]) => RangeFor(v, "uidNumber") /\ v.unified = TRUE
    OBVIOUS
  <2>1. IsRange(p.parts[uid]) => RangeFor(p.parts[uid], "uidNumber")
    BY DEF Merged, NumberParts
  <2> DEFINE old == p.parts
  <2>2. uid \in DOMAIN old /\ (IsRange(old[uid]) => RangeFor(old[uid], "uidNumber"))
    BY <2>1
  <2> HIDE DEF old
  <2>3. LET w == MarkUnified(old, uid)[uid]
        IN  /\ ~IsRange(old[uid]) => w = old[uid]
            /\ IsRange(old[uid]) => RangeFor(w, "uidNumber") /\ w.unified = TRUE
    BY <2>2, MarkedRange
  <2>4. QED
    BY <2>1, <2>3 DEF old
<1> HIDE DEF v
<1>3. uid \in DOMAIN p.parts => q.parts[uid] \in {p.parts[uid], v}
  BY DEF FilledUser, v
<1>4. uid \in DOMAIN q.parts \ DOMAIN p.parts =>
        /\ RangeFor(q.parts[uid], "uidNumber")
        /\ GidFollows(q.parts) => q.parts[uid].unified = TRUE
  <2> SUFFICES ASSUME uid \in DOMAIN q.parts \ DOMAIN p.parts
               PROVE  /\ RangeFor(q.parts[uid], "uidNumber")
                      /\ GidFollows(q.parts) => q.parts[uid].unified = TRUE
    OBVIOUS
  <2>1. PICK b, s : q.parts[uid] = RangeOf("uidNumber", b, s, GidFollows(q.parts))
    BY DEF FilledUser
  <2>2. RangeFor(q.parts[uid], "uidNumber") /\ q.parts[uid].unified = GidFollows(q.parts)
    BY <2>1, RangeOfFacts
  <2>3. GidFollows(q.parts) \in BOOLEAN
    BY DEF GidFollows
  <2>4. QED
    BY <2>2, <2>3
<1>5. uid \in DOMAIN q.parts /\ IsRange(q.parts[uid]) => RangeFor(q.parts[uid], "uidNumber")
  BY <1>2, <1>3, <1>4
<1>6. DOMAIN p.parts \subseteq DOMAIN q.parts /\ \A k \in DOMAIN p.parts \ {uid} : q.parts[k] = p.parts[k]
  BY DEF FilledUser
<1>7. uid # gid /\ uid # "companion" /\ gid # "companion"
  OBVIOUS
<1>8. CASE DOMAIN q.parts \subseteq DOMAIN p.parts \cup {uid}
  <2>1. gid \in DOMAIN q.parts =>
          q.parts[gid] = Follow \/ IsLiteral(q.parts[gid]) \/ RangeFor(q.parts[gid], "gidNumber")
    BY <1>6, <1>7, <1>8 DEF Merged, NumberParts
  <2>2. ASSUME {"companion", uid} \subseteq DOMAIN q.parts, IsRange(q.parts[uid])
        PROVE  q.parts[uid].unified = TRUE
    <3>1. "companion" \in DOMAIN p.parts
      BY <1>7, <1>8, <2>2
    <3>2. CASE uid \in DOMAIN p.parts
      <4>1. IsRange(p.parts[uid])
        BY <1>2, <1>3, <2>2, <3>2
      <4>2. p.parts[uid].unified = TRUE
        BY <3>1, <3>2, <4>1 DEF Merged, NumberParts
      <4>3. QED
        BY <1>2, <1>3, <3>2, <4>1, <4>2
    <3>3. CASE uid \notin DOMAIN p.parts
      <4>1. GidFollows(p.parts)
        BY <3>1, <3>3 DEF Merged
      <4>2. GidFollows(q.parts)
        BY <1>6, <1>7, <4>1 DEF GidFollows
      <4>3. QED
        BY <1>4, <2>2, <3>3, <4>2
    <3>4. QED
      BY <3>2, <3>3
  <2>3. NumberParts(q.parts)
    BY <1>5, <2>1, <2>2 DEF NumberParts
  <2>4. QED
    BY <1>1, <2>3
<1>9. CASE WithPrivate(ds, p, base, lost, q)
  <2>1. gid \in DOMAIN q.parts /\ q.parts[gid] = Follow
    BY <1>9 DEF WithPrivate
  <2>2. GidFollows(q.parts)
    BY <2>1 DEF GidFollows
  <2>3. ASSUME {"companion", uid} \subseteq DOMAIN q.parts, IsRange(q.parts[uid])
        PROVE  q.parts[uid].unified = TRUE
    <3>1. CASE uid \in DOMAIN p.parts
      <4>1. q.parts[uid] = v
        BY <1>9, <3>1 DEF WithPrivate, v
      <4>2. QED
        BY <1>2, <2>3, <3>1, <4>1
    <3>2. CASE uid \notin DOMAIN p.parts
      BY <1>4, <2>2, <2>3, <3>2
    <3>3. QED
      BY <3>1, <3>2
  <2>4. NumberParts(q.parts)
    BY <1>5, <2>1, <2>3 DEF NumberParts
  <2>5. QED
    BY <1>1, <2>4
<1>10. QED
  BY <1>8, <1>9 DEF FilledUser

LEMMA GroupNumbers ==
  ASSUME NEW p, NEW q, DOMAIN p = BlockFields, NumberParts(p.parts), FilledGroup(p, q)
  PROVE  DOMAIN q = BlockFields /\ q.classes = p.classes /\ NumberParts(q.parts)
<1> DEFINE uid == "defaults.uidNumber"
           gid == "defaults.gidNumber"
           old == p.parts
           v == MarkUnified(old, gid)[gid]
<1>1. DOMAIN q = BlockFields /\ q.classes = p.classes
  BY DEF FilledGroup, Otherwise, BlockFields
<1>2. gid \in DOMAIN old =>
        old[gid] = Follow \/ IsLiteral(old[gid]) \/ RangeFor(old[gid], "gidNumber")
  BY DEF NumberParts
<1>3. gid \in DOMAIN old => q.parts[gid] \in {old[gid], v}
  BY DEF FilledGroup
<1> HIDE DEF old
<1>4. gid \in DOMAIN old =>
        v = Follow \/ IsLiteral(v) \/ RangeFor(v, "gidNumber")
  <2> SUFFICES ASSUME gid \in DOMAIN old PROVE v = Follow \/ IsLiteral(v) \/ RangeFor(v, "gidNumber")
    OBVIOUS
  <2>1. IsRange(old[gid]) => RangeFor(old[gid], "gidNumber")
    BY <1>2, LiteralsAreNoRanges
  <2>2. /\ ~IsRange(old[gid]) => v = old[gid]
        /\ IsRange(old[gid]) => RangeFor(v, "gidNumber") /\ v.unified = TRUE
    BY <2>1, MarkedRange
  <2> HIDE DEF v
  <2>3. QED
    BY <1>2, <2>2, Zenon
<1> HIDE DEF v
<1>5. gid \in DOMAIN q.parts \ DOMAIN old => RangeFor(q.parts[gid], "gidNumber")
  <2> SUFFICES ASSUME gid \in DOMAIN q.parts \ DOMAIN old PROVE RangeFor(q.parts[gid], "gidNumber")
    OBVIOUS
  <2>1. PICK b, s, u : q.parts[gid] = RangeOf("gidNumber", b, s, u)
    BY DEF FilledGroup, old
  <2>2. QED
    BY <2>1, RangeOfFacts
<1>6. gid \in DOMAIN q.parts =>
        q.parts[gid] = Follow \/ IsLiteral(q.parts[gid]) \/ RangeFor(q.parts[gid], "gidNumber")
  <2>1. CASE gid \in DOMAIN old
    <3>1. q.parts[gid] = old[gid] \/ q.parts[gid] = v
      BY <1>3, <2>1
    <3>2. QED
      BY <1>2, <1>4, <2>1, <3>1
  <2>2. QED
    BY <1>5, <2>1
<1>7. uid # gid /\ uid # "companion" /\ gid # "companion"
  OBVIOUS
<1>8. /\ DOMAIN q.parts \subseteq DOMAIN p.parts \cup {gid}
      /\ \A k \in DOMAIN p.parts \ {gid} : q.parts[k] = p.parts[k]
  BY DEF FilledGroup
<1>9. NumberParts(q.parts)
  BY <1>6, <1>7, <1>8 DEF NumberParts
<1>10. QED
  BY <1>1, <1>9

\* Parts that are taken away, or lose an attribute, leave the numbers as they are.
LEMMA FewerNumbers ==
  ASSUME NEW parts, NumberParts(parts), NEW rest, DOMAIN rest \subseteq DOMAIN parts,
         \A k \in DOMAIN rest \ {"companion"} : rest[k] = parts[k]
  PROVE  NumberParts(rest)
BY NumberKeys DEF NumberParts

Filled(ds, p, lost, r) ==
  \E base, q : FilledUser(ds, p, base, lost, q) /\ FilledGroup(q, r)

LEMMA AssumedIs ==
  ASSUME NEW ds, NEW m, NEW ou, NEW lost, NEW i \in DOMAIN m, "parts" \in DOMAIN m[i]
  PROVE  /\ DOMAIN Assumed(ds, m, ou, lost) = DOMAIN m
         /\ Filled(ds, m[i], lost, Assumed(ds, m, ou, lost)[i])
<1> DEFINE base == GroupBase(ds, m, ou)
           users == [k \in DOMAIN m |-> AssumedUser(ds, m[k], base, lost)]
           unified == \E k \in DOMAIN users : Has(users[k], "posixAccount") /\ GidFollows(users[k].parts)
           p == m[i]
           q == AssumedUser(ds, p, base, lost)
<1>1. Assumed(ds, m, ou, lost) = [k \in DOMAIN m |-> AssumedGroup(users[k], unified)]
  BY DEF Assumed
<1> HIDE DEF base, unified
<1>2. users[i] = q
  OBVIOUS
<1> HIDE DEF users
<1>3. Assumed(ds, m, ou, lost)[i] = AssumedGroup(q, unified)
  BY <1>1, <1>2
<1>4. "parts" \in DOMAIN p
  OBVIOUS
<1> HIDE DEF p
<1>5. FilledUser(ds, p, base, lost, q)
  BY <1>4, AssumedUserFacts
<1>6. "parts" \in DOMAIN q
  BY <1>4, <1>5 DEF FilledUser, Otherwise
<1> HIDE DEF q
<1>7. FilledGroup(q, AssumedGroup(q, unified))
  BY <1>6, AssumedGroupFacts
<1>8. Filled(ds, p, lost, AssumedGroup(q, unified))
  BY <1>5, <1>7 DEF Filled
<1>9. QED
  BY <1>1, <1>3, <1>8 DEF p

LEMMA FlushedIs ==
  ASSUME NEW m, NEW i \in DOMAIN m, {"parts", "pending"} \subseteq DOMAIN m[i]
  PROVE  DOMAIN Flushed(m) = DOMAIN m /\ Trimmed(m[i], m[i].pending, Flushed(m)[i])
<1> DEFINE p == m[i]
<1>1. DOMAIN Flushed(m) = DOMAIN m /\ Flushed(m)[i] = Suppressed(p, p.pending)
  BY DEF Flushed
<1>2. {"parts", "pending"} \subseteq DOMAIN p
  OBVIOUS
<1> HIDE DEF p
<1>3. Trimmed(p, p.pending, Suppressed(p, p.pending))
  BY <1>2, SuppressedFacts
<1>4. QED
  BY <1>1, <1>3 DEF p

LEMMA ValidatedIs ==
  ASSUME NEW m, NEW i \in DOMAIN m, "parts" \in DOMAIN m[i]
  PROVE  /\ DOMAIN Validated(m) = DOMAIN m
         /\ Otherwise(m[i], Validated(m)[i])
         /\ DOMAIN Validated(m)[i].parts = DOMAIN m[i].parts \ Unknown(m, i)
         /\ \A k \in DOMAIN Validated(m)[i].parts : Validated(m)[i].parts[k] = m[i].parts[k]
<1> DEFINE p == m[i]
           new == [k \in DOMAIN p.parts \ Unknown(m, i) |-> p.parts[k]]
           q == Validated(m)[i]
<1>1. DOMAIN Validated(m) = DOMAIN m /\ q = [p EXCEPT !.parts = new]
  BY DEF Validated
<1>2. DOMAIN new = DOMAIN p.parts \ Unknown(m, i) /\ \A k \in DOMAIN new : new[k] = p.parts[k]
  OBVIOUS
<1>3. "parts" \in DOMAIN p
  OBVIOUS
<1> HIDE DEF p, new, q
<1>4. DOMAIN q = DOMAIN p /\ q.parts = new /\ \A f \in DOMAIN p \ {"parts"} : q[f] = p[f]
  BY <1>1, <1>3
<1>5. Otherwise(p, q) /\ DOMAIN q.parts = DOMAIN p.parts \ Unknown(m, i)
      /\ \A k \in DOMAIN q.parts : q.parts[k] = p.parts[k]
  BY <1>2, <1>4 DEF Otherwise
<1>6. QED
  BY <1>1, <1>5 DEF p, q

\* A profile in effect, and what it was before it was filled up, flushed and
\* validated.
InEffect(ds, p, lost, t) ==
  \E r, w : /\ Filled(ds, p, lost, r) /\ Trimmed(r, r.pending, w)
            /\ Otherwise(w, t)
            /\ DOMAIN t.parts \subseteq DOMAIN w.parts
            /\ DOMAIN w.parts \ DOMAIN t.parts \subseteq Widgets
            /\ \A k \in DOMAIN t.parts : t.parts[k] = w.parts[k]

AfterFlush(ds, p, lost, w) ==
  \E r : Filled(ds, p, lost, r) /\ Trimmed(r, r.pending, w)

\* All that happens to a merged profile until it is in effect.
LEMMA EffectIs ==
  ASSUME NEW ds, NEW m, NEW ou, NEW lost, NEW i \in DOMAIN m,
         \A j \in DOMAIN m : DOMAIN m[j] = BlockFields
  PROVE  LET w == WithAssumptions(ds, m, ou, lost)
         IN  /\ DOMAIN w = DOMAIN m /\ DOMAIN Validated(w) = DOMAIN m
             /\ InEffect(ds, m[i], lost, Validated(w)[i])
             /\ AfterFlush(ds, m[i], lost, w[i])
             /\ Otherwise(w[i], Validated(w)[i])
             /\ DOMAIN Validated(w)[i].parts = DOMAIN w[i].parts \ Unknown(w, i)
             /\ \A k \in DOMAIN Validated(w)[i].parts : Validated(w)[i].parts[k] = w[i].parts[k]
<1> DEFINE a == Assumed(ds, m, ou, lost)
           w == WithAssumptions(ds, m, ou, lost)
           r == a[i]
           v == w[i]
           t == Validated(w)[i]
           p == m[i]
<1>1. DOMAIN p = BlockFields /\ "parts" \in DOMAIN p /\ "pending" \in DOMAIN p
  BY DEF BlockFields
<1>2. DOMAIN a = DOMAIN m /\ Filled(ds, p, lost, r)
  BY <1>1, AssumedIs
<1>3. w = Flushed(a)
  BY DEF WithAssumptions
<1>4. DOMAIN r = DOMAIN p
  <2> HIDE DEF r, p
  <2>1. QED
    BY <1>2 DEF Filled, FilledUser, FilledGroup, Otherwise
<1>5. DOMAIN w = DOMAIN a /\ Trimmed(r, r.pending, v)
  <2> HIDE DEF a, p, w
  <2>1. i \in DOMAIN a /\ {"parts", "pending"} \subseteq DOMAIN a[i]
    BY <1>1, <1>2, <1>4
  <2>2. DOMAIN Flushed(a) = DOMAIN a /\ Trimmed(a[i], a[i].pending, Flushed(a)[i])
    BY <2>1, FlushedIs
  <2>3. QED
    BY <1>3, <2>2
<1> HIDE DEF a, w
<1>6. "parts" \in DOMAIN w[i]
  <2> HIDE DEF r, p
  <2>1. QED
    BY <1>1, <1>4, <1>5 DEF Trimmed
<1>7. /\ DOMAIN Validated(w) = DOMAIN w
      /\ Otherwise(w[i], t)
      /\ DOMAIN t.parts = DOMAIN w[i].parts \ Unknown(w, i)
      /\ \A k \in DOMAIN t.parts : t.parts[k] = w[i].parts[k]
  <2>1. i \in DOMAIN w
    BY <1>2, <1>5
  <2>2. QED
    BY <1>6, <2>1, ValidatedIs
<1>8. Unknown(w, i) \subseteq Widgets
  BY DEF Unknown
<1>9. InEffect(ds, p, lost, t)
  <2> HIDE DEF p, t, r
  <2>1. QED
    BY <1>2, <1>5, <1>7, <1>8 DEF InEffect
<1>10. AfterFlush(ds, p, lost, v)
  <2> HIDE DEF p, t, r, v
  <2>1. QED
    BY <1>2, <1>5 DEF AfterFlush
<1>11. QED
  BY <1>2, <1>5, <1>7, <1>9, <1>10 DEF w

\* The assumptions leave a profile its name, its block and what the config set.
LEMMA CarriedOver ==
  ASSUME NEW ds, NEW p, DOMAIN p = BlockFields, NEW lost, NEW v, AfterFlush(ds, p, lost, v)
  PROVE  /\ DOMAIN v = BlockFields /\ v.name = p.name /\ v.classes = p.classes
         /\ v.own = p.own /\ v.of = p.of /\ v.by = p.by
<1>1. PICK r : Filled(ds, p, lost, r) /\ Trimmed(r, r.pending, v)
  BY DEF AfterFlush
<1>2. PICK base, q : FilledUser(ds, p, base, lost, q) /\ FilledGroup(q, r)
  BY <1>1 DEF Filled
<1>3. DOMAIN q = BlockFields /\ \A f \in BlockFields \ {"parts"} : q[f] = p[f]
  BY <1>2 DEF FilledUser, Otherwise
<1>4. DOMAIN r = BlockFields /\ \A f \in BlockFields \ {"parts"} : r[f] = q[f]
  BY <1>2, <1>3 DEF FilledGroup, Otherwise
<1>5. DOMAIN v = BlockFields /\ \A f \in BlockFields \ {"parts", "pending"} : v[f] = r[f]
  BY <1>1, <1>4 DEF Trimmed
<1>6. {"name", "classes", "own", "of", "by"} \subseteq BlockFields \ {"parts", "pending"}
  BY DEF BlockFields
<1>7. QED
  BY <1>3, <1>4, <1>5, <1>6

InOrder(p) == DOMAIN p = BlockFields /\ ~Mixed(p.classes) /\ NumberParts(p.parts)

\* So its numbers stay in order.
LEMMA EffectiveNumbers ==
  ASSUME NEW ds, NEW p, NEW lost, NEW t, Merged(p), InEffect(ds, p, lost, t)
  PROVE  InOrder(t)
<1>1. PICK r, w : /\ Filled(ds, p, lost, r) /\ Trimmed(r, r.pending, w)
                  /\ Otherwise(w, t)
                  /\ DOMAIN t.parts \subseteq DOMAIN w.parts
                  /\ \A k \in DOMAIN t.parts : t.parts[k] = w.parts[k]
  BY DEF InEffect
<1>2. PICK base, q : FilledUser(ds, p, base, lost, q) /\ FilledGroup(q, r)
  BY <1>1 DEF Filled
<1>3. DOMAIN q = BlockFields /\ q.classes = p.classes /\ NumberParts(q.parts)
  BY <1>2, UserNumbers
<1>4. DOMAIN r = BlockFields /\ r.classes = q.classes /\ NumberParts(r.parts)
  BY <1>2, <1>3, GroupNumbers
<1>5. /\ DOMAIN w = DOMAIN r /\ w.classes = r.classes
      /\ DOMAIN w.parts \subseteq DOMAIN r.parts
      /\ \A k \in DOMAIN w.parts \ {"companion"} : w.parts[k] = r.parts[k]
  BY <1>1, <1>4 DEF Trimmed, BlockFields
<1>6. NumberParts(w.parts)
  BY <1>4, <1>5, FewerNumbers
<1>7. DOMAIN t = DOMAIN w /\ t.classes = w.classes
  BY <1>1, <1>4, <1>5 DEF Otherwise, BlockFields
<1>8. NumberParts(t.parts)
  BY <1>1, <1>6, FewerNumbers
<1>9. QED
  BY <1>3, <1>4, <1>5, <1>7, <1>8 DEF InOrder, Merged
-----------------------------------------------------------------------------
(***************************************************************************)
(* The load, step by step: what is sampled, and what each step made of it. *)
(***************************************************************************)
SampleFields == {"containers", "found", "lookedUp", "ou", "incomplete"}

Dns(cs) == [i \in DOMAIN cs |-> cs[i].dn]

\* The containers that were sampled are containers that hold these entries;
\* unless something is known to be missing, they are all there are.
SampleOK ==
  /\ DOMAIN sample = SampleFields
  /\ todo \in Seq(ToSet(Order))
  /\ phase # "ready" => sample.containers \in Seq([dn : ToSet(Order), entries : SUBSET dir])
  /\ phase \in {"search", "fallback"} => sample.containers = <<>>
  /\ phase \notin {"search", "fallback", "ready"} /\ ~failed /\ ~sample.incomplete =>
       /\ Dns(sample.containers) \o todo = Populated
       /\ phase # "sample" => todo = <<>>

Detected ==
  /\ detected = OtherParts(PosixParts(Infer(sample), sample))
  /\ \E D \in Directories : Detection(detected, D)

Assuming == WithAssumptions(detected, MergeCore(detected, config), sample.ou, failed)

\* Each step of assemble is the one function of what the others left.
StepsOK ==
  /\ config \in Configs
  /\ phase # "ready" => dir \in Directories
  /\ phase \in {"merge", "assume", "validate", "refused", "ready"} => Detected
  /\ phase = "assume" => profiles = MergeCore(detected, config)
  /\ phase \in {"validate", "refused"} => profiles = Assuming
  /\ phase = "refused" => Refused(profiles, failed \/ sample.incomplete)
  /\ phase = "ready" => /\ profiles = Validated(Assuming)
                        /\ ~Refused(Assuming, failed \/ sample.incomplete)

LoadInv == SampleOK /\ StepsOK

LEMMA LoadStart == LoadInit => LoadInv
<1> SUFFICES ASSUME LoadInit PROVE LoadInv
  OBVIOUS
<1>1. DOMAIN sample = SampleFields /\ sample.containers = <<>> /\ todo = <<>> /\ phase = "search"
  BY DEF LoadInit, SampleFields
<1>2. SampleOK
  BY <1>1 DEF SampleOK
<1>3. StepsOK
  BY DEF LoadInit, StepsOK
<1>4. QED
  BY <1>2, <1>3 DEF LoadInv

LEMMA PopulatedIs ==
  /\ Populated \in Seq(ToSet(Order)) /\ IsInjective(Populated)
  /\ Len(Populated) \in Nat
<1>1. Order \in Seq(Places) /\ IsInjective(Order)
  BY ProfileLoadAssumption DEF Places
<1>2. Order \in Seq(ToSet(Order))
  BY <1>1 DEF ToSet
<1> DEFINE S == {c \in ToSet(Order) : In(c) # {}}
<1>3. Populated = Kept(Order, S)
  BY DEF Populated
<1> HIDE DEF S
<1>4. Kept(Order, S) \in Seq(ToSet(Order) \cap S) /\ (IsInjective(Order) => IsInjective(Kept(Order, S)))
  BY <1>2, KeptFacts
<1>5. Kept(Order, S) \in Seq(ToSet(Order))
  <2> DEFINE k == Kept(Order, S)
  <2>1. k \in Seq(ToSet(Order) \cap S)
    BY <1>4
  <2> HIDE DEF k
  <2>2. k \in Seq(ToSet(Order))
    BY <2>1
  <2>3. QED
    BY <2>2 DEF k
<1>6. QED
  BY <1>1, <1>3, <1>4, <1>5

LEMMA PopulatedStays ==
  ASSUME dir' = dir
  PROVE  Populated' = Populated
BY DEF Populated, In

LEMMA SearchSteps ==
  ASSUME LoadInv, ContainersFound \/ SearchFails \/ NothingVisible
  PROVE  LoadInv'
<1>1. /\ phase \in {"search", "fallback"} /\ sample.containers = <<>>
      /\ DOMAIN sample = SampleFields /\ todo \in Seq(ToSet(Order))
      /\ dir \in Directories /\ config \in Configs
  BY DEF LoadInv, SampleOK, StepsOK, ContainersFound, SearchFails, NothingVisible
<1>2. dir' = dir /\ config' = config /\ phase' \in {"sample", "fallback", "detect"}
  BY DEF ContainersFound, SearchFails, NothingVisible
<1>3. StepsOK'
  BY <1>1, <1>2 DEF StepsOK
<1>4. Populated' = Populated
  BY <1>2, PopulatedStays
<1>5. CASE ContainersFound
  <2>1. PICK n \in 0..Len(Populated) :
          /\ todo' = SubSeq(Populated, 1, Smaller(n, MaxContainers))
          /\ sample' = [sample EXCEPT !.incomplete = n < Len(Populated) \/ n > MaxContainers]
    BY <1>5 DEF ContainersFound
  <2>2. MaxContainers \in Nat /\ n \in Nat /\ Len(Populated) \in Nat
    BY <2>1, PopulatedIs, ProfileLoadAssumption
  <2> DEFINE k == Smaller(n, MaxContainers)
  <2>3. k \in 0..Len(Populated) /\ (n <= MaxContainers => k = n)
    BY <2>1, <2>2 DEF Smaller
  <2> HIDE DEF k
  <2>4. todo' \in Seq(ToSet(Order))
    <3> DEFINE w == Populated
    <3>1. w \in Seq(ToSet(Order)) /\ IsInjective(w) /\ k \in 0..Len(w)
      BY <2>3, PopulatedIs
    <3>2. todo' = SubSeq(w, 1, k)
      BY <2>1 DEF k
    <3> HIDE DEF w
    <3>3. QED
      BY <3>1, <3>2, PrefixOnce
  <2>5. /\ DOMAIN sample' = SampleFields /\ sample'.containers = <<>>
        /\ sample'.incomplete = (n < Len(Populated) \/ n > MaxContainers)
    BY <1>1, <2>1 DEF SampleFields
  <2>6. ~sample'.incomplete => todo' = Populated
    <3> SUFFICES ASSUME ~sample'.incomplete PROVE todo' = Populated
      OBVIOUS
    <3> DEFINE w == Populated
    <3>0. ~(n < Len(w) \/ n > MaxContainers)
      BY <2>5
    <3>1. n = Len(w) /\ k = n
      BY <2>1, <2>2, <2>3, <3>0
    <3>2. todo' = SubSeq(w, 1, k) /\ w \in Seq(ToSet(Order))
      BY <2>1, PopulatedIs DEF k
    <3> HIDE DEF w
    <3>3. todo' = w
      BY <3>1, <3>2
    <3>4. QED
      BY <3>3 DEF w
  <2>7. phase' = "sample"
    BY <1>5 DEF ContainersFound
  <2>8. ~sample'.incomplete => Dns(sample'.containers) \o todo' = Populated'
    <3>1. Dns(<<>>) = <<>>
      <4>1. DOMAIN <<>> = {}
        OBVIOUS
      <4>2. QED
        BY <4>1 DEF Dns
    <3>2. <<>> \o todo' = todo'
      BY <2>4
    <3>3. QED
      BY <1>4, <2>5, <2>6, <3>1, <3>2
  <2>9. SampleOK'
    BY <2>4, <2>5, <2>7, <2>8 DEF SampleOK
  <2>10. QED
    BY <1>3, <2>9 DEF LoadInv
<1>6. CASE SearchFails
  <2>1. sample' = sample /\ todo' = todo /\ (phase' = "fallback" \/ (phase' = "detect" /\ failed'))
    BY <1>1, <1>6 DEF SearchFails
  <2>2. SampleOK'
    <3>0. sample'.containers = <<>>
      BY <1>1, <2>1
    <3>1. sample'.containers \in Seq([dn : ToSet(Order), entries : SUBSET dir'])
      BY <3>0
    <3>2. QED
      BY <1>1, <2>1, <3>1 DEF SampleOK
  <2>3. QED
    BY <1>3, <2>2 DEF LoadInv
<1>7. CASE NothingVisible
  <2>1. sample' = [sample EXCEPT !.incomplete = TRUE] /\ todo' = todo /\ phase' = "detect"
    BY <1>7 DEF NothingVisible
  <2>2. DOMAIN sample' = SampleFields /\ sample'.containers = <<>> /\ sample'.incomplete = TRUE
    BY <1>1, <2>1 DEF SampleFields
  <2>3. SampleOK'
    <3>1. sample'.containers \in Seq([dn : ToSet(Order), entries : SUBSET dir'])
      BY <2>2
    <3>2. QED
      BY <1>1, <2>1, <2>2, <3>1 DEF SampleOK
  <2>4. QED
    BY <1>3, <2>3 DEF LoadInv
<1>8. QED
  BY <1>5, <1>6, <1>7

LEMMA ContainerSteps ==
  ASSUME LoadInv, SampleContainer \/ ContainerFails \/ BudgetUsedUp
  PROVE  LoadInv'
<1> DEFINE C == [dn : ToSet(Order), entries : SUBSET dir]
           old == sample.containers
<1>1. /\ phase = "sample" /\ todo # <<>> /\ todo \in Seq(ToSet(Order))
      /\ old \in Seq(C) /\ DOMAIN sample = SampleFields
      /\ ~failed /\ ~sample.incomplete => Dns(old) \o todo = Populated
      /\ dir \in Directories /\ config \in Configs
  BY DEF LoadInv, SampleOK, StepsOK, SampleContainer, ContainerFails, BudgetUsedUp
<1>2. dir' = dir /\ config' = config /\ phase' = phase /\ failed' = failed
  BY DEF SampleContainer, ContainerFails, BudgetUsedUp
<1>3. StepsOK'
  BY <1>1, <1>2 DEF StepsOK
<1>4. Populated' = Populated
  BY <1>2, PopulatedStays
<1>5. Tail(todo) \in Seq(ToSet(Order)) /\ Head(todo) \in ToSet(Order)
  BY <1>1, HeadSet
<1>6. CASE SampleContainer
  <2>1. PICK S \in SUBSET In(Head(todo)) :
          sample' = [sample EXCEPT !.containers = Append(@, [dn |-> Head(todo), entries |-> S])]
    BY <1>6 DEF SampleContainer
  <2>2. todo' = Tail(todo)
    BY <1>6 DEF SampleContainer
  <2> DEFINE c == [dn |-> Head(todo), entries |-> S]
  <2>3. c \in C /\ c.dn = Head(todo)
    BY <1>5, <2>1 DEF In
  <2> HIDE DEF c
  <2>4. /\ DOMAIN sample' = SampleFields /\ sample'.containers = Append(old, c)
        /\ sample'.incomplete = sample.incomplete
    BY <1>1, <2>1 DEF SampleFields, c
  <2> HIDE DEF C, old
  <2>5. Append(old, c) \in Seq(C)
    BY <1>1, <2>3
  <2>6. Dns(Append(old, c)) \o Tail(todo) = Dns(old) \o todo
    <3> DEFINE a == Dns(Append(old, c))
               b == Dns(old)
               n == Len(old)
               T == ToSet(Order)
    <3>1. /\ n \in Nat /\ DOMAIN old = 1..n /\ DOMAIN Append(old, c) = 1..(n + 1)
          /\ Append(old, c)[n + 1] = c /\ \A i \in 1..n : Append(old, c)[i] = old[i]
          /\ Len(Append(old, c)) = n + 1
      BY <1>1, <2>3
    <3>2. \A i \in 1..n : old[i].dn \in T
      <4>1. \A i \in 1..n : old[i] \in C
        BY <1>1, <3>1
      <4>2. QED
        BY <4>1 DEF C
    <3>3. b \in [1..n -> T] /\ \A i \in 1..n : b[i] = old[i].dn
      BY <3>1, <3>2 DEF Dns
    <3>4. a \in [1..(n + 1) -> T] /\ a[n + 1] = Head(todo) /\ \A i \in 1..n : a[i] = b[i]
      <4>1. DOMAIN a = 1..(n + 1)
        BY <3>1 DEF Dns
      <4>2. a[n + 1] = Head(todo)
        BY <2>3, <3>1 DEF Dns
      <4>3. \A i \in 1..n : a[i] = b[i]
        BY <3>1, <3>3 DEF Dns
      <4>4. \A i \in 1..(n + 1) : a[i] \in T
        <5> SUFFICES ASSUME NEW i \in 1..(n + 1) PROVE a[i] \in T
          OBVIOUS
        <5>1. CASE i = n + 1
          BY <1>5, <4>2, <5>1
        <5>2. CASE i # n + 1
          <6>1. i \in 1..n
            BY <3>1, <5>2
          <6>2. QED
            BY <3>3, <4>3, <6>1
        <5>3. QED
          BY <5>1, <5>2
      <4>5. \E f : a = [i \in 1..(n + 1) |-> f[i]]
        <5> DEFINE f == [i \in 1..(n + 1) |-> Append(old, c)[i].dn]
        <5>1. a = [i \in 1..(n + 1) |-> f[i]]
          BY <3>1 DEF Dns
        <5>2. QED
          BY <5>1
      <4> HIDE DEF a, b
      <4>6. QED
        BY <4>1, <4>2, <4>3, <4>4, <4>5
    <3> HIDE DEF a, b, T, n
    <3>5. a \in Seq(T) /\ Len(a) = n + 1 /\ b \in Seq(T) /\ Len(b) = n
      BY <3>1, <3>3, <3>4, IsAList
    <3>6. a = Append(b, Head(todo))
      <4>1. Append(b, Head(todo)) \in Seq(T) /\ Len(Append(b, Head(todo))) = n + 1
        BY <1>5, <3>5 DEF T
      <4>2. ASSUME NEW i \in 1..(n + 1) PROVE a[i] = Append(b, Head(todo))[i]
        <5>1. CASE i = n + 1
          BY <3>4, <3>5, <5>1
        <5>2. CASE i # n + 1
          <6>1. i \in 1..n
            BY <3>1, <5>2
          <6>2. QED
            BY <3>4, <3>5, <6>1
        <5>3. QED
          BY <5>1, <5>2
      <4>3. QED
        BY <3>5, <4>1, <4>2
    <3>7. a \o Tail(todo) = b \o todo
      <4>1. todo \in Seq(T)
        BY <1>1 DEF T
      <4>2. QED
        BY <1>1, <3>5, <3>6, <4>1, HeadMoves
    <3>8. QED
      BY <3>7 DEF a, b
  <2>7. ~failed' /\ ~sample'.incomplete => Dns(sample'.containers) \o todo' = Populated'
    BY <1>1, <1>2, <1>4, <2>2, <2>4, <2>6
  <2>8. sample'.containers \in Seq([dn : ToSet(Order), entries : SUBSET dir'])
    BY <1>2, <2>4, <2>5 DEF C
  <2>9. SampleOK'
    BY <1>1, <1>2, <1>5, <2>2, <2>4, <2>7, <2>8 DEF SampleOK
  <2>10. QED
    BY <1>3, <2>9 DEF LoadInv
<1>7. CASE ContainerFails \/ BudgetUsedUp
  <2>1. sample' = [sample EXCEPT !.incomplete = TRUE] /\ todo' \in {Tail(todo), <<>>}
    BY <1>7 DEF ContainerFails, BudgetUsedUp, FailedMarked
  <2>2. /\ DOMAIN sample' = SampleFields /\ sample'.containers = old /\ sample'.incomplete = TRUE
    BY <1>1, <2>1 DEF SampleFields
  <2>3. todo' \in Seq(ToSet(Order))
    <3>1. <<>> \in Seq(ToSet(Order))
      OBVIOUS
    <3>2. QED
      BY <1>5, <2>1, <3>1
  <2>4. sample'.containers \in Seq([dn : ToSet(Order), entries : SUBSET dir'])
    BY <1>1, <1>2, <2>2
  <2>5. SampleOK'
    BY <1>1, <1>2, <2>2, <2>3, <2>4 DEF SampleOK
  <2>6. QED
    BY <1>3, <2>5 DEF LoadInv
<1>8. QED
  BY <1>6, <1>7

LEMMA LookupSteps ==
  ASSUME LoadInv, FindGroupOu \/ Lookups
  PROVE  LoadInv'
<1>1. /\ phase \in {"sample", "lookups"} /\ (phase = "sample" => todo = <<>>)
      /\ dir' = dir /\ config' = config /\ failed' = failed /\ todo' = todo
      /\ phase' \in {"lookups", "detect"}
      /\ dir \in Directories /\ config \in Configs
  BY DEF FindGroupOu, Lookups, LoadInv, StepsOK
<1>2. StepsOK'
  BY <1>1 DEF StepsOK
<1>3. Populated' = Populated
  BY <1>1, PopulatedStays
<1>4. /\ DOMAIN sample = SampleFields
      /\ todo \in Seq(ToSet(Order))
      /\ sample.containers \in Seq([dn : ToSet(Order), entries : SUBSET dir])
      /\ ~failed /\ ~sample.incomplete =>
           Dns(sample.containers) \o todo = Populated /\ todo = <<>>
  BY <1>1 DEF LoadInv, SampleOK
<1>5. /\ DOMAIN sample' = SampleFields
      /\ sample'.containers = sample.containers /\ sample'.incomplete = sample.incomplete
  <2>1. CASE FindGroupOu
    <3>1. sample' = sample \/ \E x : sample' = [sample EXCEPT !.ou = x]
      BY <2>1 DEF FindGroupOu
    <3>2. QED
      BY <1>4, <3>1 DEF SampleFields
  <2>2. CASE Lookups
    <3>1. sample' = sample \/ \E x : sample' = [sample EXCEPT !.lookedUp = TRUE, !.found = x]
      BY <2>2 DEF Lookups
    <3>2. QED
      BY <1>4, <3>1 DEF SampleFields
  <2>3. QED
    BY <2>1, <2>2
<1>6. SampleOK'
  BY <1>1, <1>3, <1>4, <1>5 DEF SampleOK
<1>7. QED
  BY <1>2, <1>6 DEF LoadInv

LEMMA SampleStays ==
  ASSUME SampleOK, UNCHANGED <<dir, todo, sample, failed>>,
         phase \in {"detect", "merge", "assume", "validate"},
         phase' \in {"merge", "assume", "validate", "refused", "ready"}
  PROVE  SampleOK'
<1>1. Populated' = Populated
  BY PopulatedStays
<1>2. QED
  BY <1>1 DEF SampleOK

\* The sample of a load is one that Detects is about.
LEMMA SampledDetection ==
  ASSUME LoadInv, phase = "detect"
  PROVE  Detection(OtherParts(PosixParts(Infer(sample), sample)), dir)
<1> DEFINE C == [dn : ToSet(Order), entries : SUBSET dir]
<1>1. sample.containers \in Seq(C) /\ dir \in Directories
  BY DEF LoadInv, SampleOK, StepsOK
<1>2. Finite(dir) /\ \A e \in dir : e.gidNumber \subseteq 0..MaxId
  BY <1>1, ProfileLoadAssumption DEF Finite
<1>3. ToSet(Order) \subseteq Places
  BY ProfileLoadAssumption DEF Places, ToSet
<1>4. \A c \in ToSet(sample.containers) : c.entries \subseteq dir /\ c.dn \in Places
  <2>1. \A c \in ToSet(sample.containers) : c \in C
    <3> HIDE DEF C
    <3>1. QED
      BY <1>1 DEF ToSet
  <2>2. QED
    BY <1>3, <2>1
<1> HIDE DEF C
<1>5. QED
  BY <1>1, <1>2, <1>4, Detects

LEMMA AssemblySteps ==
  ASSUME LoadInv, DetectProfiles \/ Merge \/ Assume \/ Validate
  PROVE  LoadInv'
<1>1. /\ UNCHANGED <<dir, config, todo, sample, failed>>
      /\ phase \in {"detect", "merge", "assume", "validate"}
      /\ phase' \in {"merge", "assume", "validate", "refused", "ready"}
  BY DEF DetectProfiles, Merge, Assume, Validate
<1>2. SampleOK'
  BY <1>1, SampleStays DEF LoadInv
<1>3. dir \in Directories /\ config \in Configs
  BY <1>1 DEF LoadInv, StepsOK
<1>4. CASE DetectProfiles
  <2>1. detected' = OtherParts(PosixParts(Infer(sample), sample)) /\ phase' = "merge" /\ phase = "detect"
    BY <1>4 DEF DetectProfiles
  <2>2. Detection(detected', dir)
    BY <2>1, SampledDetection
  <2>3. Detected'
    BY <1>1, <1>3, <2>1, <2>2 DEF Detected
  <2>4. StepsOK'
    BY <1>1, <1>3, <2>1, <2>3 DEF StepsOK
  <2>5. QED
    BY <1>2, <2>4 DEF LoadInv
<1>5. CASE Merge
  <2>1. detected' = detected /\ phase = "merge" /\ phase' = "assume"
        /\ profiles' = MergeCore(detected, config)
    BY <1>5 DEF Merge
  <2>2. Detected'
    BY <1>1, <2>1 DEF LoadInv, StepsOK, Detected
  <2>3. StepsOK'
    BY <1>1, <1>3, <2>1, <2>2 DEF StepsOK
  <2>4. QED
    BY <1>2, <2>3 DEF LoadInv
<1>6. CASE Assume
  <2>1. detected' = detected /\ phase = "assume" /\ phase' = "validate"
        /\ profiles' = WithAssumptions(detected, profiles, sample.ou, failed)
    BY <1>6 DEF Assume
  <2>2. Detected' /\ profiles = MergeCore(detected, config)
    BY <1>1, <2>1 DEF LoadInv, StepsOK, Detected
  <2>3. profiles' = Assuming'
    BY <1>1, <2>1, <2>2 DEF Assuming
  <2>4. StepsOK'
    BY <1>1, <1>3, <2>1, <2>2, <2>3 DEF StepsOK
  <2>5. QED
    BY <1>2, <2>4 DEF LoadInv
<1>7. CASE Validate
  <2>1. /\ detected' = detected /\ phase = "validate"
        /\ IF Refused(profiles, failed \/ sample.incomplete)
           THEN phase' = "refused" /\ profiles' = profiles
           ELSE phase' = "ready" /\ profiles' = Validated(profiles)
    BY <1>7 DEF Validate
  <2>2. Detected' /\ profiles = Assuming /\ Assuming' = Assuming
    BY <1>1, <2>1 DEF LoadInv, StepsOK, Detected, Assuming
  <2>3. CASE Refused(profiles, failed \/ sample.incomplete)
    <3>1. StepsOK'
      BY <1>1, <1>3, <2>1, <2>2, <2>3 DEF StepsOK
    <3>2. QED
      BY <1>2, <3>1 DEF LoadInv
  <2>4. CASE ~Refused(profiles, failed \/ sample.incomplete)
    <3>1. StepsOK'
      BY <1>1, <1>3, <2>1, <2>2, <2>4 DEF StepsOK
    <3>2. QED
      BY <1>2, <3>1 DEF LoadInv
  <2>5. QED
    BY <2>3, <2>4
<1>8. QED
  BY <1>4, <1>5, <1>6, <1>7

LEMMA CreateSteps ==
  ASSUME LoadInv, NEW i \in DOMAIN profiles, CreateUser(i) \/ CreateGroup(i)
  PROVE  LoadInv'
<1>1. phase = "ready" /\ UNCHANGED <<config, phase, todo, sample, failed, detected, profiles>>
  BY DEF CreateUser, CreateGroup
<1>2. SampleOK'
  BY <1>1 DEF LoadInv, SampleOK
<1>3. StepsOK'
  BY <1>1 DEF LoadInv, StepsOK, Detected, Assuming
<1>4. QED
  BY <1>2, <1>3 DEF LoadInv

\* The inductive invariant of the load: what has been sampled is in the
\* directory, and unless something is known to be missing the containers done
\* and still to do are all there are; what each step of load.rs assemble left
\* is the one function of what it was given (sample.rs, load.rs).
THEOREM LoadInvariant == LoadSpec => []LoadInv
<1>1. LoadInv /\ [LoadNext]_loadVars => LoadInv'
  <2> SUFFICES ASSUME LoadInv, [LoadNext]_loadVars PROVE LoadInv'
    OBVIOUS
  <2>1. CASE ContainersFound \/ SearchFails \/ NothingVisible
    BY <2>1, SearchSteps
  <2>2. CASE SampleContainer \/ ContainerFails \/ BudgetUsedUp
    BY <2>2, ContainerSteps
  <2>3. CASE FindGroupOu \/ Lookups
    BY <2>3, LookupSteps
  <2>4. CASE DetectProfiles \/ Merge \/ Assume \/ Validate
    BY <2>4, AssemblySteps
  <2>5. CASE \E i \in DOMAIN profiles : CreateUser(i) \/ CreateGroup(i)
    BY <2>5, CreateSteps
  <2>6. CASE UNCHANGED loadVars
    BY <2>6 DEF loadVars, LoadInv, SampleOK, StepsOK, Detected, Assuming, Populated, In
  <2>7. QED
    BY <2>1, <2>2, <2>3, <2>4, <2>5, <2>6 DEF LoadNext
<1>2. QED
  BY LoadStart, <1>1, PTL DEF LoadSpec
-----------------------------------------------------------------------------
(***************************************************************************)
(* The numbers of new entries.                                             *)
(***************************************************************************)
\* No entry, and no block's entries, are both a user and a group.
UsersAreNoGroups ==
  /\ \A D \in Directories : \A e \in D : ~Mixed(e.classes)
  /\ \A cs \in Configs : \A b \in ToSet(cs) : \A classes \in b.classes : ~Mixed(classes)

NumbersLeft == \A b \in ToSet(config) : ~ConfigNumbers(b)

DirOK ==
  /\ IsFiniteSet(dir)
  /\ \A e \in dir : /\ e.uidNumber \subseteq 0..MaxId /\ e.gidNumber \subseteq 0..MaxId
                    /\ ~Mixed(e.classes)

\* The profiles creates take their numbers from.
LEMMA SettledProfiles ==
  ASSUME UsersAreNoGroups, LoadInv, phase = "ready", NumbersLeft, NEW i \in DOMAIN profiles
  PROVE  InOrder(profiles[i])
<1>1. PICK D \in Directories : Detection(detected, D)
  BY DEF LoadInv, StepsOK, Detected
<1>2. IsFiniteSet(D) /\ \A e \in D : ~Mixed(e.classes)
  BY <1>1, ProfileLoadAssumption DEF UsersAreNoGroups
<1>3. PICK cs : cs = config
  OBVIOUS
<1>4. PICK ds : ds = detected
  OBVIOUS
<1>5. PICK ou : ou = sample.ou
  OBVIOUS
<1>6. PICK lost : lost = failed
  OBVIOUS
<1>7. cs \in Configs /\ cs \in Seq(ToSet(cs))
  BY <1>3, ProfileLoadAssumption DEF LoadInv, StepsOK
<1>8. \A o \in DOMAIN cs : LeavesNumbers(cs[o])
  <2>1. \A o \in DOMAIN cs : cs[o] \in ToSet(cs)
    BY DEF ToSet
  <2>2. QED
    BY <1>3, <1>7, <2>1, ProfileLoadAssumption DEF LeavesNumbers, UsersAreNoGroups, NumbersLeft
<1>9. Detection(ds, D)
  BY <1>1, <1>4
<1> DEFINE m == MergeCore(ds, cs)
           w == WithAssumptions(ds, m, ou, lost)
           F == FromBlocks(ds, cs) \cup FromDetection(ds, cs)
<1>10. m \in Seq(F)
  BY <1>7, <1>9, Merges
<1>11. \A p \in F : Merged(p)
  BY <1>2, <1>7, <1>8, <1>9, MergedNumbers
<1>12. profiles = Validated(w)
  BY <1>3, <1>4, <1>5, <1>6 DEF LoadInv, StepsOK, Assuming
<1> HIDE DEF F, m
<1>13. \A j \in DOMAIN m : Merged(m[j])
  BY <1>10, <1>11
<1>14. \A j \in DOMAIN m : DOMAIN m[j] = BlockFields
  BY <1>13 DEF Merged
<1>15. DOMAIN Validated(w) = DOMAIN m
  BY DEF Validated, WithAssumptions, Flushed, Assumed
<1>16. i \in DOMAIN m
  BY <1>12, <1>15
<1>17. InEffect(ds, m[i], lost, Validated(w)[i])
  BY <1>14, <1>16, EffectIs
<1> HIDE DEF w
<1>18. InOrder(Validated(w)[i])
  BY <1>13, <1>16, <1>17, EffectiveNumbers
<1>19. QED
  BY <1>12, <1>18

LEMMA SpaceFacts ==
  ASSUME NEW spec, NEW E, NEW num, num \notin Space(spec, E)
  PROVE  /\ spec.attr = "uidNumber" =>
              num \notin UNION {f.uidNumber : f \in {g \in E : IsUser(g)}}
         /\ spec.unified = TRUE => num \notin UNION {f.gidNumber : f \in {g \in E : IsGroup(g)}}
         /\ spec.attr = "gidNumber" /\ (\A e \in E : ~Mixed(e.classes)) =>
              num \notin UNION {f.gidNumber : f \in {g \in E : IsGroup(g)}}
<1> DEFINE U == UNION {e.uidNumber : e \in {f \in E : IsUser(f)}}
           G == UNION {e.gidNumber : e \in E}
<1>1. CASE spec.unified
  <2>1. Space(spec, E) = U \cup G
    BY <1>1 DEF Space
  <2>2. num \notin U /\ num \notin G
    BY <2>1
  <2>3. QED
    BY <2>2
<1>2. CASE ~spec.unified /\ spec.attr = "uidNumber"
  <2>1. Space(spec, E) = UNION {e.uidNumber : e \in E}
    BY <1>2 DEF Space
  <2>2. QED
    BY <1>2, <2>1
<1>3. CASE ~spec.unified /\ spec.attr # "uidNumber"
  <2>1. Space(spec, E) = UNION {e.gidNumber : e \in {f \in E : ~IsUser(f)}}
    BY <1>3 DEF Space
  <2>2. ASSUME \A e \in E : ~Mixed(e.classes)
        PROVE  num \notin UNION {f.gidNumber : f \in {g \in E : IsGroup(g)}}
    <3>1. \A g \in E : IsGroup(g) => ~IsUser(g)
      BY <2>2 DEF Mixed, IsGroup, IsUser
    <3>2. QED
      BY <2>1, <3>1
  <2>3. QED
    BY <1>3, <2>2
<1>4. QED
  BY <1>1, <1>2, <1>3

\* What the numbers of new entries are, and are not.
NewOK(e, E) ==
  /\ e.uidNumber \subseteq 0..MaxId /\ e.gidNumber \subseteq 0..MaxId /\ ~Mixed(e.classes)
  /\ IsUser(e) => e.uidNumber \cap UNION {f.uidNumber : f \in {g \in E : IsUser(g)}} = {}
  /\ IsGroup(e) => e.gidNumber \cap UNION {f.gidNumber : f \in {g \in E : IsGroup(g)}} = {}

LEMMA NewUser ==
  ASSUME UsersAreNoGroups, LoadInv, NumbersLeft, DirOK, NEW i \in DOMAIN profiles, CreateUser(i)
  PROVE  \E N : dir' = dir \cup N /\ IsFiniteSet(N) /\ \A e \in N : NewOK(e, dir)
<1> DEFINE p == profiles[i]
           spec == p.parts["defaults.uidNumber"]
           key == "defaults.gidNumber"
<1>1. /\ phase = "ready" /\ Has(p, "posixAccount")
      /\ "defaults.uidNumber" \in DOMAIN p.parts /\ IsRange(spec)
  BY DEF CreateUser
<1>2. InOrder(p)
  BY <1>1, SettledProfiles
<1> DEFINE Gids(num) == IF GidFollows(p.parts) THEN {num}
                 ELSE IF key \notin DOMAIN p.parts
                 THEN UNION {e.gidNumber : e \in {f \in dir : IsGroup(f)}}
                 ELSE IF IsRange(p.parts[key]) THEN Allocate(p.parts[key], dir)
                 ELSE {p.parts[key].gid}
<1>3a. \E n : \E num \in Allocate(spec, dir) : \E gid \in Gids(num) :
        dir' = dir
                 \cup {[dn |-> <<n>> \o p.base, classes |-> p.classes, uidNumber |-> {num},
                        gidNumber |-> {gid}, member |-> {}]}
                 \cup {[dn |-> <<n>> \o p.parts[k].base, classes |-> {"posixGroup"},
                        uidNumber |-> {}, gidNumber |-> {num}, member |-> {}]
                         : k \in {"companion"} \cap DOMAIN p.parts}
  BY DEF CreateUser
<1>3b. PICK n : \E num \in Allocate(spec, dir) : \E gid \in Gids(num) :
        dir' = dir
                 \cup {[dn |-> <<n>> \o p.base, classes |-> p.classes, uidNumber |-> {num},
                        gidNumber |-> {gid}, member |-> {}]}
                 \cup {[dn |-> <<n>> \o p.parts[k].base, classes |-> {"posixGroup"},
                        uidNumber |-> {}, gidNumber |-> {num}, member |-> {}]
                         : k \in {"companion"} \cap DOMAIN p.parts}
  BY <1>3a
<1>3c. PICK num \in Allocate(spec, dir) : \E gid \in Gids(num) :
        dir' = dir
                 \cup {[dn |-> <<n>> \o p.base, classes |-> p.classes, uidNumber |-> {num},
                        gidNumber |-> {gid}, member |-> {}]}
                 \cup {[dn |-> <<n>> \o p.parts[k].base, classes |-> {"posixGroup"},
                        uidNumber |-> {}, gidNumber |-> {num}, member |-> {}]
                         : k \in {"companion"} \cap DOMAIN p.parts}
  BY <1>3b
<1>3. PICK gid \in Gids(num) :
        dir' = dir
                 \cup {[dn |-> <<n>> \o p.base, classes |-> p.classes, uidNumber |-> {num},
                        gidNumber |-> {gid}, member |-> {}]}
                 \cup {[dn |-> <<n>> \o p.parts[k].base, classes |-> {"posixGroup"},
                        uidNumber |-> {}, gidNumber |-> {num}, member |-> {}]
                         : k \in {"companion"} \cap DOMAIN p.parts}
  BY <1>3c
<1> DEFINE user == [dn |-> <<n>> \o p.base, classes |-> p.classes, uidNumber |-> {num},
                    gidNumber |-> {gid}, member |-> {}]
           group == [dn |-> <<n>> \o p.parts["companion"].base, classes |-> {"posixGroup"},
                     uidNumber |-> {}, gidNumber |-> {num}, member |-> {}]
           N == {user} \cup {g \in {group} : "companion" \in DOMAIN p.parts}
<1>4. dir' = dir \cup N
  BY <1>3
<1>5. /\ RangeFor(spec, "uidNumber")
      /\ "companion" \in DOMAIN p.parts => spec.unified = TRUE
      /\ key \in DOMAIN p.parts =>
           p.parts[key] = Follow \/ IsLiteral(p.parts[key]) \/ RangeFor(p.parts[key], "gidNumber")
      /\ ~Mixed(p.classes)
  BY <1>1, <1>2 DEF InOrder, NumberParts
<1> HIDE DEF spec
<1>6. num \in 0..MaxId /\ num \notin Space(spec, dir)
  <2>1. spec.attr \in {"uidNumber", "gidNumber"}
    BY <1>5 DEF RangeFor
  <2>2. IsFiniteSet(dir) /\ \A e \in dir : e.uidNumber \subseteq 0..MaxId /\ e.gidNumber \subseteq 0..MaxId
    BY DEF DirOK
  <2>3. QED
    BY <1>3, <2>1, <2>2, AllocatedIsFree
<1>7. /\ num \notin UNION {f.uidNumber : f \in {g \in dir : IsUser(g)}}
      /\ spec.unified = TRUE => num \notin UNION {f.gidNumber : f \in {g \in dir : IsGroup(g)}}
  <2>1. spec.attr = "uidNumber"
    BY <1>5 DEF RangeFor
  <2>2. QED
    BY <1>6, <2>1, SpaceFacts
<1>8. gid \in 0..MaxId
  <2>1. CASE GidFollows(p.parts)
    BY <1>3, <1>6, <2>1
  <2>2. CASE ~GidFollows(p.parts) /\ key \notin DOMAIN p.parts
    <3>1. gid \in UNION {e.gidNumber : e \in {f \in dir : IsGroup(f)}}
      BY <1>3, <2>2
    <3>2. QED
      BY <3>1 DEF DirOK
  <2>3. CASE ~GidFollows(p.parts) /\ key \in DOMAIN p.parts /\ IsRange(p.parts[key])
    <3> DEFINE other == p.parts[key]
    <3>1. gid \in Allocate(other, dir)
      BY <1>3, <2>3
    <3>2. RangeFor(other, "gidNumber")
      BY <1>5, <2>3, LiteralsAreNoRanges
    <3> HIDE DEF other
    <3>3. other.attr \in {"uidNumber", "gidNumber"}
      BY <3>2 DEF RangeFor
    <3>4. IsFiniteSet(dir) /\ \A e \in dir : e.uidNumber \subseteq 0..MaxId /\ e.gidNumber \subseteq 0..MaxId
      BY DEF DirOK
    <3>5. QED
      BY <3>1, <3>3, <3>4, AllocatedIsFree
  <2>4. CASE ~GidFollows(p.parts) /\ key \in DOMAIN p.parts /\ ~IsRange(p.parts[key])
    <3>1. gid = p.parts[key].gid
      BY <1>3, <2>4
    <3>2. p.parts[key] # Follow
      BY <2>4 DEF GidFollows
    <3>3. PICK x \in 0..MaxId : p.parts[key] = Literal(x)
      BY <1>5, <2>4, <3>2, LiteralsAreNoRanges DEF IsLiteral
    <3>4. p.parts[key].gid = x
      BY <3>3 DEF Literal
    <3>5. QED
      BY <3>1, <3>4
  <2>5. QED
    BY <2>1, <2>2, <2>3, <2>4
<1>9. NewOK(user, dir)
  <2>1. /\ user.uidNumber = {num} /\ user.gidNumber = {gid} /\ user.classes = p.classes
    OBVIOUS
  <2>2. IsUser(user) /\ ~IsGroup(user)
    BY <1>1, <1>5, <2>1 DEF IsUser, IsGroup, Has, Mixed
  <2> HIDE DEF user, p
  <2>3. QED
    BY <1>5, <1>6, <1>7, <1>8, <2>1, <2>2 DEF NewOK
<1>10. "companion" \in DOMAIN p.parts => NewOK(group, dir)
  <2> SUFFICES ASSUME "companion" \in DOMAIN p.parts PROVE NewOK(group, dir)
    OBVIOUS
  <2>1. /\ group.uidNumber = {} /\ group.gidNumber = {num} /\ group.classes = {"posixGroup"}
    OBVIOUS
  <2>2. ~IsUser(group) /\ ~Mixed(group.classes)
    BY <2>1 DEF IsUser, Mixed
  <2>3. spec.unified = TRUE
    BY <1>5
  <2> HIDE DEF group, p
  <2>4. QED
    BY <1>6, <1>7, <2>1, <2>2, <2>3 DEF NewOK
<1> HIDE DEF user, group, p
<1>11. \A e \in N : NewOK(e, dir)
  BY <1>9, <1>10
<1>12. IsFiniteSet(N)
  <2>1. IsFiniteSet({user}) /\ IsFiniteSet({group})
    BY FS_Singleton
  <2>2. IsFiniteSet({g \in {group} : "companion" \in DOMAIN p.parts})
    BY <2>1, FS_Subset
  <2>3. QED
    BY <2>1, <2>2, FS_Union
<1> HIDE DEF N
<1>13. QED
  BY <1>4, <1>11, <1>12

LEMMA NewGroup ==
  ASSUME UsersAreNoGroups, LoadInv, NumbersLeft, DirOK, NEW i \in DOMAIN profiles, CreateGroup(i)
  PROVE  \E N : dir' = dir \cup N /\ IsFiniteSet(N) /\ \A e \in N : NewOK(e, dir)
<1> DEFINE p == profiles[i]
           spec == p.parts["defaults.gidNumber"]
<1>1. /\ phase = "ready" /\ Has(p, "posixGroup") /\ ~Has(p, "posixAccount")
      /\ "defaults.gidNumber" \in DOMAIN p.parts /\ IsRange(spec)
  BY DEF CreateGroup
<1>2. InOrder(p)
  BY <1>1, SettledProfiles
<1>3a. PICK n : \E num \in Allocate(spec, dir) :
        dir' = dir \cup {[dn |-> <<n>> \o p.base, classes |-> p.classes, uidNumber |-> {},
                          gidNumber |-> {num}, member |-> {}]}
  BY DEF CreateGroup
<1>3. PICK num \in Allocate(spec, dir) :
        dir' = dir \cup {[dn |-> <<n>> \o p.base, classes |-> p.classes, uidNumber |-> {},
                          gidNumber |-> {num}, member |-> {}]}
  BY <1>3a
<1> DEFINE group == [dn |-> <<n>> \o p.base, classes |-> p.classes, uidNumber |-> {},
                     gidNumber |-> {num}, member |-> {}]
<1>4. RangeFor(spec, "gidNumber")
  BY <1>1, <1>2, LiteralsAreNoRanges DEF InOrder, NumberParts
<1> HIDE DEF spec
<1>5. spec.attr = "gidNumber"
  BY <1>4 DEF RangeFor
<1>6. IsFiniteSet(dir) /\ \A e \in dir : e.uidNumber \subseteq 0..MaxId /\ e.gidNumber \subseteq 0..MaxId
  BY DEF DirOK
<1>7. num \in 0..MaxId /\ num \notin Space(spec, dir)
  BY <1>3, <1>5, <1>6, AllocatedIsFree
<1>8. num \notin UNION {f.gidNumber : f \in {g \in dir : IsGroup(g)}}
  BY <1>5, <1>7, SpaceFacts DEF DirOK
<1>9. group.uidNumber = {} /\ group.gidNumber = {num} /\ group.classes = p.classes
  OBVIOUS
<1>10. ~IsUser(group) /\ ~Mixed(group.classes)
  BY <1>1, <1>9 DEF IsUser, Has, Mixed
<1>11. dir' = dir \cup {group}
  BY <1>3
<1> HIDE DEF group, p
<1>12. NewOK(group, dir)
  BY <1>7, <1>8, <1>9, <1>10 DEF NewOK
<1>13. IsFiniteSet({group})
  BY FS_Singleton
<1>14. QED
  BY <1>11, <1>12, <1>13

LEMMA NumberSteps ==
  ASSUME UsersAreNoGroups, LoadInv, NumbersLeft, DirOK, [LoadNext]_loadVars, dir' # dir
  PROVE  \E N : dir' = dir \cup N /\ IsFiniteSet(N) /\ \A e \in N : NewOK(e, dir)
<1>1. PICK i \in DOMAIN profiles : CreateUser(i) \/ CreateGroup(i)
  BY DEF LoadNext, loadVars, ContainersFound, SearchFails, NothingVisible, SampleContainer,
         ContainerFails, BudgetUsedUp, FindGroupOu, Lookups, DetectProfiles, Merge, Assume, Validate
<1>2. QED
  BY <1>1, NewUser, NewGroup

LEMMA DirStays ==
  ASSUME UsersAreNoGroups, LoadInv, NumbersLeft, DirOK, [LoadNext]_loadVars
  PROVE  DirOK'
<1>1. CASE dir' = dir
  BY <1>1 DEF DirOK
<1>2. CASE dir' # dir
  <2>1. PICK N : dir' = dir \cup N /\ IsFiniteSet(N) /\ \A e \in N : NewOK(e, dir)
    BY <1>2, NumberSteps
  <2>2. IsFiniteSet(dir')
    BY <2>1, FS_Union DEF DirOK
  <2>3. QED
    BY <2>1, <2>2 DEF DirOK, NewOK
<1>3. QED
  BY <1>1, <1>2

LEMMA ConfigStays ==
  ASSUME [LoadNext]_loadVars
  PROVE  config' = config
BY DEF LoadNext, loadVars, ContainersFound, SearchFails, NothingVisible, SampleContainer,
       ContainerFails, BudgetUsedUp, FindGroupOu, Lookups, DetectProfiles, Merge, Assume, Validate,
       CreateUser, CreateGroup

LEMMA DirStart ==
  ASSUME UsersAreNoGroups, LoadInit
  PROVE  DirOK
<1>1. dir \in Directories
  BY DEF LoadInit
<1>2. QED
  BY <1>1, ProfileLoadAssumption DEF DirOK, UsersAreNoGroups

DirInv == NumbersLeft => DirOK

\* NumbersAreFree, for all directories, configs and gaps in which no entry is
\* both a user and a group: a number from a generated range (range.rs
\* allocate) is no other user's and no other group's.
THEOREM FreshNumbers ==
  ASSUME UsersAreNoGroups
  PROVE  LoadSpec => NumbersAreFree
<1>1. LoadInit => DirInv
  BY DirStart DEF DirInv
<1>2. LoadInv /\ DirInv /\ [LoadNext]_loadVars => DirInv'
  <2> SUFFICES ASSUME LoadInv, DirInv, [LoadNext]_loadVars, NumbersLeft' PROVE DirOK'
    BY DEF DirInv
  <2>1. NumbersLeft
    BY ConfigStays DEF NumbersLeft
  <2>2. DirOK
    BY <2>1 DEF DirInv
  <2>3. QED
    BY <2>1, <2>2, DirStays
<1>3. LoadInv /\ DirInv /\ [LoadNext]_loadVars =>
        [(\A b \in ToSet(config) : ~ConfigNumbers(b)) =>
           \A e \in dir' \ dir :
             /\ IsUser(e) => e.uidNumber \cap UNION {f.uidNumber : f \in {g \in dir : IsUser(g)}} = {}
             /\ IsGroup(e) => e.gidNumber \cap UNION {f.gidNumber : f \in {g \in dir : IsGroup(g)}} = {}
        ]_dir
  <2> SUFFICES ASSUME LoadInv, DirInv, [LoadNext]_loadVars, NumbersLeft, dir' # dir,
                      NEW e \in dir' \ dir
               PROVE
             /\ IsUser(e) => e.uidNumber \cap UNION {f.uidNumber : f \in {g \in dir : IsUser(g)}} = {}
             /\ IsGroup(e) => e.gidNumber \cap UNION {f.gidNumber : f \in {g \in dir : IsGroup(g)}} = {}
    BY DEF NumbersLeft
  <2>1. DirOK
    BY DEF DirInv
  <2>2. PICK N : dir' = dir \cup N /\ IsFiniteSet(N) /\ \A x \in N : NewOK(x, dir)
    BY <2>1, NumberSteps
  <2>3. NewOK(e, dir)
    BY <2>2
  <2>4. QED
    BY <2>3 DEF NewOK
<1>4. QED
  BY <1>1, <1>2, <1>3, LoadInvariant, PTL DEF LoadSpec, NumbersAreFree
-----------------------------------------------------------------------------
(***************************************************************************)
(* What a block sets and suppresses.                                       *)
(***************************************************************************)
NoRanges(parts) == \A k \in DOMAIN parts \cap Numbers : ~IsRange(parts[k])

\* The config's own parts are in p as the config has them.
OwnParts(p, parts) ==
  /\ DOMAIN p = BlockFields /\ p.own = DOMAIN parts
  /\ \A k \in DOMAIN parts : k \in DOMAIN p.parts /\ p.parts[k] = parts[k]

LEMMA OwnMarked ==
  ASSUME NEW parts, NEW key \in DOMAIN parts, ~IsRange(parts[key])
  PROVE  MarkUnified(parts, key)[key] = parts[key]
BY MarkUnifiedFacts

LEMMA OwnFilled ==
  ASSUME NEW ds, NEW p, NEW lost, NEW r, NEW parts, NoRanges(parts), OwnParts(p, parts),
         Filled(ds, p, lost, r)
  PROVE  OwnParts(r, parts) /\ r.pending = p.pending
<1>1. PICK base, q : FilledUser(ds, p, base, lost, q) /\ FilledGroup(q, r)
  BY DEF Filled
<1>2. /\ DOMAIN q = BlockFields /\ q.own = p.own /\ q.pending = p.pending
      /\ DOMAIN r = BlockFields /\ r.own = q.own /\ r.pending = q.pending
  BY <1>1 DEF FilledUser, FilledGroup, Otherwise, OwnParts, BlockFields
<1>3. ASSUME NEW k \in DOMAIN parts PROVE k \in DOMAIN q.parts /\ q.parts[k] = parts[k]
  <2>1. k \in DOMAIN p.parts /\ p.parts[k] = parts[k]
    BY DEF OwnParts
  <2>2. CASE k = "defaults.uidNumber"
    <3> DEFINE old == p.parts
    <3>1. k \in DOMAIN old /\ ~IsRange(old[k])
      BY <2>1, <2>2, NumberKeys DEF NoRanges
    <3> HIDE DEF old
    <3>2. MarkUnified(old, k)[k] = old[k]
      BY <3>1, OwnMarked
    <3>3. q.parts[k] \in {old[k], MarkUnified(old, k)[k]} /\ k \in DOMAIN q.parts
      BY <1>1, <2>1, <2>2 DEF FilledUser, old
    <3>4. QED
      BY <2>1, <3>2, <3>3 DEF old
  <2>3. CASE k # "defaults.uidNumber"
    BY <1>1, <2>1, <2>3 DEF FilledUser
  <2>4. QED
    BY <2>2, <2>3
<1>4. ASSUME NEW k \in DOMAIN parts PROVE k \in DOMAIN r.parts /\ r.parts[k] = parts[k]
  <2>1. k \in DOMAIN q.parts /\ q.parts[k] = parts[k]
    BY <1>3
  <2>2. CASE k = "defaults.gidNumber"
    <3> DEFINE old == q.parts
    <3>1. k \in DOMAIN old /\ ~IsRange(old[k])
      BY <2>1, <2>2, NumberKeys DEF NoRanges
    <3> HIDE DEF old
    <3>2. MarkUnified(old, k)[k] = old[k]
      BY <3>1, OwnMarked
    <3>3. r.parts[k] \in {old[k], MarkUnified(old, k)[k]} /\ k \in DOMAIN r.parts
      BY <1>1, <2>1, <2>2 DEF FilledGroup, old
    <3>4. QED
      BY <2>1, <3>2, <3>3 DEF old
  <2>3. CASE k # "defaults.gidNumber"
    BY <1>1, <2>1, <2>3 DEF FilledGroup
  <2>4. QED
    BY <2>2, <2>3
<1>5. QED
  BY <1>2, <1>4 DEF OwnParts

LEMMA OwnTrimmed ==
  ASSUME NEW p, NEW paths, NEW q, NEW parts, OwnParts(p, parts), Trimmed(p, paths, q)
  PROVE  OwnParts(q, parts)
<1>1. DOMAIN q = BlockFields /\ q.own = p.own
  BY DEF Trimmed, OwnParts, BlockFields
<1>2. ASSUME NEW k \in DOMAIN parts PROVE k \in DOMAIN q.parts /\ q.parts[k] = parts[k]
  <2>1. k \in DOMAIN p.parts /\ p.parts[k] = parts[k] /\ k \in p.own
    BY DEF OwnParts
  <2>2. k \in DOMAIN q.parts
    BY <2>1 DEF Trimmed, Gone
  <2>3. CASE k = "companion"
    <3>1. ~Trims(p, paths)
      BY <2>1, <2>3 DEF Trims
    <3>2. QED
      BY <2>1, <2>2, <2>3, <3>1 DEF Trimmed
  <2>4. CASE k # "companion"
    BY <2>1, <2>2, <2>4 DEF Trimmed
  <2>5. QED
    BY <2>3, <2>4
<1>3. QED
  BY <1>1, <1>2 DEF OwnParts

\* Hence the config's own parts are there when the assumptions are through.
LEMMA OwnSettled ==
  ASSUME NEW ds, NEW p, NEW lost, NEW v, NEW parts, NoRanges(parts), OwnParts(p, parts),
         AfterFlush(ds, p, lost, v)
  PROVE  OwnParts(v, parts)
<1>1. PICK r : Filled(ds, p, lost, r) /\ Trimmed(r, r.pending, v)
  BY DEF AfterFlush
<1>2. OwnParts(r, parts)
  BY <1>1, OwnFilled
<1>3. QED
  BY <1>1, <1>2, OwnTrimmed

\* What is not in a profile and yet in it once it is filled up.
LEMMA NewParts ==
  ASSUME NEW ds, NEW p, NEW lost, NEW r, Filled(ds, p, lost, r)
  PROVE  /\ \A k \in DOMAIN p.parts \ Numbers : k \in DOMAIN r.parts /\ r.parts[k] = p.parts[k]
         /\ \A k \in DOMAIN r.parts \ DOMAIN p.parts :
              \/ k \in Numbers /\ IsRange(r.parts[k])
              \/ /\ k \in {"defaults.gidNumber", "companion"}
                 /\ \E base : Private(ds, p, base, lost)
                 /\ k = "companion" => \E b : r.parts[k] = CompanionAt(b)
<1> DEFINE uid == "defaults.uidNumber"
           gid == "defaults.gidNumber"
<1>1. PICK base, q : FilledUser(ds, p, base, lost, q) /\ FilledGroup(q, r)
  BY DEF Filled
<1>2. uid # gid /\ uid # "companion" /\ gid # "companion"
  OBVIOUS
<1>3. ASSUME NEW k \in DOMAIN p.parts \ Numbers PROVE k \in DOMAIN r.parts /\ r.parts[k] = p.parts[k]
  <2>1. k # uid /\ k # gid
    BY NumberKeys
  <2>2. k \in DOMAIN q.parts /\ q.parts[k] = p.parts[k]
    BY <1>1, <2>1 DEF FilledUser
  <2>3. QED
    BY <1>1, <2>1, <2>2 DEF FilledGroup
<1>4. ASSUME NEW k \in DOMAIN r.parts \ DOMAIN q.parts
      PROVE  k \in Numbers /\ IsRange(r.parts[k])
  <2>1. k = gid
    BY <1>1 DEF FilledGroup
  <2>2. PICK b, s, u : r.parts[k] = RangeOf("gidNumber", b, s, u)
    BY <1>1, <2>1 DEF FilledGroup
  <2>3. RangeFor(r.parts[k], "gidNumber")
    BY <2>2, RangeOfFacts
  <2>4. QED
    BY <2>1, <2>3, LiteralsAreNoRanges, NumberKeys
<1>5. ASSUME NEW k \in DOMAIN q.parts \ DOMAIN p.parts, k = uid
      PROVE  k \in Numbers /\ IsRange(r.parts[k])
  <2>1. PICK b, s : q.parts[k] = RangeOf("uidNumber", b, s, GidFollows(q.parts))
    BY <1>1, <1>5 DEF FilledUser
  <2>2. RangeFor(q.parts[k], "uidNumber")
    BY <2>1, RangeOfFacts
  <2>3. r.parts[k] = q.parts[k]
    BY <1>1, <1>2, <1>5 DEF FilledGroup
  <2>4. QED
    BY <1>5, <2>2, <2>3, LiteralsAreNoRanges, NumberKeys
<1>6. ASSUME NEW k \in DOMAIN q.parts \ DOMAIN p.parts, k # uid
      PROVE  /\ k \in {gid, "companion"}
             /\ \E c : Private(ds, p, c, lost)
             /\ k = "companion" => \E b : r.parts[k] = CompanionAt(b)
  <2>1. WithPrivate(ds, p, base, lost, q)
    BY <1>1, <1>6 DEF FilledUser
  <2>2. k \in {gid, "companion"} /\ Private(ds, p, base, lost)
    BY <1>6, <2>1 DEF WithPrivate
  <2>3. k = "companion" => r.parts[k] = q.parts[k]
    BY <1>1, <1>2 DEF FilledGroup
  <2>4. \E b : q.parts["companion"] = CompanionAt(b)
    BY <2>1 DEF WithPrivate
  <2>5. QED
    BY <2>2, <2>3, <2>4
<1>7. ASSUME NEW k \in DOMAIN r.parts \ DOMAIN p.parts
      PROVE  \/ k \in Numbers /\ IsRange(r.parts[k])
             \/ /\ k \in {gid, "companion"}
                /\ \E c : Private(ds, p, c, lost)
                /\ k = "companion" => \E b : r.parts[k] = CompanionAt(b)
  <2>1. k \notin DOMAIN q.parts \/ k = uid \/ k # uid
    OBVIOUS
  <2>2. QED
    BY <1>4, <1>5, <1>6, <2>1
<1>8. QED
  BY <1>3, <1>7

LEMMA LessOfCompanion ==
  ASSUME NEW v, NEW b, v = CompanionAt(b)
  PROVE  "memberUid" \notin [v EXCEPT !.attrs = @ \ {"memberUid"}].attrs
<1>1. DOMAIN v = {"base", "attrs"}
  BY DEF CompanionAt
<1> HIDE DEF CompanionAt
<1>2. [v EXCEPT !.attrs = @ \ {"memberUid"}].attrs = v.attrs \ {"memberUid"}
  BY <1>1
<1>3. QED
  BY <1>2

\* What is suppressed, of parts that are not the config's own.
Suppresses(v, b) ==
  /\ \A k \in (DOMAIN v.parts \ DOMAIN b.parts) \cap b.suppress :
       k \in Numbers /\ IsRange(v.parts[k])
  /\ "companion.memberUid" \in b.suppress /\ "companion" \in DOMAIN v.parts \ DOMAIN b.parts
       => "memberUid" \notin v.parts["companion"].attrs

LEMMA MemberKey ==
  "companion.memberUid" \notin Numbers \cup Widgets \cup {"companion"}
BY DEF Numbers, Widgets

\* A block without a profile of its own: all it suppresses is pending.
LEMMA AloneSuppresses ==
  ASSUME NEW ds, NEW p, NEW lost, NEW v, NEW b, OwnParts(p, b.parts), NoRanges(b.parts),
         DOMAIN p.parts = DOMAIN b.parts, p.pending = b.suppress, AfterFlush(ds, p, lost, v)
  PROVE  Suppresses(v, b)
<1>1. PICK r : Filled(ds, p, lost, r) /\ Trimmed(r, r.pending, v)
  BY DEF AfterFlush
<1>2. OwnParts(r, b.parts) /\ r.pending = b.suppress
  BY <1>1, OwnFilled
<1>3. DOMAIN v.parts = DOMAIN r.parts \ (b.suppress \cap (DOMAIN r.parts \ DOMAIN b.parts))
  BY <1>1, <1>2 DEF Trimmed, Gone, OwnParts
<1>4. ASSUME "companion.memberUid" \in b.suppress, "companion" \in DOMAIN v.parts \ DOMAIN b.parts
      PROVE  "memberUid" \notin v.parts["companion"].attrs
  <2>1. "companion" \in DOMAIN r.parts \ DOMAIN p.parts
    BY <1>3, <1>4
  <2>2. \E c : r.parts["companion"] = CompanionAt(c)
    BY <1>1, <2>1, NewParts, NumberKeys
  <2>3. Trims(r, r.pending)
    BY <1>2, <1>4, <2>1 DEF Trims, OwnParts
  <2>4. v.parts["companion"] = [r.parts["companion"] EXCEPT !.attrs = @ \ {"memberUid"}]
    BY <1>1, <1>4, <2>3 DEF Trimmed
  <2> DEFINE c == r.parts["companion"]
  <2>5. \E a : c = CompanionAt(a)
    BY <2>2
  <2> HIDE DEF c
  <2>6. "memberUid" \notin [c EXCEPT !.attrs = @ \ {"memberUid"}].attrs
    BY <2>5, LessOfCompanion
  <2>7. QED
    BY <2>4, <2>6 DEF c
<1>5. QED
  BY <1>3, <1>4 DEF Suppresses

\* A detected profile with a block laid over it: what is suppressed and there
\* goes at once, and no private group is assumed where detection found one.
LEMMA TakenSuppresses ==
  ASSUME NEW ds, NEW E, Detection(ds, E), IsFiniteSet(E), NEW cs, NEW o, NoRanges(cs[o].parts),
         Taken(ds, cs)[o] # 0, Taken(ds, cs)[o] \in DOMAIN ds,
         NEW lost, NEW v, AfterFlush(ds, BlockProfile(ds, cs, o), lost, v),
         OwnParts(BlockProfile(ds, cs, o), cs[o].parts)
  PROVE  Suppresses(v, cs[o])
<1> DEFINE b == cs[o]
           d == Taken(ds, cs)[o]
           g == ds[d]
           u == Unsuppressed(ds, cs, o, d)
           x == BlockProfile(ds, cs, o)
           member == "companion.memberUid"
           gid == "defaults.gidNumber"
<1>1. PICK r : Filled(ds, x, lost, r) /\ Trimmed(r, r.pending, v)
  BY DEF AfterFlush
<1>2. OwnParts(r, b.parts) /\ r.pending = x.pending
  BY <1>1, OwnFilled
<1>3. Trimmed(u, b.suppress, x)
  BY TakenBlock
<1>4. /\ DOMAIN u = BlockFields /\ u.own = DOMAIN b.parts /\ u.of = d
      /\ DOMAIN u.parts = DOMAIN b.parts \cup DOMAIN g.parts
      /\ \A k \in DOMAIN g.parts \ DOMAIN b.parts :
           k \notin Numbers \cup Widgets => u.parts[k] = g.parts[k]
  BY UnsuppressedFacts
<1>5. DetectedProfile(g, E)
  BY DEF Detection
<1>6. /\ DOMAIN x = BlockFields /\ x.of = d
      /\ DOMAIN x.parts = DOMAIN u.parts \ Gone(u, b.suppress)
      /\ x.pending = (b.suppress \ Gone(u, b.suppress)) \ {t \in {member} : Trims(u, b.suppress)}
      /\ "companion" \in DOMAIN x.parts =>
           x.parts["companion"] = IF Trims(u, b.suppress)
                                  THEN [u.parts["companion"] EXCEPT !.attrs = @ \ {"memberUid"}]
                                  ELSE u.parts["companion"]
  <2> HIDE DEF u, x, b, d
  <2>1. QED
    BY <1>3, <1>4 DEF Trimmed, BlockFields
<1>7. Gone(u, b.suppress) = b.suppress \cap (DOMAIN g.parts \ DOMAIN b.parts)
  <2> HIDE DEF u, b, g
  <2>1. QED
    BY <1>4 DEF Gone
<1>8. Trims(u, b.suppress) <=>
        member \in b.suppress /\ "companion" \in DOMAIN g.parts \ DOMAIN b.parts
  <2> HIDE DEF u, b, g
  <2>1. QED
    BY <1>4 DEF Trims
<1>9. DOMAIN g.parts \subseteq Numbers \cup Widgets \cup {"companion"}
  BY <1>5 DEF DetectedProfile
<1>10. \A k : (\E c : Private(ds, x, c, lost)) /\ k \in DOMAIN g.parts =>
          k \notin {gid, "companion"}
  <2> SUFFICES ASSUME NEW c, Private(ds, x, c, lost)
               PROVE  gid \notin DOMAIN g.parts /\ "companion" \notin DOMAIN g.parts
    OBVIOUS
  <2>1. ~Contrary(ds, x)
    BY DEF Private
  <2>2. x.of = d /\ d # 0
    BY <1>6
  <2> HIDE DEF x
  <2>3. ~(ds[d].sampled >= MinSample) /\ ds[d].without = {0}
    <3> HIDE DEF d
    <3>1. QED
      BY <2>1, <2>2 DEF Contrary
  <2>4. ~(g.sampled >= MinSample) /\ g.without = {0}
    BY <2>3
  <2> HIDE DEF g, d
  <2>5. g.without # {}
    BY <2>4
  <2>6. QED
    BY <1>5, <2>4, <2>5 DEF DetectedProfile
<1> HIDE DEF u, x, g, d, b
<1>11. DOMAIN v.parts = DOMAIN r.parts \ (x.pending \cap (DOMAIN r.parts \ DOMAIN b.parts))
  BY <1>1, <1>2 DEF Trimmed, Gone, OwnParts
<1>12. DOMAIN x.parts = (DOMAIN b.parts \cup DOMAIN g.parts)
                          \ (b.suppress \cap (DOMAIN g.parts \ DOMAIN b.parts))
  BY <1>4, <1>6, <1>7
<1>13. \A k \in DOMAIN r.parts \ DOMAIN x.parts :
         \/ k \in Numbers /\ IsRange(r.parts[k])
         \/ /\ k \in {gid, "companion"}
            /\ \E c : Private(ds, x, c, lost)
            /\ k = "companion" => \E c : r.parts[k] = CompanionAt(c)
  BY <1>1, NewParts
<1>14. ASSUME NEW k \in (DOMAIN v.parts \ DOMAIN b.parts) \cap b.suppress
       PROVE  k \in Numbers /\ IsRange(v.parts[k])
  <2>1. k \in DOMAIN r.parts /\ k \notin x.pending
    BY <1>11
  <2>2. k \notin DOMAIN x.parts
    BY <1>12
  <2>3. k \in Numbers \cup {"companion"}
    BY <1>13, <2>1, <2>2, NumberKeys
  <2>4. k # member
    BY <2>3, MemberKey
  <2>5. k \in DOMAIN g.parts
    BY <1>6, <1>7, <2>1, <2>4
  <2>6. k \in Numbers /\ IsRange(r.parts[k])
    BY <1>10, <1>13, <2>1, <2>2, <2>5
  <2>7. v.parts[k] = r.parts[k]
    BY <1>1, <2>6, NumberKeys DEF Trimmed
  <2>8. QED
    BY <2>6, <2>7
<1>15. ASSUME member \in b.suppress, "companion" \in DOMAIN v.parts \ DOMAIN b.parts
       PROVE  "memberUid" \notin v.parts["companion"].attrs
  <2>1. "companion" \in DOMAIN r.parts \ DOMAIN b.parts
    BY <1>11, <1>15
  <2>2. v.parts["companion"] = IF Trims(r, r.pending)
                               THEN [r.parts["companion"] EXCEPT !.attrs = @ \ {"memberUid"}]
                               ELSE r.parts["companion"]
    BY <1>1, <1>15 DEF Trimmed
  <2>3. "companion" \notin b.suppress
    BY <1>14, <1>15, NumberKeys
  <2>4. CASE "companion" \in DOMAIN g.parts
    <3>1. Trims(u, b.suppress)
      BY <1>8, <1>15, <2>4
    <3>2. "companion" \in DOMAIN x.parts
      BY <1>12, <2>3, <2>4
    <3>3. r.parts["companion"] = x.parts["companion"]
      BY <1>1, <3>2, NewParts, NumberKeys
    <3>4. x.parts["companion"] = [g.parts["companion"] EXCEPT !.attrs = @ \ {"memberUid"}]
      BY <1>4, <1>6, <1>15, <2>4, <3>1, <3>2, NumberKeys
    <3>5. \E c : g.parts["companion"] = CompanionAt(c)
      BY <1>5, <2>4 DEF DetectedProfile
    <3> DEFINE c == g.parts["companion"]
    <3>6. \E a : c = CompanionAt(a)
      BY <3>5
    <3>7. x.parts["companion"] = [c EXCEPT !.attrs = @ \ {"memberUid"}]
      BY <3>4
    <3> HIDE DEF c
    <3>8. "memberUid" \notin [c EXCEPT !.attrs = @ \ {"memberUid"}].attrs
      BY <3>6, LessOfCompanion
    <3>9. ~Trims(r, r.pending)
      BY <1>2, <1>6, <3>1 DEF Trims
    <3>10. QED
      BY <2>2, <3>3, <3>7, <3>8, <3>9
  <2>5. CASE "companion" \notin DOMAIN g.parts
    <3>1. ~Trims(u, b.suppress)
      BY <1>8, <2>5
    <3>2. member \notin Gone(u, b.suppress)
      BY <1>7, <1>9, MemberKey
    <3>3. member \in x.pending
      BY <1>6, <1>15, <3>1, <3>2
    <3>4. Trims(r, r.pending)
      BY <1>2, <2>1, <3>3 DEF Trims, OwnParts
    <3>5. "companion" \notin DOMAIN x.parts
      BY <1>12, <1>15, <2>5
    <3>6. \E c : r.parts["companion"] = CompanionAt(c)
      BY <1>13, <2>1, <3>5, NumberKeys
    <3> DEFINE c == r.parts["companion"]
    <3>7. \E a : c = CompanionAt(a)
      BY <3>6
    <3>8. v.parts["companion"] = [c EXCEPT !.attrs = @ \ {"memberUid"}]
      BY <2>2, <3>4
    <3> HIDE DEF c
    <3>9. "memberUid" \notin [c EXCEPT !.attrs = @ \ {"memberUid"}].attrs
      BY <3>7, LessOfCompanion
    <3>10. QED
      BY <3>8, <3>9
  <2>6. QED
    BY <2>4, <2>5
<1>16. Suppresses(v, b)
  BY <1>14, <1>15 DEF Suppresses
<1>17. QED
  BY <1>16 DEF b

\* What a block sets is in its merged profile.
LEMMA BlockOwn ==
  ASSUME NEW ds, NEW cs, NEW o
  PROVE  /\ OwnParts(BlockProfile(ds, cs, o), cs[o].parts)
         /\ Taken(ds, cs)[o] = 0 =>
              /\ DOMAIN BlockProfile(ds, cs, o).parts = DOMAIN cs[o].parts
              /\ BlockProfile(ds, cs, o).pending = cs[o].suppress
<1>1. CASE Taken(ds, cs)[o] # 0
  <2> DEFINE d == Taken(ds, cs)[o]
             u == Unsuppressed(ds, cs, o, d)
             bp == cs[o].parts
  <2>1. /\ DOMAIN u = BlockFields /\ u.own = DOMAIN bp
        /\ DOMAIN u.parts = DOMAIN bp \cup DOMAIN ds[d].parts
        /\ \A k \in DOMAIN bp : u.parts[k] = bp[k]
    BY UnsuppressedFacts
  <2>2. Trimmed(u, cs[o].suppress, BlockProfile(ds, cs, o))
    BY <1>1, TakenBlock
  <2> HIDE DEF u, bp
  <2>3. OwnParts(u, bp)
    BY <2>1 DEF OwnParts
  <2>4. OwnParts(BlockProfile(ds, cs, o), bp)
    BY <2>2, <2>3, OwnTrimmed
  <2>5. QED
    BY <1>1, <2>4 DEF bp
<1>2. CASE Taken(ds, cs)[o] = 0
  <2>1. BlockProfile(ds, cs, o) = Alone(ds, cs, o)
    BY <1>2 DEF BlockProfile
  <2>2. /\ DOMAIN Alone(ds, cs, o) = BlockFields
        /\ Alone(ds, cs, o).own = DOMAIN cs[o].parts
        /\ Alone(ds, cs, o).parts = cs[o].parts
        /\ Alone(ds, cs, o).pending = cs[o].suppress
    BY DEF Alone, BlockFields
  <2>3. QED
    BY <2>1, <2>2 DEF OwnParts
<1>3. QED
  BY <1>1, <1>2

\* A block's profile after the assumptions: all it sets, nothing it suppresses.
LEMMA BlockDecides ==
  ASSUME NEW ds, NEW E, Detection(ds, E), IsFiniteSet(E), NEW X, NEW cs \in Seq(X),
         NEW o \in DOMAIN cs, NoRanges(cs[o].parts),
         NEW lost, NEW v, AfterFlush(ds, BlockProfile(ds, cs, o), lost, v)
  PROVE  OwnParts(v, cs[o].parts) /\ Suppresses(v, cs[o])
<1>1. /\ OwnParts(BlockProfile(ds, cs, o), cs[o].parts)
      /\ Taken(ds, cs)[o] = 0 =>
           /\ DOMAIN BlockProfile(ds, cs, o).parts = DOMAIN cs[o].parts
           /\ BlockProfile(ds, cs, o).pending = cs[o].suppress
  BY BlockOwn
<1>2. OwnParts(v, cs[o].parts)
  BY <1>1, OwnSettled
<1>3. CASE Taken(ds, cs)[o] = 0
  <2> DEFINE x == BlockProfile(ds, cs, o)
             b == cs[o]
  <2>1. /\ OwnParts(x, b.parts) /\ NoRanges(b.parts)
        /\ DOMAIN x.parts = DOMAIN b.parts /\ x.pending = b.suppress /\ AfterFlush(ds, x, lost, v)
    BY <1>1, <1>3
  <2> HIDE DEF x, b
  <2>2. Suppresses(v, b)
    BY <2>1, AloneSuppresses
  <2>3. QED
    BY <1>2, <2>2 DEF b
<1>4. CASE Taken(ds, cs)[o] # 0
  <2>1. PICK nd \in Nat : DOMAIN ds = 1..nd
    BY DEF Detection
  <2>2. DOMAIN cs = 1..Len(cs) /\ Len(cs) \in Nat
    OBVIOUS
  <2>3. Taken(ds, cs)[o] \in DOMAIN ds
    BY <1>4, <2>1, <2>2, TakenIs
  <2>4. QED
    BY <1>1, <1>2, <1>4, <2>3, TakenSuppresses
<1>5. QED
  BY <1>3, <1>4

\* All of a block's say over its profile, in a state.
LEMMA Decides ==
  ASSUME LoadInv, phase = "ready", NEW p \in ToSet(profiles), p.by # 0
  PROVE  LET b == config[p.by]
         IN  /\ \A k \in DOMAIN b.parts :
                  \/ k \in DOMAIN p.parts /\ p.parts[k] = b.parts[k]
                  \/ k \in Widgets /\ (failed \/ sample.incomplete)
             /\ \A k \in (DOMAIN p.parts \ DOMAIN b.parts) \cap b.suppress :
                  k \in Numbers /\ IsRange(p.parts[k])
             /\ "companion.memberUid" \in b.suppress /\ "companion" \in DOMAIN p.parts \ DOMAIN b.parts
                  => "memberUid" \notin p.parts["companion"].attrs
<1>1. PICK D \in Directories : Detection(detected, D)
  BY DEF LoadInv, StepsOK, Detected
<1>2. IsFiniteSet(D)
  BY <1>1, ProfileLoadAssumption
<1>3. PICK cs : cs = config
  OBVIOUS
<1>4. PICK ds : ds = detected
  OBVIOUS
<1>5. PICK ou : ou = sample.ou
  OBVIOUS
<1>6. PICK lost : lost = failed
  OBVIOUS
<1>7. cs \in Configs /\ cs \in Seq(ToSet(cs))
  BY <1>3, ProfileLoadAssumption DEF LoadInv, StepsOK
<1>8. \A o \in DOMAIN cs : NoRanges(cs[o].parts)
  <2>1. \A o \in DOMAIN cs : cs[o] \in ToSet(cs)
    BY DEF ToSet
  <2>2. QED
    BY <1>7, <2>1, ProfileLoadAssumption DEF NoRanges
<1>9. Detection(ds, D)
  BY <1>1, <1>4
<1> DEFINE m == MergeCore(ds, cs)
           w == WithAssumptions(ds, m, ou, lost)
           F == FromBlocks(ds, cs) \cup FromDetection(ds, cs)
<1>10. m \in Seq(F)
  BY <1>7, <1>9, Merges
<1>12. /\ profiles = Validated(w)
       /\ ~Refused(w, failed \/ sample.incomplete)
  BY <1>3, <1>4, <1>5, <1>6 DEF LoadInv, StepsOK, Assuming
<1>13. \A f \in F : DOMAIN f = BlockFields
  BY BlockProfileFacts DEF FromBlocks, FromDetection, OnlyDetected, BlockFields
<1>14. \A f \in F : f.by # 0 => \E o \in DOMAIN cs : f = BlockProfile(ds, cs, o) /\ f.by = o
  <2>1. \A f \in FromDetection(ds, cs) : f.by = 0
    BY DEF FromDetection, OnlyDetected
  <2>2. QED
    BY <2>1, BlockProfileFacts DEF FromBlocks
<1> HIDE DEF F, m
<1>15. \A j \in DOMAIN m : m[j] \in F
  BY <1>10
<1>16. \A j \in DOMAIN m : DOMAIN m[j] = BlockFields
  BY <1>13, <1>15
<1>17. DOMAIN Validated(w) = DOMAIN m /\ DOMAIN w = DOMAIN m
  BY DEF Validated, WithAssumptions, Flushed, Assumed
<1>18. PICK i \in DOMAIN m : p = Validated(w)[i]
  BY <1>12, <1>17 DEF ToSet
<1>19. /\ AfterFlush(ds, m[i], lost, w[i])
       /\ Otherwise(w[i], Validated(w)[i])
       /\ DOMAIN Validated(w)[i].parts = DOMAIN w[i].parts \ Unknown(w, i)
       /\ \A k \in DOMAIN Validated(w)[i].parts : Validated(w)[i].parts[k] = w[i].parts[k]
       /\ InEffect(ds, m[i], lost, Validated(w)[i])
  BY <1>16, <1>18, EffectIs
<1> HIDE DEF w
<1> DEFINE v == w[i]
<1>20. /\ Otherwise(v, p) /\ DOMAIN p.parts = DOMAIN v.parts \ Unknown(w, i)
       /\ \A k \in DOMAIN p.parts : p.parts[k] = v.parts[k]
       /\ AfterFlush(ds, m[i], lost, v)
  BY <1>18, <1>19
<1>21. p.by = m[i].by
  <2> DEFINE y == m[i]
  <2>1. DOMAIN y = BlockFields /\ AfterFlush(ds, y, lost, v)
    BY <1>16, <1>20
  <2> HIDE DEF y, v
  <2>2. DOMAIN v = BlockFields /\ v.by = y.by
    BY <2>1, CarriedOver
  <2>3. p.by = v.by
    BY <1>20, <2>2 DEF Otherwise, BlockFields
  <2>4. QED
    BY <2>2, <2>3 DEF y
<1>22. PICK o \in DOMAIN cs : m[i] = BlockProfile(ds, cs, o) /\ p.by = o
  BY <1>14, <1>15, <1>18, <1>21
<1>23. OwnParts(v, cs[o].parts) /\ Suppresses(v, cs[o])
  <2>1. AfterFlush(ds, BlockProfile(ds, cs, o), lost, v)
    BY <1>20, <1>22
  <2> HIDE DEF v
  <2>2. QED
    BY <1>2, <1>7, <1>8, <1>9, <2>1, BlockDecides
<1> DEFINE b == cs[o]
<1>24. config[p.by] = b
  BY <1>3, <1>22
<1>25. Unknown(w, i) \subseteq Widgets
  BY DEF Unknown
<1>26. ASSUME NEW k \in DOMAIN b.parts
       PROVE  \/ k \in DOMAIN p.parts /\ p.parts[k] = b.parts[k]
              \/ k \in Widgets /\ (failed \/ sample.incomplete)
  <2>1. k \in DOMAIN v.parts /\ v.parts[k] = b.parts[k] /\ k \in v.own
    BY <1>23 DEF OwnParts
  <2>2. CASE k \in Unknown(w, i)
    <3>1. Unknown(w, i) \cap w[i].own # {}
      BY <2>1, <2>2
    <3>2. \E j \in DOMAIN w : Unknown(w, j) \cap w[j].own # {}
      BY <1>17, <1>18, <3>1
    <3>3. QED
      BY <1>12, <1>25, <2>2, <3>2 DEF Refused
  <2>3. CASE k \notin Unknown(w, i)
    BY <1>20, <2>1, <2>3
  <2>4. QED
    BY <2>2, <2>3
<1> HIDE DEF v, b
<1>27. Suppresses(v, b)
  BY <1>23 DEF b
<1>28. Suppresses(p, b)
  BY <1>20, <1>27 DEF Suppresses
<1>29. QED
  BY <1>24, <1>26, <1>28 DEF Suppresses

\* OperatorDecides, for all directories and configs: what a block sets is in
\* effect as set, what it suppresses is not (merge.rs merge_one, suppress;
\* assume.rs apply, flush_pending).
THEOREM OperatorsChoice == LoadSpec => []OperatorDecides
<1>1. LoadInv => OperatorDecides
  <2> SUFFICES ASSUME LoadInv, phase = "ready", NEW p \in ToSet(profiles), p.by # 0
               PROVE  LET b == config[p.by]
                      IN  /\ \A k \in DOMAIN b.parts :
                               \/ k \in DOMAIN p.parts /\ p.parts[k] = b.parts[k]
                               \/ k \in Widgets /\ (failed \/ sample.incomplete)
                          /\ \A k \in (DOMAIN p.parts \ DOMAIN b.parts) \cap b.suppress :
                               k \in Numbers /\ IsRange(p.parts[k])
                          /\ "companion.memberUid" \in b.suppress
                               /\ "companion" \in DOMAIN p.parts \ DOMAIN b.parts
                               => "memberUid" \notin p.parts["companion"].attrs
    BY DEF OperatorDecides
  <2>1. QED
    BY Decides
<1>2. QED
  BY LoadInvariant, <1>1, PTL
-----------------------------------------------------------------------------
(***************************************************************************)
(* What a refused config says of an undisturbed detection.                 *)
(***************************************************************************)

\* Profiles that look alike to the blocks: by name, place and structural class.
Alike(ds, es) ==
  /\ DOMAIN ds = DOMAIN es
  /\ \A d \in DOMAIN ds :
       ds[d].name = es[d].name /\ ds[d].at = es[d].at /\ ds[d].structural = es[d].structural

LEMMA AlikeTaken ==
  ASSUME NEW ds, NEW es, Alike(ds, es), NEW cs
  PROVE  Taken(ds, cs) = Taken(es, cs)
<1>1. ASSUME NEW o \in DOMAIN cs
      PROVE  {d \in DOMAIN ds : ds[d].name = cs[o].name} = {d \in DOMAIN es : es[d].name = cs[o].name}
  BY DEF Alike
<1>2. Named(ds, cs) = Named(es, cs)
  BY <1>1 DEF Named
<1>3. ASSUME NEW o \in DOMAIN cs
      PROVE  {d \in DOMAIN ds : /\ ds[d].at \in cs[o].base
                                /\ \E c \in cs[o].classes : ds[d].structural \in StructuralOf(c)}
             = {d \in DOMAIN es : /\ es[d].at \in cs[o].base
                                  /\ \E c \in cs[o].classes : es[d].structural \in StructuralOf(c)}
  BY DEF Alike
<1>4. Placed(ds, cs) = Placed(es, cs)
  BY <1>3 DEF Placed
<1>5. QED
  BY <1>2, <1>4 DEF Taken

\* A name no profile has, whatever the patterns made of what was detected.
LEMMA NamelessStays ==
  ASSUME NEW ds, NEW es, Alike(ds, es), NEW cs, NEW name,
         \A f \in FromBlocks(ds, cs) \cup FromDetection(ds, cs) : f.name # name
  PROVE  \A f \in FromBlocks(es, cs) \cup FromDetection(es, cs) : f.name # name
<1>1. Taken(ds, cs) = Taken(es, cs)
  BY AlikeTaken
<1>2. ASSUME NEW f \in FromBlocks(es, cs) PROVE f.name # name
  <2>1. PICK o \in DOMAIN cs : Enabled(es, cs, o) /\ f = BlockProfile(es, cs, o)
    BY DEF FromBlocks
  <2>2. Enabled(ds, cs, o)
    BY <1>1, <2>1 DEF Enabled
  <2>3. BlockProfile(ds, cs, o) \in FromBlocks(ds, cs)
    BY <2>2 DEF FromBlocks
  <2>4. BlockProfile(ds, cs, o).name # name
    BY <2>3
  <2>5. BlockProfile(ds, cs, o).name = cs[o].name /\ BlockProfile(es, cs, o).name = cs[o].name
    BY BlockProfileFacts
  <2>6. QED
    BY <2>1, <2>4, <2>5
<1>3. ASSUME NEW f \in FromDetection(es, cs) PROVE f.name # name
  <2>1. PICK d \in DOMAIN es \ ToSet(Taken(es, cs)) : f = OnlyDetected(es, cs, d)
    BY DEF FromDetection
  <2>2. d \in DOMAIN ds \ ToSet(Taken(ds, cs)) /\ ds[d].name = es[d].name
    BY <1>1, <2>1 DEF Alike
  <2>3. OnlyDetected(ds, cs, d) \in FromDetection(ds, cs)
    BY <2>2 DEF FromDetection
  <2>4. OnlyDetected(ds, cs, d).name # name
    BY <2>3
  <2>5. OnlyDetected(ds, cs, d).name = ds[d].name /\ OnlyDetected(es, cs, d).name = es[d].name
    BY DEF OnlyDetected
  <2>6. QED
    BY <2>1, <2>2, <2>4, <2>5
<1>4. QED
  BY <1>2, <1>3

\* A block that points at nothing is what is refused.
LEMMA RefusedIs ==
  ASSUME NEW ds, NEW E, Detection(ds, E), NEW X, NEW cs \in Seq(X),
         \A o \in DOMAIN cs : NoRanges(cs[o].parts), NEW ou, NEW lost,
         NEW missed, Refused(WithAssumptions(ds, MergeCore(ds, cs), ou, lost), missed)
  PROVE  \E o \in DOMAIN cs, k \in Widgets :
           /\ Enabled(ds, cs, o) /\ k \in DOMAIN cs[o].parts
           /\ \A f \in FromBlocks(ds, cs) \cup FromDetection(ds, cs) : f.name # cs[o].parts[k]
<1> DEFINE F == FromBlocks(ds, cs) \cup FromDetection(ds, cs)
           m == MergeCore(ds, cs)
           w == WithAssumptions(ds, m, ou, lost)
<1>1. m \in Seq(F) /\ ToSet(m) = F
  BY Merges
<1>2. \A f \in F : DOMAIN f = BlockFields
  BY BlockProfileFacts DEF FromBlocks, FromDetection, OnlyDetected, BlockFields
<1>3. DOMAIN w = DOMAIN m
  BY DEF WithAssumptions, Flushed, Assumed
<1>4. PICK i \in DOMAIN w : Unknown(w, i) \cap w[i].own # {}
  BY DEF Refused
<1>5. PICK k : k \in Unknown(w, i) /\ k \in w[i].own
  BY <1>4
<1>5a. /\ k \in DOMAIN w[i].parts /\ k \in Widgets
       /\ \A j \in DOMAIN w : w[j].name # w[i].parts[k]
  BY <1>5 DEF Unknown
<1> HIDE DEF F, m
<1>6. \A j \in DOMAIN m : m[j] \in F /\ DOMAIN m[j] = BlockFields
  BY <1>1, <1>2
<1>7. \A j \in DOMAIN m : AfterFlush(ds, m[j], lost, w[j])
  BY <1>6, EffectIs
<1> HIDE DEF w
<1>8. \A j \in DOMAIN m : w[j].name = m[j].name /\ w[j].own = m[j].own
  BY <1>6, <1>7, CarriedOver
<1>9. m[i].own # {}
  BY <1>3, <1>5, <1>8
<1>10. m[i] \in FromBlocks(ds, cs)
  <2>1. \A f \in FromDetection(ds, cs) : f.own = {}
    BY DEF FromDetection, OnlyDetected
  <2>2. QED
    BY <1>3, <1>6, <1>9, <2>1 DEF F
<1>11. PICK o \in DOMAIN cs : Enabled(ds, cs, o) /\ m[i] = BlockProfile(ds, cs, o)
  BY <1>10 DEF FromBlocks
<1>12. AfterFlush(ds, BlockProfile(ds, cs, o), lost, w[i]) /\ OwnParts(BlockProfile(ds, cs, o), cs[o].parts)
  BY <1>3, <1>7, <1>11, BlockOwn
<1>13. OwnParts(w[i], cs[o].parts)
  <2> DEFINE x == BlockProfile(ds, cs, o)
             v == w[i]
  <2>1. AfterFlush(ds, x, lost, v) /\ OwnParts(x, cs[o].parts) /\ NoRanges(cs[o].parts)
    BY <1>12
  <2> HIDE DEF x, v
  <2>2. OwnParts(v, cs[o].parts)
    BY <2>1, OwnSettled
  <2>3. QED
    BY <2>2 DEF v
<1>14. k \in DOMAIN cs[o].parts /\ w[i].parts[k] = cs[o].parts[k]
  BY <1>5, <1>13 DEF OwnParts
<1>15. ASSUME NEW f \in F PROVE f.name # cs[o].parts[k]
  <2>1. PICK j \in DOMAIN m : m[j] = f
    BY <1>1 DEF ToSet
  <2>2. QED
    BY <1>3, <1>5a, <1>8, <1>14, <2>1
<1>16. QED
  BY <1>5a, <1>11, <1>14, <1>15 DEF F

\* And such a block is refused without the patterns and assumptions, too.
LEMMA PointsNowhere ==
  ASSUME NEW ds, NEW E, Detection(ds, E), NEW X, NEW cs \in Seq(X),
         NEW o \in DOMAIN cs, NEW k \in Widgets, Enabled(ds, cs, o), k \in DOMAIN cs[o].parts,
         \A f \in FromBlocks(ds, cs) \cup FromDetection(ds, cs) : f.name # cs[o].parts[k]
  PROVE  Refused(MergeCore(ds, cs), FALSE)
<1> DEFINE F == FromBlocks(ds, cs) \cup FromDetection(ds, cs)
           m == MergeCore(ds, cs)
           x == BlockProfile(ds, cs, o)
<1>1. m \in Seq(F) /\ ToSet(m) = F
  BY Merges
<1>2. x \in F
  BY DEF FromBlocks
<1>3. OwnParts(x, cs[o].parts)
  BY BlockOwn
<1>3a. \A f \in F : f.name # cs[o].parts[k]
  OBVIOUS
<1> HIDE DEF F, m, x
<1>4. PICK i \in DOMAIN m : m[i] = x
  BY <1>1, <1>2 DEF ToSet
<1>5. k \in DOMAIN m[i].parts /\ m[i].parts[k] = cs[o].parts[k] /\ k \in m[i].own
  BY <1>3, <1>4 DEF OwnParts
<1>6. \A j \in DOMAIN m : m[j] \in F
  BY <1>1
<1>7. \A j \in DOMAIN m : m[j].name # m[i].parts[k]
  BY <1>3a, <1>5, <1>6
<1>8. k \in Unknown(m, i)
  BY <1>5, <1>7 DEF Unknown
<1>9. Refused(m, FALSE)
  BY <1>5, <1>8 DEF Refused
<1>10. QED
  BY <1>9 DEF m

\* What the patterns add changes neither names nor places.
LEMMA PatternsKeep ==
  ASSUME NEW s, NEW X, s.containers \in Seq(X),
         NEW E, Finite(E), \A c \in ToSet(s.containers) : c.entries \subseteq E /\ c.dn \in Places,
         \A e \in E : e.gidNumber \subseteq 0..MaxId
  PROVE  /\ Detection(Infer(s), E)
         /\ Alike(OtherParts(PosixParts(Infer(s), s)), Infer(s))
<1> DEFINE known == s.found \cup UNION {s.containers[i].entries : i \in DOMAIN s.containers}
           ps == Infer(s)
           qs == PosixParts(ps, s)
<1>1. (\E n \in Nat : DOMAIN ps = 1..n) /\ \A i \in DOMAIN ps : RawProfile(ps[i], E)
  BY Inferred
<1>2. qs = [i \in DOMAIN ps |-> PosixRules(ps[i], known, s.lookedUp)]
  BY DEF PosixParts
<1> HIDE DEF ps, qs, known
<1>3. \A i \in DOMAIN ps : PosixProfile(qs[i], ps[i])
  BY <1>1, <1>2, PosixFacts DEF Finite
<1>4. DOMAIN <<>> = {}
  OBVIOUS
<1>5. \A i \in DOMAIN ps : DetectedProfile(ps[i], E)
  BY <1>1, <1>4 DEF RawProfile, DetectedProfile
<1>6. Detection(ps, E)
  BY <1>1, <1>5 DEF Detection
<1>7. DOMAIN qs = DOMAIN ps /\ DOMAIN OtherParts(qs) = DOMAIN qs
  BY <1>2 DEF OtherParts
<1>8. ASSUME NEW i \in DOMAIN ps
      PROVE  LET q == OtherParts(qs)[i]
             IN  q.name = ps[i].name /\ q.at = ps[i].at /\ q.structural = ps[i].structural
  <2> DEFINE q == qs[i]
  <2>1. DOMAIN q = ProfileFields /\ q.name = ps[i].name /\ q.at = ps[i].at
        /\ q.structural = ps[i].structural
    BY <1>3 DEF PosixProfile
  <2>2. PICK v : OtherParts(qs)[i] = [q EXCEPT !.parts = v]
    BY <1>7 DEF OtherParts
  <2> HIDE DEF q
  <2>3. QED
    BY <2>1, <2>2 DEF ProfileFields
<1>9. Alike(OtherParts(qs), ps)
  BY <1>7, <1>8 DEF Alike
<1>10. QED
  BY <1>6, <1>9 DEF ps, qs

\* With nothing missing and no container cut short, all there is was sampled.
LEMMA SampledAll ==
  ASSUME LoadInv, phase = "refused", \A c \in ToSet(sample.containers) : c.entries = In(c.dn)
  PROVE  /\ sample.containers = WholeSample.containers
         /\ ~failed /\ ~sample.incomplete /\ Refused(profiles, FALSE)
<1> DEFINE C == [dn : ToSet(Order), entries : SUBSET dir]
           old == sample.containers
           new == [i \in DOMAIN Populated |-> [dn |-> Populated[i], entries |-> In(Populated[i])]]
           w == Populated
<1>1. Refused(profiles, failed \/ sample.incomplete)
  BY DEF LoadInv, StepsOK
<1>2. ~failed /\ ~sample.incomplete
  BY <1>1 DEF Refused
<1>3. Refused(profiles, FALSE)
  BY <1>1 DEF Refused
<1>4. /\ DOMAIN sample = SampleFields /\ old \in Seq(C)
      /\ Dns(old) \o todo = w /\ todo = <<>>
  BY <1>2 DEF LoadInv, SampleOK
<1>5. WholeSample.containers = new
  BY <1>4 DEF WholeSample, SampleFields
<1>6. \A i \in DOMAIN old : old[i] \in C
  <2> HIDE DEF C, old
  <2>1. QED
    BY <1>4
<1>7. DOMAIN old = 1..Len(old) /\ Len(old) \in Nat
  <2> HIDE DEF C, old
  <2>1. QED
    BY <1>4
<1> HIDE DEF w
<1>8. w = Dns(old)
  <2> DEFINE b == Dns(old)
  <2>1. DOMAIN b = 1..Len(old) /\ \A i \in 1..Len(old) : b[i] \in ToSet(Order)
    BY <1>6, <1>7 DEF Dns
  <2>2. b \in [1..Len(old) -> ToSet(Order)]
    BY <2>1 DEF Dns
  <2>3. b \in Seq(ToSet(Order))
    <3> HIDE DEF b, old
    <3>1. QED
      BY <1>7, <2>2, IsAList
  <2> HIDE DEF b
  <2>4. b \o <<>> = b
    BY <2>3
  <2>5. QED
    BY <1>4, <2>4 DEF b
<1>9. DOMAIN w = DOMAIN old /\ \A i \in DOMAIN old : w[i] = old[i].dn
  BY <1>8 DEF Dns
<1>10. \A i \in DOMAIN old : old[i].entries = In(old[i].dn)
  BY DEF ToSet
<1>11. \A i \in DOMAIN old : old[i] = [dn |-> w[i], entries |-> In(w[i])]
  <2> SUFFICES ASSUME NEW i \in DOMAIN old PROVE old[i] = [dn |-> w[i], entries |-> In(w[i])]
    OBVIOUS
  <2> DEFINE c == old[i]
             e == In(w[i])
             d == w[i]
  <2>1. c \in C /\ c.dn = d /\ c.entries = e
    BY <1>6, <1>9, <1>10
  <2> HIDE DEF c, e, d, old, w
  <2>2. c = [dn |-> c.dn, entries |-> c.entries]
    BY <2>1
  <2>3. c = [dn |-> d, entries |-> e]
    BY <2>1, <2>2
  <2>4. QED
    BY <2>3 DEF c, d, e
<1>12. new = [i \in DOMAIN w |-> [dn |-> w[i], entries |-> In(w[i])]]
  BY DEF w
<1> HIDE DEF new
<1>13. old = [i \in 1..Len(old) |-> old[i]]
  <2> HIDE DEF C, old
  <2>1. QED
    BY <1>4
<1>14. old = new
  <2> HIDE DEF old
  <2>1. QED
    BY <1>7, <1>9, <1>11, <1>12, <1>13
<1>15. QED
  BY <1>2, <1>3, <1>5, <1>14

\* A refusal is the config's fault.
LEMMA NeverStops ==
  ASSUME LoadInv, phase = "refused", \A c \in ToSet(sample.containers) : c.entries = In(c.dn)
  PROVE  Refused(MergeCore(Infer(WholeSample), config), FALSE)
<1> DEFINE C == [dn : ToSet(Order), entries : SUBSET dir]
<1>1. sample.containers = WholeSample.containers /\ Refused(profiles, FALSE)
  BY SampledAll
<1>2. Infer(WholeSample) = Infer(sample)
  BY <1>1 DEF Infer
<1>3. PICK s : s = sample
  OBVIOUS
<1>4. PICK E : E = dir
  OBVIOUS
<1>5. PICK cs : cs = config
  OBVIOUS
<1>6. sample.containers \in Seq(C) /\ dir \in Directories
  BY DEF LoadInv, SampleOK, StepsOK
<1>7. Finite(E) /\ \A e \in E : e.gidNumber \subseteq 0..MaxId
  BY <1>4, <1>6, ProfileLoadAssumption DEF Finite
<1>8. ToSet(Order) \subseteq Places
  BY ProfileLoadAssumption DEF Places, ToSet
<1>9. s.containers \in Seq(C) /\ \A c \in ToSet(s.containers) : c.entries \subseteq E /\ c.dn \in Places
  <2>1. s.containers \in Seq(C)
    BY <1>3, <1>6
  <2>2. \A c \in ToSet(s.containers) : c \in C
    <3> HIDE DEF C
    <3>1. QED
      BY <2>1 DEF ToSet
  <2>3. QED
    BY <1>4, <1>8, <2>1, <2>2
<1> HIDE DEF C
<1>10. /\ Detection(Infer(s), E) /\ Alike(OtherParts(PosixParts(Infer(s), s)), Infer(s))
       /\ Detection(OtherParts(PosixParts(Infer(s), s)), E)
  BY <1>7, <1>9, PatternsKeep, Detects
<1> DEFINE ds == OtherParts(PosixParts(Infer(s), s))
           es == Infer(s)
<1>11. detected = ds
  BY <1>3 DEF LoadInv, StepsOK, Detected
<1>12. PICK ou : ou = sample.ou
  OBVIOUS
<1>13. PICK lost : lost = failed
  OBVIOUS
<1>14. profiles = WithAssumptions(ds, MergeCore(ds, cs), ou, lost)
  BY <1>5, <1>11, <1>12, <1>13 DEF LoadInv, StepsOK, Assuming
<1>15. cs \in Seq(ToSet(cs)) /\ \A o \in DOMAIN cs : NoRanges(cs[o].parts)
  <2>1. cs \in Configs
    BY <1>5 DEF LoadInv, StepsOK
  <2>2. \A o \in DOMAIN cs : cs[o] \in ToSet(cs)
    BY DEF ToSet
  <2>3. QED
    BY <2>1, <2>2, ProfileLoadAssumption DEF NoRanges
<1> HIDE DEF ds, es
<1>16. Detection(ds, E) /\ Detection(es, E) /\ Alike(ds, es)
  BY <1>10 DEF ds, es
<1>17. PICK o \in DOMAIN cs, k \in Widgets :
         /\ Enabled(ds, cs, o) /\ k \in DOMAIN cs[o].parts
         /\ \A f \in FromBlocks(ds, cs) \cup FromDetection(ds, cs) : f.name # cs[o].parts[k]
  <2>1. PICK missed : missed = FALSE
    OBVIOUS
  <2>2. Refused(WithAssumptions(ds, MergeCore(ds, cs), ou, lost), missed)
    BY <1>1, <1>14, <2>1
  <2>3. QED
    BY <1>15, <1>16, <2>2, RefusedIs
<1>18. Enabled(es, cs, o)
  BY <1>16, <1>17, AlikeTaken DEF Enabled
<1>19. \A f \in FromBlocks(es, cs) \cup FromDetection(es, cs) : f.name # cs[o].parts[k]
  <2> DEFINE name == cs[o].parts[k]
  <2>1. \A f \in FromBlocks(ds, cs) \cup FromDetection(ds, cs) : f.name # name
    BY <1>17
  <2> HIDE DEF name
  <2>2. \A f \in FromBlocks(es, cs) \cup FromDetection(es, cs) : f.name # name
    BY <1>16, <2>1, NamelessStays
  <2>3. QED
    BY <2>2 DEF name
<1>20. Refused(MergeCore(es, cs), FALSE)
  BY <1>15, <1>16, <1>17, <1>18, <1>19, PointsNowhere
<1>21. QED
  BY <1>2, <1>3, <1>5, <1>20 DEF es

\* DetectionNeverStops, for all directories, configs and limits of the sample:
\* a config is refused only if it points at a profile that a detection
\* without a fault does not find either (merge.rs validate, load.rs).
THEOREM DetectionsFault == LoadSpec => []DetectionNeverStops
<1>1. LoadInv => DetectionNeverStops
  <2> SUFFICES ASSUME LoadInv, phase = "refused", \A c \in ToSet(sample.containers) : c.entries = In(c.dn)
               PROVE  Refused(MergeCore(Infer(WholeSample), config), FALSE)
    BY DEF DetectionNeverStops
  <2>1. QED
    BY NeverStops
<1>2. QED
  BY LoadInvariant, <1>1, PTL
-----------------------------------------------------------------------------
(***************************************************************************)
(* Which profiles are in effect, and what points at them.                  *)
(***************************************************************************)
Unique(ds) == \A d, e \in DOMAIN ds : ds[d].name = ds[e].name => d = e

AllMerged(ds, cs) == FromBlocks(ds, cs) \cup FromDetection(ds, cs)

\* Of each detected profile, one is made; none is, only if a block disables it.
LEMMA MergedOnce ==
  ASSUME NEW ds, NEW E, Detection(ds, E), NEW X, NEW cs \in Seq(X), NEW d \in DOMAIN ds
  PROVE  /\ \A f, g \in AllMerged(ds, cs) : f.of = d /\ g.of = d => f = g
         /\ (\A o \in DOMAIN cs : cs[o].enabled) => \E f \in AllMerged(ds, cs) : f.of = d
<1>1. PICK nd \in Nat : DOMAIN ds = 1..nd
  BY DEF Detection
<1>2. DOMAIN cs = 1..Len(cs) /\ Len(cs) \in Nat
  OBVIOUS
<1>3. /\ DOMAIN Taken(ds, cs) = DOMAIN cs
      /\ \A o, u \in DOMAIN cs : Taken(ds, cs)[o] # 0 /\ Taken(ds, cs)[o] = Taken(ds, cs)[u] => o = u
  BY <1>1, <1>2, TakenIs
<1>4. d # 0
  BY <1>1
<1>5. \A f \in FromBlocks(ds, cs) :
         \E o \in DOMAIN cs : f = BlockProfile(ds, cs, o) /\ f.of = Taken(ds, cs)[o]
  BY BlockProfileFacts DEF FromBlocks
<1>6. \A f \in FromDetection(ds, cs) :
         f = OnlyDetected(ds, cs, f.of) /\ f.of \notin ToSet(Taken(ds, cs))
  BY DEF FromDetection, OnlyDetected
<1>7. \A o \in DOMAIN cs : Taken(ds, cs)[o] \in ToSet(Taken(ds, cs))
  BY <1>3 DEF ToSet
<1>8. ASSUME NEW f \in AllMerged(ds, cs), NEW g \in AllMerged(ds, cs), f.of = d, g.of = d
      PROVE  f = g
  <2>1. CASE f \in FromBlocks(ds, cs) /\ g \in FromBlocks(ds, cs)
    BY <1>3, <1>4, <1>5, <1>8, <2>1
  <2>2. CASE f \in FromDetection(ds, cs) /\ g \in FromDetection(ds, cs)
    BY <1>6, <1>8, <2>2
  <2>3. CASE f \in FromBlocks(ds, cs) /\ g \in FromDetection(ds, cs)
    BY <1>5, <1>6, <1>7, <1>8, <2>3
  <2>4. CASE f \in FromDetection(ds, cs) /\ g \in FromBlocks(ds, cs)
    BY <1>5, <1>6, <1>7, <1>8, <2>4
  <2>5. QED
    BY <2>1, <2>2, <2>3, <2>4 DEF AllMerged
<1>9. ASSUME \A o \in DOMAIN cs : cs[o].enabled
      PROVE  \E f \in AllMerged(ds, cs) : f.of = d
  <2>1. CASE d \in ToSet(Taken(ds, cs))
    <3>1. PICK o \in DOMAIN cs : Taken(ds, cs)[o] = d
      BY <1>3, <2>1 DEF ToSet
    <3>2. Enabled(ds, cs, o)
      BY <1>4, <1>9, <3>1 DEF Enabled
    <3>3. BlockProfile(ds, cs, o) \in AllMerged(ds, cs)
      BY <3>2 DEF FromBlocks, AllMerged
    <3>4. BlockProfile(ds, cs, o).of = d
      BY <3>1, BlockProfileFacts
    <3>5. QED
      BY <3>3, <3>4
  <2>2. CASE d \notin ToSet(Taken(ds, cs))
    <3>1. OnlyDetected(ds, cs, d) \in AllMerged(ds, cs)
      BY <2>2 DEF FromDetection, AllMerged
    <3>2. OnlyDetected(ds, cs, d).of = d
      BY DEF OnlyDetected
    <3>3. QED
      BY <3>1, <3>2
  <2>3. QED
    BY <2>1, <2>2
<1>10. QED
  BY <1>8, <1>9

\* The first block that names a profile no other is named like is given it.
LEMMA NamedTakes ==
  ASSUME NEW ds, NEW E, Detection(ds, E), Unique(ds), NEW X, NEW cs \in Seq(X),
         NEW d \in DOMAIN ds, {o \in DOMAIN cs : cs[o].name = ds[d].name} # {}
  PROVE  LET o == First({u \in DOMAIN cs : cs[u].name = ds[d].name})
         IN  o \in DOMAIN cs /\ Taken(ds, cs)[o] = d
<1> DEFINE those == {u \in DOMAIN cs : cs[u].name = ds[d].name}
           o == First(those)
           n == Len(cs)
           start == [u \in 1..n |-> 0]
           fits == Named(ds, cs)
           named == Handed(fits, start)
<1>1. PICK nd \in Nat : DOMAIN ds = 1..nd
  BY DEF Detection
<1>2. DOMAIN cs = 1..n /\ n \in Nat
  OBVIOUS
<1>3. o \in those /\ \A u \in those : o <= u
  <2>1. those \subseteq Nat /\ those # {}
    BY <1>2
  <2> HIDE DEF those
  <2>2. QED
    BY <2>1, FirstIs
<1>4. o \in 1..n /\ cs[o].name = ds[d].name /\ o \in DOMAIN cs
  BY <1>2, <1>3
<1>5. Given(fits, start, named, n) /\ Given(Placed(ds, cs), named, Taken(ds, cs), n)
  BY <1>1, <1>2, TakenFacts
<1>6. \A u \in those : fits[u] = {d}
  <2> SUFFICES ASSUME NEW u \in those PROVE fits[u] = {d}
    OBVIOUS
  <2>1. {e \in DOMAIN ds : ds[e].name = cs[u].name} = {d}
    BY DEF Unique
  <2>2. fits[u] = {First({d})}
    BY <2>1 DEF Named
  <2>3. First({d}) = d
    BY <1>1 DEF First
  <2>4. QED
    BY <2>2, <2>3
<1>7. \A u \in DOMAIN cs : d \in fits[u] => u \in those
  <2> SUFFICES ASSUME NEW u \in DOMAIN cs, d \in fits[u] PROVE u \in those
    OBVIOUS
  <2> DEFINE same == {e \in DOMAIN ds : ds[e].name = cs[u].name}
  <2>1. fits[u] = IF same = {} THEN {} ELSE {First(same)}
    BY DEF Named
  <2>2. same # {} /\ d = First(same)
    BY <2>1
  <2>3. First(same) \in same
    <3>1. same \subseteq Nat
      BY <1>1
    <3> HIDE DEF same
    <3>2. QED
      BY <2>2, <3>1, FirstIs
  <2>4. QED
    BY <2>2, <2>3
<1>8. DOMAIN start = 1..n /\ \A u \in 1..n : start[u] = 0
  OBVIOUS
<1>9. d # 0
  BY <1>1
<1> HIDE DEF those, o, n, start, fits, named
<1>10. named[o] # 0
  <2> SUFFICES ASSUME named[o] = 0 PROVE FALSE
    OBVIOUS
  <2>1. d \in fits[o] /\ o <= n
    BY <1>2, <1>3, <1>4, <1>6
  <2>2. PICK u \in 1..n : named[u] = d /\ (u < o \/ start[u] = d)
    BY <1>4, <1>5, <1>8, <2>1 DEF Given
  <2>3. u < o
    BY <1>8, <1>9, <2>2
  <2>4. d \in fits[u]
    BY <1>5, <1>8, <1>9, <2>2 DEF Given
  <2>5. o <= u
    BY <1>2, <1>3, <1>7, <2>4
  <2>6. QED
    BY <1>2, <1>4, <2>3, <2>5
<1>11. named[o] = d
  BY <1>3, <1>4, <1>5, <1>6, <1>8, <1>10 DEF Given
<1>12. DOMAIN named = 1..n
  BY <1>5, <1>8 DEF Given
<1>13. Taken(ds, cs)[o] = d
  BY <1>4, <1>5, <1>9, <1>11, <1>12 DEF Given
<1>14. QED
  BY <1>4, <1>13 DEF o, those

\* What pointed at a detected profile points at the one made of it.
LEMMA RenamedIs ==
  ASSUME NEW ds, NEW E, Detection(ds, E), Unique(ds), NEW X, NEW cs \in Seq(X),
         NEW g \in AllMerged(ds, cs), g.of # 0,
         NEW parts, NEW k \in DOMAIN parts \cap Widgets, ds[g.of].name = parts[k]
  PROVE  k \in DOMAIN Renamed(parts, ds, cs) /\ Renamed(parts, ds, cs)[k] = g.name
<1> DEFINE new == {o \in DOMAIN cs : Taken(ds, cs)[o] # 0 /\ ds[Taken(ds, cs)[o]].name = parts[k]}
<1>1. PICK nd \in Nat : DOMAIN ds = 1..nd
  BY DEF Detection
<1>2. DOMAIN cs = 1..Len(cs) /\ Len(cs) \in Nat
  OBVIOUS
<1>3. /\ DOMAIN Taken(ds, cs) = DOMAIN cs
      /\ \A o \in DOMAIN cs : Taken(ds, cs)[o] # 0 => Taken(ds, cs)[o] \in DOMAIN ds
      /\ \A o, u \in DOMAIN cs : Taken(ds, cs)[o] # 0 /\ Taken(ds, cs)[o] = Taken(ds, cs)[u] => o = u
  BY <1>1, <1>2, TakenIs
<1>4. /\ k \in DOMAIN Renamed(parts, ds, cs)
      /\ Renamed(parts, ds, cs)[k] = IF new # {} THEN cs[CHOOSE o \in new : TRUE].name ELSE parts[k]
  BY DEF Renamed
<1>5. CASE g \in FromBlocks(ds, cs)
  <2>1. PICK o \in DOMAIN cs : g = BlockProfile(ds, cs, o)
    BY <1>5 DEF FromBlocks
  <2>2. g.of = Taken(ds, cs)[o] /\ g.name = cs[o].name
    BY <2>1, BlockProfileFacts
  <2>3. o \in new
    BY <2>2
  <2>4. \A u \in new : u = o
    BY <1>3, <2>2 DEF Unique
  <2> HIDE DEF new
  <2>5. (CHOOSE u \in new : TRUE) = o
    BY <2>3, <2>4
  <2>6. QED
    BY <1>4, <2>2, <2>3, <2>5
<1>6. CASE g \in FromDetection(ds, cs)
  <2>1. PICK e \in DOMAIN ds \ ToSet(Taken(ds, cs)) : g = OnlyDetected(ds, cs, e)
    BY <1>6 DEF FromDetection
  <2>2. g.of = e /\ g.name = ds[e].name
    BY <2>1 DEF OnlyDetected
  <2>3. new = {}
    BY <1>3, <2>1, <2>2 DEF Unique, ToSet
  <2> HIDE DEF new
  <2>4. QED
    BY <1>4, <2>2, <2>3
<1>7. QED
  BY <1>5, <1>6 DEF AllMerged

\* What a merged profile has of the widgets it was detected with.
LEMMA WidgetStays ==
  ASSUME NEW ds, NEW X, NEW cs \in Seq(X), NEW d, d # 0, NEW f \in AllMerged(ds, cs), f.of = d,
         NEW k \in DOMAIN ds[d].parts \cap Widgets, k \notin f.own,
         f.by # 0 => k \notin cs[f.by].suppress
  PROVE  /\ k \in DOMAIN f.parts /\ f.parts[k] = Renamed(ds[d].parts, ds, cs)[k]
         /\ k \notin f.pending
<1>1. k \notin Numbers /\ k # "companion"
  BY DEF Numbers, Widgets
<1>2. CASE f \in FromBlocks(ds, cs)
  <2>1. PICK o \in DOMAIN cs : f = BlockProfile(ds, cs, o)
    BY <1>2 DEF FromBlocks
  <2>2. /\ Taken(ds, cs)[o] = d /\ f.by = o /\ f.own = DOMAIN cs[o].parts
        /\ DOMAIN f = BlockFields
    BY <2>1, BlockProfileFacts
  <2> DEFINE u == Unsuppressed(ds, cs, o, d)
             paths == cs[o].suppress
             bp == cs[o].parts
  <2>3. Trimmed(u, paths, f)
    BY <2>1, <2>2, TakenBlock
  <2>4. /\ DOMAIN u = BlockFields /\ u.own = DOMAIN bp
        /\ DOMAIN u.parts = DOMAIN bp \cup DOMAIN ds[d].parts
        /\ \A j \in DOMAIN ds[d].parts \ DOMAIN bp :
             j \in Widgets => u.parts[j] = Renamed(ds[d].parts, ds, cs)[j]
    BY UnsuppressedFacts
  <2>5. k \notin DOMAIN bp /\ k \notin paths
    BY <2>2
  <2> HIDE DEF u, paths, bp
  <2>6. QED
    BY <1>1, <2>2, <2>3, <2>4, <2>5 DEF Trimmed, Gone
<1>3. CASE f \in FromDetection(ds, cs)
  <2>1. PICK e \in DOMAIN ds : f = OnlyDetected(ds, cs, e)
    BY <1>3 DEF FromDetection
  <2>2. e = d /\ f.parts = Renamed(ds[d].parts, ds, cs) /\ f.pending = {}
    BY <2>1 DEF OnlyDetected
  <2>3. k \in DOMAIN Renamed(ds[d].parts, ds, cs)
    BY DEF Renamed
  <2>4. QED
    BY <2>2, <2>3
<1>4. QED
  BY <1>2, <1>3 DEF AllMerged

\* A widget the assumptions leave alone.
LEMMA WidgetCarried ==
  ASSUME NEW ds, NEW p, DOMAIN p = BlockFields, NEW lost, NEW v, AfterFlush(ds, p, lost, v),
         NEW k \in DOMAIN p.parts \cap Widgets, k \notin p.pending
  PROVE  k \in DOMAIN v.parts /\ v.parts[k] = p.parts[k]
<1>1. k \notin Numbers /\ k # "companion"
  BY DEF Numbers, Widgets
<1>2. PICK r : Filled(ds, p, lost, r) /\ Trimmed(r, r.pending, v)
  BY DEF AfterFlush
<1>3. k \in DOMAIN r.parts /\ r.parts[k] = p.parts[k]
  BY <1>1, <1>2, NewParts
<1>4. PICK base, q : FilledUser(ds, p, base, lost, q) /\ FilledGroup(q, r)
  BY <1>2 DEF Filled
<1>5. DOMAIN q = BlockFields /\ q.pending = p.pending
  BY <1>4 DEF FilledUser, Otherwise, BlockFields
<1>6. r.pending = p.pending
  BY <1>4, <1>5 DEF FilledGroup, Otherwise, BlockFields
<1>7. QED
  BY <1>1, <1>2, <1>3, <1>6 DEF Trimmed, Gone

NamesDiffer == Unique(detected)

LEMMA AtMostOne ==
  ASSUME NEW T, \A i, j \in T : i = j
  PROVE  Cardinality(T) <= 1
<1>1. CASE T = {}
  BY <1>1, FS_EmptySet
<1>2. CASE T # {}
  <2>1. PICK i : i \in T
    BY <1>2
  <2>2. T = {i}
    BY <2>1
  <2>3. Cardinality({i}) = 1
    BY FS_Singleton
  <2>4. QED
    BY <2>2, <2>3
<1>3. QED
  BY <1>1, <1>2

\* MatchesAreFaithful of the profiles that are made of ds and cs.
FaithfulTo(ds, cs, ps) ==
  \A d \in DOMAIN ds :
    LET named == {o \in DOMAIN cs : cs[o].name = ds[d].name}
        from  == {p \in ToSet(ps) : p.of = d}
    IN  /\ Cardinality({i \in DOMAIN ps : ps[i].of = d}) <= 1
        /\ from = {} => \E b \in ToSet(cs) : ~b.enabled
        /\ named # {} /\ cs[First(named)].enabled => \E p \in from : p.by = First(named)
        /\ \A k \in DOMAIN ds[d].parts \cap Widgets, p \in from, t \in ToSet(ps) :
             (/\ t.of # 0 /\ ds[t.of].name = ds[d].parts[k]
              /\ k \notin p.own
              /\ p.by # 0 => k \notin cs[p.by].suppress)
               => k \in DOMAIN p.parts /\ p.parts[k] = t.name

\* All of it, for one detection and one config.
LEMMA Faithful ==
  ASSUME NEW ds, NEW E, Detection(ds, E), Unique(ds), NEW X, NEW cs \in Seq(X), NEW ou, NEW lost
  PROVE  FaithfulTo(ds, cs, Validated(WithAssumptions(ds, MergeCore(ds, cs), ou, lost)))
<1> DEFINE F == AllMerged(ds, cs)
           m == MergeCore(ds, cs)
           w == WithAssumptions(ds, m, ou, lost)
           v == Validated(w)
<1>1. m \in Seq(F) /\ ToSet(m) = F /\ IsInjective(m)
  BY Merges DEF AllMerged
<1>2. \A f \in F : DOMAIN f = BlockFields
  BY BlockProfileFacts DEF AllMerged, FromBlocks, FromDetection, OnlyDetected, BlockFields
<1>3. DOMAIN w = DOMAIN m /\ DOMAIN v = DOMAIN m
  BY DEF Validated, WithAssumptions, Flushed, Assumed
<1> HIDE DEF F, m
<1>4. \A j \in DOMAIN m : m[j] \in F /\ DOMAIN m[j] = BlockFields
  BY <1>1, <1>2
<1>5. \A j \in DOMAIN m :
        /\ AfterFlush(ds, m[j], lost, w[j]) /\ Otherwise(w[j], v[j])
        /\ DOMAIN v[j].parts = DOMAIN w[j].parts \ Unknown(w, j)
        /\ \A k \in DOMAIN v[j].parts : v[j].parts[k] = w[j].parts[k]
  BY <1>4, EffectIs
<1> HIDE DEF w, v
<1>6. \A j \in DOMAIN m :
        /\ w[j].name = m[j].name /\ v[j].name = m[j].name
        /\ v[j].own = m[j].own /\ v[j].of = m[j].of /\ v[j].by = m[j].by
  <2> SUFFICES ASSUME NEW j \in DOMAIN m
               PROVE  /\ w[j].name = m[j].name /\ v[j].name = m[j].name
                      /\ v[j].own = m[j].own /\ v[j].of = m[j].of /\ v[j].by = m[j].by
    OBVIOUS
  <2> DEFINE x == m[j]
             y == w[j]
             z == v[j]
  <2>1. DOMAIN x = BlockFields /\ AfterFlush(ds, x, lost, y) /\ Otherwise(y, z)
    BY <1>4, <1>5
  <2> HIDE DEF x, y, z
  <2>2. /\ DOMAIN y = BlockFields /\ y.name = x.name
        /\ y.own = x.own /\ y.of = x.of /\ y.by = x.by
    BY <2>1, CarriedOver
  <2>3. z.name = y.name /\ z.own = y.own /\ z.of = y.of /\ z.by = y.by
    BY <2>1, <2>2 DEF Otherwise, BlockFields
  <2>4. y.name = x.name /\ z.name = x.name /\ z.own = x.own /\ z.of = x.of /\ z.by = x.by
    BY <2>2, <2>3
  <2>5. QED
    BY <2>4 DEF x, y, z
<1>7. \A f \in F : \E j \in DOMAIN m : m[j] = f
  BY <1>1 DEF ToSet
<1>8. \A p \in ToSet(v) : \E j \in DOMAIN m : p = v[j]
  BY <1>3 DEF ToSet
<1>9. \A j \in DOMAIN m : v[j] \in ToSet(v)
  BY <1>3 DEF ToSet
<1>10. PICK nd \in Nat : DOMAIN ds = 1..nd
  BY DEF Detection
<1> SUFFICES ASSUME NEW d \in DOMAIN ds
             PROVE  LET named == {o \in DOMAIN cs : cs[o].name = ds[d].name}
                        from  == {p \in ToSet(v) : p.of = d}
                    IN  /\ Cardinality({i \in DOMAIN v : v[i].of = d}) <= 1
                        /\ from = {} => \E b \in ToSet(cs) : ~b.enabled
                        /\ named # {} /\ cs[First(named)].enabled =>
                             \E p \in from : p.by = First(named)
                        /\ \A k \in DOMAIN ds[d].parts \cap Widgets, p \in from, t \in ToSet(v) :
                             (/\ t.of # 0 /\ ds[t.of].name = ds[d].parts[k]
                              /\ k \notin p.own
                              /\ p.by # 0 => k \notin cs[p.by].suppress)
                               => k \in DOMAIN p.parts /\ p.parts[k] = t.name
  BY DEF FaithfulTo, v, w, m
<1> DEFINE named == {o \in DOMAIN cs : cs[o].name = ds[d].name}
           from  == {p \in ToSet(v) : p.of = d}
<1>11. Cardinality({i \in DOMAIN v : v[i].of = d}) <= 1
  <2> DEFINE T == {i \in DOMAIN v : v[i].of = d}
  <2>1. ASSUME NEW i \in T, NEW j \in T PROVE i = j
    <3>1. i \in DOMAIN m /\ j \in DOMAIN m /\ m[i].of = d /\ m[j].of = d
      BY <1>3, <1>6
    <3>2. m[i] = m[j]
      BY <1>4, <3>1, MergedOnce DEF F
    <3>3. QED
      BY <1>1, <3>1, <3>2 DEF IsInjective
  <2> HIDE DEF T
  <2>2. Cardinality(T) <= 1
    BY <2>1, AtMostOne
  <2>3. QED
    BY <2>2 DEF T
<1>12. ASSUME from = {} PROVE \E b \in ToSet(cs) : ~b.enabled
  <2>1. ~ \E f \in F : f.of = d
    BY <1>6, <1>7, <1>9, <1>12
  <2>2. \E o \in DOMAIN cs : ~cs[o].enabled
    BY <2>1, MergedOnce DEF F
  <2>3. QED
    BY <2>2 DEF ToSet
<1>13. ASSUME named # {}, cs[First(named)].enabled
       PROVE  \E p \in from : p.by = First(named)
  <2> DEFINE o == First(named)
  <2>1. o \in DOMAIN cs /\ Taken(ds, cs)[o] = d
    BY <1>13, NamedTakes
  <2> HIDE DEF named
  <2>2. Enabled(ds, cs, o)
    BY <1>10, <1>13, <2>1 DEF Enabled
  <2>3. BlockProfile(ds, cs, o) \in F
    BY <2>1, <2>2 DEF F, AllMerged, FromBlocks
  <2>4. BlockProfile(ds, cs, o).of = d /\ BlockProfile(ds, cs, o).by = o
    BY <2>1, BlockProfileFacts
  <2>5. PICK j \in DOMAIN m : m[j] = BlockProfile(ds, cs, o)
    BY <1>7, <2>3
  <2>6. v[j] \in from /\ v[j].by = o
    BY <1>6, <1>9, <2>4, <2>5
  <2>7. QED
    BY <2>6
<1>14. ASSUME NEW k \in DOMAIN ds[d].parts \cap Widgets, NEW p \in from, NEW t \in ToSet(v),
              t.of # 0, ds[t.of].name = ds[d].parts[k], k \notin p.own,
              p.by # 0 => k \notin cs[p.by].suppress
       PROVE  k \in DOMAIN p.parts /\ p.parts[k] = t.name
  <2>1. PICK i \in DOMAIN m : p = v[i]
    BY <1>8
  <2>2. PICK j \in DOMAIN m : t = v[j]
    BY <1>8
  <2> DEFINE f == m[i]
             g == m[j]
             parts == ds[d].parts
             y == w[i]
  <2>3. /\ f \in AllMerged(ds, cs) /\ g \in AllMerged(ds, cs) /\ DOMAIN f = BlockFields
        /\ f.of = d /\ g.of = t.of /\ g.name = t.name /\ f.own = p.own /\ f.by = p.by
    BY <1>4, <1>6, <2>1, <2>2 DEF F
  <2>4. AfterFlush(ds, f, lost, y)
    BY <1>5
  <2>5. /\ DOMAIN p.parts = DOMAIN y.parts \ Unknown(w, i)
        /\ \A l \in DOMAIN p.parts : p.parts[l] = y.parts[l]
    BY <1>5, <2>1
  <2>6. g.name = w[j].name /\ j \in DOMAIN w
    BY <1>3, <1>6
  <2>6a. k \in Unknown(w, i) => \A l \in DOMAIN w : w[l].name # y.parts[k]
    BY DEF Unknown
  <2> HIDE DEF f, g, parts, y
  <2>7. k \in DOMAIN parts \cap Widgets /\ ds[g.of].name = parts[k] /\ g.of # 0
    BY <1>14, <2>3 DEF parts
  <2>8. Renamed(parts, ds, cs)[k] = g.name
    BY <2>3, <2>7, RenamedIs
  <2>9. d # 0 /\ k \notin f.own /\ (f.by # 0 => k \notin cs[f.by].suppress)
    BY <1>10, <1>14, <2>3
  <2>10. k \in DOMAIN f.parts /\ f.parts[k] = Renamed(ds[d].parts, ds, cs)[k] /\ k \notin f.pending
    BY <2>3, <2>9, WidgetStays
  <2>11. k \in DOMAIN f.parts /\ f.parts[k] = g.name /\ k \notin f.pending /\ k \in Widgets
    BY <2>8, <2>10 DEF parts
  <2>12. k \in DOMAIN y.parts /\ y.parts[k] = g.name
    BY <2>3, <2>4, <2>11, WidgetCarried
  <2>13. k \notin Unknown(w, i)
    BY <2>6, <2>6a, <2>12
  <2>14. QED
    BY <2>3, <2>5, <2>12, <2>13
<1>15. QED
  BY <1>11, <1>12, <1>13, <1>14

\* MatchesAreFaithful, as long as the detected profiles have names of their
\* own (names.rs gives no guarantee of it: two containers' texts can come to
\* the same words): each detected profile is in effect once, in the block that
\* names it, and what pointed at it still does (merge.rs merge_core).
THEOREM BlocksMatch == LoadSpec => [](NamesDiffer => MatchesAreFaithful)
<1>1. LoadInv /\ NamesDiffer => MatchesAreFaithful
  <2> SUFFICES ASSUME LoadInv, NamesDiffer, phase = "ready" PROVE MatchesAreFaithful
    BY DEF MatchesAreFaithful
  <2>1. PICK E \in Directories : Detection(detected, E)
    BY DEF LoadInv, StepsOK, Detected
  <2>2. PICK cs : cs = config
    OBVIOUS
  <2>3. PICK ds : ds = detected
    OBVIOUS
  <2>4. PICK ou : ou = sample.ou
    OBVIOUS
  <2>5. PICK lost : lost = failed
    OBVIOUS
  <2>6. cs \in Seq(ToSet(cs))
    BY <2>2, ProfileLoadAssumption DEF LoadInv, StepsOK
  <2>7. Detection(ds, E) /\ Unique(ds)
    BY <2>1, <2>3 DEF NamesDiffer
  <2>8. profiles = Validated(WithAssumptions(ds, MergeCore(ds, cs), ou, lost))
    BY <2>2, <2>3, <2>4, <2>5 DEF LoadInv, StepsOK, Assuming
  <2>9. FaithfulTo(ds, cs, Validated(WithAssumptions(ds, MergeCore(ds, cs), ou, lost)))
    BY <2>6, <2>7, Faithful
  <2>10. FaithfulTo(detected, config, profiles)
    BY <2>2, <2>3, <2>8, <2>9
  <2>11. QED
    BY <2>10 DEF FaithfulTo, MatchesAreFaithful, From
<1>2. QED
  BY LoadInvariant, <1>1, PTL
=============================================================================
