--------------------------- MODULE ProfileDetection ---------------------------
(***************************************************************************)
(* The profiles detected in a sample of the directory: one per container   *)
(* and structural class, named after their place, with the defaults,       *)
(* pickers, companions and number ranges the sampled entries show          *)
(* (src/detect/infer.rs, names.rs, patterns/).                             *)
(*                                                                         *)
(* A dn is a sequence of components, leaf first; a name is a sequence of   *)
(* the words its text joins by dashes.  Of a profile's parts those are     *)
(* kept that other parts, the config or a create depend on; labels,        *)
(* templates, choices and the fields shown are data of their own.          *)
(***************************************************************************)
EXTENDS NumberRange, Lists

CONSTANTS
  StructuralClasses, \* the structural classes of the schema
  Alphabet,          \* the words of names, in their order
  Slug,              \* the words a component's value becomes
  MinSample          \* MIN_SAMPLE

ASSUME ProfileDetectionAssumption ==
  /\ Alphabet \in Seq(ToSet(Alphabet)) /\ IsInjective(Alphabet)
  /\ StructuralClasses \cup {"user", "posixgroup", "group"} \subseteq ToSet(Alphabet)
  /\ \A c \in DOMAIN Slug : Slug[c] # <<>> /\ Slug[c] \in Seq(ToSet(Alphabet))
  /\ MinSample \in Nat

\* The elements of S in the order Less; one map of parts laid over another.
\* (Stated so that facts about them can be proved; TLC has its own.)
Place(x, S, Less(_, _)) == Cardinality({y \in S : Less(y, x)}) + 1
Sorted(S, Less(_, _)) == [n \in 1..Cardinality(S) |-> CHOOSE x \in S : Place(x, S, Less) = n]

Part(key, value) == [k \in {key} |-> value]
Over(upper, lower) ==
  [k \in DOMAIN upper \cup DOMAIN lower |-> IF k \in DOMAIN upper THEN upper[k] ELSE lower[k]]

MoreThanHalf(k, n) == n > 0 /\ 2 * k > n
RuleApplies(k, n) == n >= MinSample /\ MoreThanHalf(k, n)

\* The structural class among these, or none; an entry has at most one here.
StructuralOf(classes) == classes \cap StructuralClasses

Rank(word) == CHOOSE i \in DOMAIN Alphabet : Alphabet[i] = word

\* The order of names, as of the strings they stand for.
Precedes(m, n) ==
  \E k \in 0..Len(m) :
    /\ k <= Len(n) /\ SubSeq(m, 1, k) = SubSeq(n, 1, k)
    /\ k < Len(n) /\ (k < Len(m) => Rank(m[k + 1]) < Rank(n[k + 1]))

Words(dn) == FlattenSeq([i \in DOMAIN dn |-> Slug[dn[i]]])

\* most_common over a bag given by the items of the elements of S.
Times(x, S, Item(_)) == Cardinality({s \in S : Item(s) = x})
MostCommon(S, Item(_), Less(_, _)) ==
  LET items == {Item(s) : s \in S}
  IN  CHOOSE x \in items : \A y \in items \ {x} :
        \/ Times(y, S, Item) < Times(x, S, Item)
        \/ Times(y, S, Item) = Times(x, S, Item) /\ Less(x, y)
-----------------------------------------------------------------------------
\* infer.rs: the groups of a container's entries.

\* base_name.
KindOf(structural, classes) ==
  LET all == classes \cup {structural}
  IN  IF "posixAccount" \in all THEN "user" ELSE IF "posixGroup" \in all THEN "posixgroup"
      ELSE IF "groupOfNames" \in all THEN "group" ELSE structural

\* majority_classes.
Majority(entries) ==
  {c \in UNION {e.classes : e \in entries} :
     MoreThanHalf(Cardinality({e \in entries : c \in e.classes}), Cardinality(entries))}

BuildProfile(at, structural, entries) ==
  [name |-> <<>>, kind |-> KindOf(structural, Majority(entries)), structural |-> structural,
   at |-> at, sampled |-> Cardinality(entries), classes |-> Majority(entries),
   parts |-> <<>>, private |-> FALSE, without |-> {}, entries |-> entries]

GroupContainer(c) ==
  LET present == UNION {StructuralOf(e.classes) : e \in c.entries}
      order == Sorted(present, LAMBDA a, b : Rank(a) < Rank(b))
  IN  [i \in DOMAIN order |->
         BuildProfile(c.dn, order[i], {e \in c.entries : StructuralOf(e.classes) = {order[i]}})]

\* names.rs assign_names: clashing names grow by one parent at a time, in no
\* more rounds than there are parents.
NameAt(p, depth) == <<p.kind>> \o Words(SubSeq(p.at, 1, depth))

Clashes(names, i) == \E j \in DOMAIN names \ {i} : names[j] = names[i]

NamesAt(ps, depth) == [i \in DOMAIN ps |-> NameAt(ps[i], depth[i])]

Grown(ps, depth) ==
  [i \in DOMAIN ps |-> IF Clashes(NamesAt(ps, depth), i) /\ depth[i] < Len(ps[i].at)
                       THEN depth[i] + 1 ELSE depth[i]]

Depths(ps) ==
  LET rounds == Len(FlattenSeq([i \in DOMAIN ps |-> ps[i].at]))
      after[r \in 0..rounds] ==
        IF r = 0 THEN [i \in DOMAIN ps |-> 1]
        ELSE LET depth == after[r - 1]
                 grown == Grown(ps, depth)
             IN  IF grown = depth THEN depth ELSE grown
  IN  after[rounds]

NamesGiven(ps) ==
  LET names == NamesAt(ps, Depths(ps))
  IN  [i \in DOMAIN ps |-> IF Clashes(names, i) THEN names[i] \o <<ps[i].structural>> ELSE names[i]]

AssignNames(ps) ==
  LET names == NamesGiven(ps)
  IN  [i \in DOMAIN ps |-> [ps[i] EXCEPT !.name = names[i]]]
-----------------------------------------------------------------------------
\* patterns/: what the entries of a profile show.

Has(p, class) == class \in p.classes

Follow == [how |-> "follow"]             \* gidNumber = "{uidNumber}"
Literal(n) == [how |-> "literal", gid |-> n]
RangeOf(attr, base, structural, unified) ==
  [how |-> "range", attr |-> attr, base |-> base, structural |-> structural,
   unified |-> unified, exclude |-> attr = "gidNumber"]

IsRange(v) == "how" \in DOMAIN v /\ v.how = "range"

\* private_group_companion.
CompanionAt(base) == [base |-> base, attrs |-> {"cn", "gidNumber", "memberUid"}]

\* posix.rs apply_private_group (B2), then apply_shared_gid (B3).
SharedGid(p) ==
  LET given == {e \in p.entries : e.gidNumber # {}}
      gid == MostCommon(given, LAMBDA e : CHOOSE n \in e.gidNumber : TRUE, LAMBDA m, n : m < n)
  IN  IF given # {} /\ RuleApplies(Cardinality({e \in given : gid \in e.gidNumber}), p.sampled)
      THEN [p EXCEPT !.parts = Part("defaults.gidNumber", Literal(gid))] ELSE p

PosixRules(p, known, lookedUp) ==
  LET with == {u \in p.entries : HasPrivate(u, known)}
      GroupOf(u) == CHOOSE g \in known : IsPrivateGroup(g, u)
      base == MostCommon(with, LAMBDA u : Tail(GroupOf(u).dn),
                         LAMBDA d, e : Precedes(Words(d), Words(e)))
      q == IF lookedUp THEN [p EXCEPT !.without = {p.sampled - Cardinality(with)}] ELSE p
  IN  IF ~Has(p, "posixAccount") THEN p
      ELSE IF lookedUp /\ RuleApplies(Cardinality(with), p.sampled)
      THEN [q EXCEPT !.private = TRUE,
                     !.parts = Over(Part("defaults.gidNumber", Follow),
                                    Part("companion", CompanionAt(base)))]
      ELSE SharedGid(q)

\* The profile with the most entries; of several, the first by name.
Largest(ps, S) ==
  CHOOSE i \in S : \A j \in S : \/ ps[j].sampled < ps[i].sampled
                                \/ /\ ps[j].sampled = ps[i].sampled
                                   /\ ~Precedes(ps[j].name, ps[i].name)

\* pickers.rs (B5).
Widget(key, fits, target) ==
  IF fits /\ target # {} THEN Part(key, CHOOSE t \in target : TRUE) ELSE <<>>

PickerParts(ps, p) ==
  LET To(S) == IF S = {} THEN {} ELSE {ps[Largest(ps, S)].name}
      users  == To({i \in DOMAIN ps : Has(ps[i], "posixAccount")})
      groups == To({i \in DOMAIN ps : Has(ps[i], "posixGroup")})
      dns    == UNION {{e} \X e.member : e \in p.entries}
      home   == MostCommon(dns, LAMBDA m : Tail(m[2]), LAMBDA d, e : Precedes(Words(d), Words(e)))
      there  == IF dns = {} \/ ~MoreThanHalf(Times(home, dns, LAMBDA m : Tail(m[2])),
                                             Cardinality(dns))
                THEN {} ELSE To({i \in DOMAIN ps : ps[i].at = home})
  IN  Over(Widget("widget.memberUid", Has(p, "posixGroup"), users),
           Over(Widget("widget.gidNumber", Has(p, "posixAccount"), groups),
                Widget("widget.member", Has(p, "groupOfNames"), there)))

\* ranges.rs.
RangeParts(ps, p) ==
  CASE Has(p, "posixAccount") ->
         Part("defaults.uidNumber", RangeOf("uidNumber", p.at, p.structural, p.private))
    [] ~Has(p, "posixAccount") /\ Has(p, "posixGroup") ->
         Part("defaults.gidNumber", RangeOf("gidNumber", p.at, p.structural,
                                            \E i \in DOMAIN ps : ps[i].private))
    [] OTHER -> <<>>

\* The two halves of detect: group_container and assign_names, then
\* patterns::apply.  A sample holds the sampled containers in order, the
\* entries the lookups found, and whether the lookups went through.
Infer(sample) ==
  AssignNames(FlattenSeq([i \in DOMAIN sample.containers |-> GroupContainer(sample.containers[i])]))

PosixParts(ps, sample) ==
  LET known == sample.found
               \cup UNION {sample.containers[i].entries : i \in DOMAIN sample.containers}
  IN  [i \in DOMAIN ps |-> PosixRules(ps[i], known, sample.lookedUp)]

OtherParts(ps) ==
  [i \in DOMAIN ps |->
     [ps[i] EXCEPT !.parts = Over(@, Over(PickerParts(ps, ps[i]), RangeParts(ps, ps[i])))]]
=============================================================================
