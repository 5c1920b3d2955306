------------------------------ MODULE ProfileLoad ------------------------------
(***************************************************************************)
(* From start to the first entries created: the sampling of the directory, *)
(* search by search and with what can go wrong in each                     *)
(* (src/detect/sample.rs), the config's blocks laid over the detected      *)
(* profiles (merge.rs), what is assumed where there is too little data     *)
(* (assume.rs), the validation (load.rs), and creates that take their      *)
(* numbers from the profiles in effect.                                    *)
(*                                                                         *)
(* A [[profile]] block is a record; an option not set is the empty set.    *)
(* Of a profile's parts, "own" names those the config set, "of" is the     *)
(* detected profile it was made from, "by" the block, 0 if there is none.  *)
(***************************************************************************)
EXTENDS ProfileDetection

\* The parts that hold numbers, and those that name another profile.
Numbers == {"defaults.uidNumber", "defaults.gidNumber"}
Widgets == {"widget.memberUid", "widget.gidNumber", "widget.member"}

CONSTANTS
  Directories,   \* what the directory may hold at the start
  Configs,       \* the configs: sequences of blocks
  Base,          \* base_dn
  GroupsOu,      \* the component ou=groups
  Order,         \* the containers, as the server returns them
  SampleSize,    \* SAMPLE_SIZE
  MaxContainers, \* MAX_CONTAINERS
  Names,         \* names of new entries, and how many there can be
  MaxMishaps      \* bound: searches that fail or are cut short

ASSUME ProfileLoadAssumption ==
  /\ Order \in Seq(Seq(DOMAIN Slug) \ {<<>>}) /\ IsInjective(Order)
  /\ \A D \in Directories :
       /\ IsFiniteSet(D)
       /\ \A e \in D : /\ IsFiniteSet(e.classes) /\ Tail(e.dn) \in ToSet(Order)
                      /\ e.uidNumber \cup e.gidNumber \subseteq 0..MaxId
  /\ \A cs \in Configs :
       /\ cs \in Seq(ToSet(cs))
       /\ \A b \in ToSet(cs) :             \* a config cannot spell a detected range
            \A k \in DOMAIN b.parts \cap Numbers : ~IsRange(b.parts[k])
  /\ {SampleSize, MaxContainers, MaxMishaps} \subseteq Nat

VARIABLES
  dir,      \* the entries
  config,   \* overrides
  phase,    \* where load_profiles is
  todo,     \* containers to be sampled
  sample,   \* Sample
  failed,   \* detection_error
  spent,    \* the detection budget is used up
  detected, \* LoadedProfiles.detected
  profiles, \* the profiles in effect
  mishaps

loadVars == <<dir, config, phase, todo, sample, failed, spent, detected, profiles, mishaps>>

First(S) == CHOOSE n \in S : \A m \in S : n <= m
-----------------------------------------------------------------------------
\* sample.rs.

In(c) == {e \in dir : Tail(e.dn) = c}
Populated == Kept(Order, {c \in ToSet(Order) : In(c) # {}})

Mishap == mishaps < MaxMishaps /\ mishaps' = mishaps + 1

\* The containers search, or the fallback by object class.
ContainersFound ==
  /\ phase \in {"search", "fallback"}
  /\ \E n \in 0..Len(Populated) :
       /\ IF n < Len(Populated) THEN Mishap ELSE UNCHANGED mishaps
       /\ todo' = SubSeq(Populated, 1, Smaller(n, MaxContainers))
       /\ sample' = [sample EXCEPT !.incomplete = n < Len(Populated) \/ n > MaxContainers]
  /\ phase' = "sample"
  /\ UNCHANGED <<dir, config, failed, spent, detected, profiles>>

SearchFails ==
  /\ phase \in {"search", "fallback"} /\ Mishap
  /\ phase' = IF phase = "search" THEN "fallback" ELSE "detect"
  /\ failed' = (phase = "fallback")
  /\ UNCHANGED <<dir, config, todo, sample, spent, detected, profiles>>

NothingVisible ==
  /\ phase \in {"search", "fallback"} /\ Mishap
  /\ phase' = "detect"
  /\ sample' = [sample EXCEPT !.incomplete = TRUE]
  /\ UNCHANGED <<dir, config, todo, failed, spent, detected, profiles>>

\* A container's entries, cut at SAMPLE_SIZE, or by the server.
SampleContainer ==
  /\ phase = "sample" /\ todo # <<>>
  /\ \E S \in SUBSET In(Head(todo)) :
       /\ Cardinality(S) <= SampleSize
       /\ IF Cardinality(S) < Smaller(SampleSize, Cardinality(In(Head(todo))))
          THEN Mishap ELSE UNCHANGED mishaps
       /\ sample' = [sample EXCEPT !.containers = Append(@, [dn |-> Head(todo), entries |-> S])]
  /\ todo' = Tail(todo)
  /\ UNCHANGED <<dir, config, phase, failed, spent, detected, profiles>>

\* faulty: a container that could not be read is only noted
FailedUnmarked(s) == s
FailedMarked(s) == [s EXCEPT !.incomplete = TRUE]

ContainerFails ==
  /\ phase = "sample" /\ todo # <<>> /\ Mishap
  /\ sample' = FailedMarked(sample)
  /\ todo' = Tail(todo)
  /\ UNCHANGED <<dir, config, phase, failed, spent, detected, profiles>>

BudgetUsedUp ==
  /\ phase = "sample" /\ todo # <<>> /\ Mishap
  /\ sample' = [sample EXCEPT !.incomplete = TRUE]
  /\ todo' = <<>> /\ spent' = TRUE
  /\ UNCHANGED <<dir, config, phase, failed, detected, profiles>>

\* find_group_ou.
FindGroupOu ==
  /\ phase = "sample" /\ todo = <<>>
  /\ LET want  == <<GroupsOu>> \o Base
         known == UNION {{c.dn} \cup {e.dn : e \in c.entries} : c \in ToSet(sample.containers)}
     IN  IF want \in known
         THEN sample' = [sample EXCEPT !.ou = {want}] /\ UNCHANGED mishaps
         ELSE \/ /\ ~spent /\ UNCHANGED mishaps
                 /\ sample' = [sample EXCEPT !.ou = {want} \cap {e.dn : e \in dir}]
              \/ /\ IF spent THEN UNCHANGED mishaps ELSE Mishap
                 /\ UNCHANGED sample
  /\ phase' = "lookups"
  /\ UNCHANGED <<dir, config, todo, failed, spent, detected, profiles>>

\* lookups: the groups named like sampled users, the users like sampled groups.
Lookups ==
  /\ phase = "lookups"
  /\ LET seen == UNION {c.entries : c \in ToSet(sample.containers)}
         uids == {Head(e.dn) : e \in {f \in seen : IsUser(f)}}
         cns  == {Head(e.dn) : e \in {f \in seen : IsGroup(f)}}
     IN  \/ /\ uids \cup cns = {} \/ ~spent
            /\ sample' = [sample EXCEPT
                 !.lookedUp = TRUE,
                 !.found = {e \in dir : IsGroup(e) /\ Head(e.dn) \in uids}
                           \cup {e \in dir : IsUser(e) /\ Head(e.dn) \in cns}]
            /\ UNCHANGED mishaps
         \/ /\ uids \cup cns # {}
            /\ IF spent THEN UNCHANGED mishaps ELSE Mishap
            /\ UNCHANGED sample
  /\ phase' = "detect"
  /\ UNCHANGED <<dir, config, todo, failed, spent, detected, profiles>>
-----------------------------------------------------------------------------
\* merge.rs: which detected profile a block is laid over, 0 for none.

\* Each block that has none yet takes the first of its profiles that is free.
Give(fits, taken, o) ==
  LET free == fits[o] \ ToSet(taken)
  IN  IF taken[o] # 0 \/ free = {} THEN taken ELSE [taken EXCEPT ![o] = First(free)]

Handed(fits, start) ==
  LET after[o \in 0..Len(fits)] == IF o = 0 THEN start ELSE Give(fits, after[o - 1], o)
  IN  after[Len(fits)]

\* The first profile of the block's name; the profiles of its place and class.
Named(ds, cs) ==
  [o \in DOMAIN cs |->
     LET same == {d \in DOMAIN ds : ds[d].name = cs[o].name}
     IN  IF same = {} THEN {} ELSE {First(same)}]

Placed(ds, cs) ==
  [o \in DOMAIN cs |->
     {d \in DOMAIN ds : /\ ds[d].at \in cs[o].base
                        /\ \E c \in cs[o].classes : ds[d].structural \in StructuralOf(c)}]

\* faulty: one pass, in which a block may take what a later one names
Greedy(ds, cs) ==
  Handed([o \in DOMAIN cs |-> Named(ds, cs)[o] \cup Placed(ds, cs)[o]], [o \in DOMAIN cs |-> 0])

Taken(ds, cs) == Handed(Placed(ds, cs), Handed(Named(ds, cs), [o \in DOMAIN cs |-> 0]))

\* rewrite_candidates.
\* faulty: only the name is new
NotRenamed(parts, ds, cs) == parts

Renamed(parts, ds, cs) ==
  [k \in DOMAIN parts |->
     LET new == {o \in DOMAIN cs : Taken(ds, cs)[o] # 0 /\ ds[Taken(ds, cs)[o]].name = parts[k]}
     IN  IF k \in Widgets /\ new # {} THEN cs[CHOOSE o \in new : TRUE].name ELSE parts[k]]

\* suppress: takes generated parts away; what matches nothing yet is pending.
\* faulty: the operator's own parts go, too
AllSuppressed(p, paths) ==
  [p EXCEPT !.parts = [k \in DOMAIN @ \ paths |-> @[k]], !.pending = paths \ DOMAIN p.parts]

Suppressed(p, paths) ==
  LET gone == paths \cap (DOMAIN p.parts \ p.own)
      trim == "companion.memberUid" \in paths /\ "companion" \in DOMAIN p.parts \ p.own
  IN  [p EXCEPT
        !.parts = [k \in DOMAIN p.parts \ gone |->
                     IF k = "companion" /\ trim
                     THEN [p.parts[k] EXCEPT !.attrs = @ \ {"memberUid"}] ELSE p.parts[k]],
        !.pending = (paths \ gone) \ {t \in {"companion.memberUid"} : trim}]

One(option, otherwise) == IF option = {} THEN otherwise ELSE CHOOSE x \in option : TRUE

MergeOne(ds, cs, o, d) ==
  LET base  == One(cs[o].base, ds[d].at)
      kind  == One(UNION {StructuralOf(c) : c \in cs[o].classes}, ds[d].structural)
      under == Renamed(ds[d].parts, ds, cs)
      moved == [k \in DOMAIN under |->
                  IF k \in Numbers /\ IsRange(under[k])
                  THEN [under[k] EXCEPT !.base = base, !.structural = kind] ELSE under[k]]
  IN  Suppressed([name |-> cs[o].name, classes |-> One(cs[o].classes, ds[d].classes),
                  base |-> base, parts |-> Over(cs[o].parts, moved), own |-> DOMAIN cs[o].parts,
                  of |-> d, by |-> o, pending |-> {}], cs[o].suppress)

\* merge_core: the blocks in file order, then the profiles only detected.
OfBlock(ds, cs, o) ==
  LET d == Taken(ds, cs)[o]
  IN  IF ~cs[o].enabled \/ (d = 0 /\ cs[o].classes = {}) THEN <<>>
      ELSE IF d # 0 THEN <<MergeOne(ds, cs, o, d)>>
      ELSE <<[name |-> cs[o].name, classes |-> One(cs[o].classes, {}),
              base |-> One(cs[o].base, <<>>), parts |-> cs[o].parts,
              own |-> DOMAIN cs[o].parts, of |-> 0, by |-> o, pending |-> cs[o].suppress]>>

OnlyDetected(ds, cs, d) ==
  [name |-> ds[d].name, classes |-> ds[d].classes, base |-> ds[d].at,
   parts |-> Renamed(ds[d].parts, ds, cs), own |-> {}, of |-> d, by |-> 0, pending |-> {}]

Earlier(p, d, q, e) ==
  LET m == Cardinality(p.classes)
      n == Cardinality(q.classes)
  IN  \/ m > n
      \/ m = n /\ Precedes(p.name, q.name)
      \/ m = n /\ p.name = q.name /\ d < e

MergeCore(ds, cs) ==
  LET rest == Sorted(DOMAIN ds \ ToSet(Taken(ds, cs)), LAMBDA d, e : Earlier(ds[d], d, ds[e], e))
  IN  FlattenSeq([o \in DOMAIN cs |-> OfBlock(ds, cs, o)])
      \o [i \in DOMAIN rest |-> OnlyDetected(ds, cs, rest[i])]
-----------------------------------------------------------------------------
\* assume.rs: what is missing, and too little data says otherwise.

SampledOf(ds, p) == IF p.of = 0 THEN 0 ELSE ds[p.of].sampled

\* The posix-group profile's container, or else ou=groups.
GroupBase(ds, m, ou) ==
  LET groups == {i \in DOMAIN m : Has(m[i], "posixGroup") /\ m[i].base # <<>>}
  IN  IF groups = {} THEN ou
      ELSE {m[Largest([i \in DOMAIN m |-> [name |-> m[i].name, sampled |-> SampledOf(ds, m[i])]],
                      groups)].base}

\* Three users or more, or one without a private group.
Contrary(ds, p) ==
  LET under == {d \in DOMAIN ds : Has(ds[d], "posixAccount") /\ IsSuffix(p.base, ds[d].at)}
  IN  IF p.of # 0 THEN ds[p.of].sampled >= MinSample \/ ds[p.of].without # {0}
      ELSE \/ MapThenSumSet(LAMBDA d : ds[d].sampled, under) >= MinSample
           \/ \E d \in under : ds[d].without # {0}

GidFollows(parts) == "defaults.gidNumber" \in DOMAIN parts /\ parts["defaults.gidNumber"] = Follow

\* faulty: the range a profile has already stays as it is
MarkNothing(parts, key) == parts
MarkUnified(parts, key) ==
  IF IsRange(parts[key]) THEN [parts EXCEPT ![key].unified = TRUE] ELSE parts

StructuralName(p) == One(StructuralOf(p.classes), CHOOSE c \in p.classes : TRUE)

AssumedUser(ds, p, base, lost) ==
  LET private == /\ ~lost /\ ~Contrary(ds, p) /\ base # {}
                 /\ {"defaults.gidNumber", "companion"} \cap DOMAIN p.parts = {}
      parts == IF private
               THEN Over(p.parts, Over(Part("defaults.gidNumber", Follow),
                                       Part("companion", CompanionAt(One(base, <<>>)))))
               ELSE p.parts
  IN  IF ~Has(p, "posixAccount") THEN p
      ELSE [p EXCEPT !.parts =
              IF "defaults.uidNumber" \notin DOMAIN parts
              THEN Over(parts, Part("defaults.uidNumber",
                     RangeOf("uidNumber", p.base, StructuralName(p), GidFollows(parts))))
              ELSE IF private THEN MarkUnified(parts, "defaults.uidNumber") ELSE parts]

AssumedGroup(p, unified) ==
  IF ~Has(p, "posixGroup") THEN p
  ELSE [p EXCEPT !.parts =
          IF "defaults.gidNumber" \notin DOMAIN @
          THEN Over(@, Part("defaults.gidNumber",
                            RangeOf("gidNumber", p.base, StructuralName(p), unified)))
          ELSE IF unified THEN MarkUnified(@, "defaults.gidNumber") ELSE @]

\* apply, then flush_pending.
Assumed(ds, m, ou, lost) ==
  LET users == [i \in DOMAIN m |-> AssumedUser(ds, m[i], GroupBase(ds, m, ou), lost)]
      unified == \E i \in DOMAIN users : Has(users[i], "posixAccount") /\ GidFollows(users[i].parts)
  IN  [i \in DOMAIN users |-> AssumedGroup(users[i], unified)]

Flushed(m) == [i \in DOMAIN m |-> Suppressed(m[i], m[i].pending)]

\* faulty: the pending paths are forgotten
NotFlushed(ds, m, ou, lost) == Assumed(ds, m, ou, lost)
WithAssumptions(ds, m, ou, lost) == Flushed(Assumed(ds, m, ou, lost))

\* validate: the widgets whose candidate is no profile in effect.  What it and
\* resolve_widgets refuse whatever was detected (a companion or a binding that
\* is malformed) is left out: it depends on the config alone.
Unknown(m, i) ==
  {k \in DOMAIN m[i].parts \cap Widgets : \A j \in DOMAIN m : m[j].name # m[i].parts[k]}

Validated(m) ==
  [i \in DOMAIN m |->
     [m[i] EXCEPT !.parts = [k \in DOMAIN @ \ Unknown(m, i) |-> @[k]]]]

Refused(m, missed) == ~missed /\ \E i \in DOMAIN m : Unknown(m, i) \cap m[i].own # {}

\* assemble, one call after the other: detect, merge_core, rule D and what is
\* left to suppress, validate.
DetectProfiles ==
  /\ phase = "detect"
  /\ \E ps \in {Infer(sample)} : \E qs \in {PosixParts(ps, sample)} : detected' = OtherParts(qs)
  /\ phase' = "merge"
  /\ UNCHANGED <<dir, config, todo, sample, failed, spent, profiles, mishaps>>

Merge ==
  /\ phase = "merge"
  /\ profiles' = MergeCore(detected, config)
  /\ phase' = "assume"
  /\ UNCHANGED <<dir, config, todo, sample, failed, spent, detected, mishaps>>

Assume ==
  /\ phase = "assume"
  /\ profiles' = WithAssumptions(detected, profiles, sample.ou, failed)
  /\ phase' = "validate"
  /\ UNCHANGED <<dir, config, todo, sample, failed, spent, detected, mishaps>>

Validate ==
  /\ phase = "validate"
  /\ IF Refused(profiles, failed \/ sample.incomplete)
     THEN phase' = "refused" /\ UNCHANGED profiles
     ELSE phase' = "ready" /\ profiles' = Validated(profiles)
  /\ UNCHANGED <<dir, config, todo, sample, failed, spent, detected, mishaps>>
-----------------------------------------------------------------------------
\* Creates from the profiles in effect, with numbers from generated ranges.

NewName == Names \ {Head(e.dn) : e \in dir}

CreateUser(i) ==
  LET p == profiles[i]
  IN  /\ phase = "ready" /\ Has(p, "posixAccount") /\ p.base # <<>>
      /\ "defaults.uidNumber" \in DOMAIN p.parts /\ IsRange(p.parts["defaults.uidNumber"])
      /\ \E n \in {One(NewName, Base)} \cap NewName,
            num \in Allocate(p.parts["defaults.uidNumber"], dir) :
           LET key == "defaults.gidNumber"
               gids == IF GidFollows(p.parts) THEN {num}
                       ELSE IF key \notin DOMAIN p.parts
                       THEN UNION {e.gidNumber : e \in {f \in dir : IsGroup(f)}}
                       ELSE IF IsRange(p.parts[key]) THEN Allocate(p.parts[key], dir)
                       ELSE {p.parts[key].gid}
           IN  \E gid \in gids :
                 dir' = dir
                   \cup {[dn |-> <<n>> \o p.base, classes |-> p.classes, uidNumber |-> {num},
                          gidNumber |-> {gid}, member |-> {}]}
                   \cup {[dn |-> <<n>> \o p.parts[k].base, classes |-> {"posixGroup"},
                          uidNumber |-> {}, gidNumber |-> {num}, member |-> {}]
                           : k \in {"companion"} \cap DOMAIN p.parts}
      /\ UNCHANGED <<config, phase, todo, sample, failed, spent, detected, profiles, mishaps>>

CreateGroup(i) ==
  LET p == profiles[i]
  IN  /\ phase = "ready" /\ Has(p, "posixGroup") /\ ~Has(p, "posixAccount") /\ p.base # <<>>
      /\ "defaults.gidNumber" \in DOMAIN p.parts /\ IsRange(p.parts["defaults.gidNumber"])
      /\ \E n \in {One(NewName, Base)} \cap NewName,
            num \in Allocate(p.parts["defaults.gidNumber"], dir) :
           dir' = dir \cup {[dn |-> <<n>> \o p.base, classes |-> p.classes, uidNumber |-> {},
                             gidNumber |-> {num}, member |-> {}]}
      /\ UNCHANGED <<config, phase, todo, sample, failed, spent, detected, profiles, mishaps>>

LoadInit ==
  /\ dir \in Directories /\ config \in Configs
  /\ phase = "search" /\ todo = <<>>
  /\ sample = [containers |-> <<>>, found |-> {}, lookedUp |-> FALSE, ou |-> {},
               incomplete |-> FALSE]
  /\ failed = FALSE /\ spent = FALSE /\ detected = <<>> /\ profiles = <<>>
  /\ mishaps = 0

LoadNext ==
  \/ ContainersFound \/ SearchFails \/ NothingVisible
  \/ SampleContainer \/ ContainerFails \/ BudgetUsedUp
  \/ FindGroupOu \/ Lookups
  \/ DetectProfiles \/ Merge \/ Assume \/ Validate
  \/ \E i \in DOMAIN profiles : CreateUser(i) \/ CreateGroup(i)

LoadSpec == LoadInit /\ [][LoadNext]_loadVars
-----------------------------------------------------------------------------
ConfigNumbers(b) ==
  \/ {"defaults.gidNumber", "companion"} \cap DOMAIN b.parts # {}
  \/ {"defaults.gidNumber", "defaults.uidNumber"} \subseteq b.suppress

\* NumbersAreFree: a number taken from a generated range (range.rs allocate) is
\* no other user's, or no other group's, in the whole directory: also when a
\* user and its private group share it and other profiles count groups only.
\* (A config that sets gidNumber or the companion itself, or suppresses both
\* numbers, leaves the ranges detection chose; the README tells what it loses.)
NumbersAreFree ==
  [][(\A b \in ToSet(config) : ~ConfigNumbers(b)) =>
       \A e \in dir' \ dir :
         /\ IsUser(e) => e.uidNumber \cap UNION {f.uidNumber : f \in {g \in dir : IsUser(g)}} = {}
         /\ IsGroup(e) => e.gidNumber \cap UNION {f.gidNumber : f \in {g \in dir : IsGroup(g)}} = {}
    ]_dir

\* What an undisturbed detection would have sampled.
WholeSample ==
  [sample EXCEPT !.containers =
     [i \in DOMAIN Populated |-> [dn |-> Populated[i], entries |-> In(Populated[i])]]]

\* DetectionNeverStops: a search that failed, timed out or saw nothing never
\* keeps the program from starting: a config that load.rs refuses would be
\* refused after an undisturbed detection, too (merge.rs validate: "the same
\* config is valid whenever detection completes").  A cut at SAMPLE_SIZE aside.
DetectionNeverStops ==
  phase = "refused" /\ (\A c \in ToSet(sample.containers) : c.entries = In(c.dn)) =>
    Refused(MergeCore(Infer(WholeSample), config), FALSE)

\* OperatorDecides: what a block sets is in effect as it is set, unless the
\* detection missed the profile it names; what a block suppresses is not in
\* effect, though the rules that fill gaps ran after the merge.  A new entry
\* needs a number, so a range may come back (assume.rs).
OperatorDecides ==
  phase = "ready" =>
    \A p \in {q \in ToSet(profiles) : q.by # 0} :
      LET b == config[p.by]
      IN  /\ \A k \in DOMAIN b.parts :
               \/ k \in DOMAIN p.parts /\ p.parts[k] = b.parts[k]
               \/ k \in Widgets /\ (failed \/ sample.incomplete)
          /\ \A k \in (DOMAIN p.parts \ DOMAIN b.parts) \cap b.suppress :
               k \in Numbers /\ IsRange(p.parts[k])
          /\ "companion.memberUid" \in b.suppress /\ "companion" \in DOMAIN p.parts \ DOMAIN b.parts
               => "memberUid" \notin p.parts["companion"].attrs

\* The profiles in effect that come from the detected profile d.
From(d) == {p \in ToSet(profiles) : p.of = d}

\* MatchesAreFaithful: a block that names a detected profile gets it, whatever
\* other blocks match it by place and class; every detected profile is in
\* effect once, unless a block disables it; and what pointed at it points at
\* the name the config gave it (merge.rs merge_core).
MatchesAreFaithful ==
  phase = "ready" =>
    LET ds == detected
    IN  \A d \in DOMAIN ds :
          LET named == {o \in DOMAIN config : config[o].name = ds[d].name}
          IN  /\ Cardinality({i \in DOMAIN profiles : profiles[i].of = d}) <= 1
              /\ From(d) = {} => \E b \in ToSet(config) : ~b.enabled
              /\ named # {} /\ config[First(named)].enabled
                   => \E p \in From(d) : p.by = First(named)
              /\ \A k \in DOMAIN ds[d].parts \cap Widgets, p \in From(d), t \in ToSet(profiles) :
                   (/\ t.of # 0 /\ ds[t.of].name = ds[d].parts[k]
                    /\ k \notin p.own
                    /\ p.by # 0 => k \notin config[p.by].suppress)
                     => k \in DOMAIN p.parts /\ p.parts[k] = t.name
=============================================================================
