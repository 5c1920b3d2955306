------------------------------ MODULE NumberRange ------------------------------
(***************************************************************************)
(* The number a new user or group gets from a detected range: the numbers  *)
(* in use fall into blocks, the profile's own numbers choose one, and the  *)
(* next number is the one above it (src/detect/range.rs, private.rs).      *)
(*                                                                         *)
(* An entry is a record: its dn, leaf first, its classes, and the values   *)
(* of uidNumber and gidNumber as sets (those that parse as 32-bit ids).    *)
(* The leaf of a dn stands for uid and cn.                                 *)
(***************************************************************************)
EXTENDS Integers, FiniteSets, Sequences

CONSTANTS
  Gap,        \* BLOCK_GAP
  Round,      \* a block's range starts at a multiple of this (1000)
  AssumedMin, \* ASSUMED_MIN
  OpenEnd,    \* OPEN_END
  Span,       \* the least width of the highest range (9999)
  MaxId       \* u32::MAX

ASSUME NumberRangeAssumption ==
  /\ {Gap, Round, AssumedMin, OpenEnd, Span, MaxId} \subseteq Nat
  /\ 1 <= Round /\ Round <= Gap
  /\ AssumedMin <= OpenEnd /\ OpenEnd <= MaxId
-----------------------------------------------------------------------------
IsUser(e)  == "posixAccount" \in e.classes
IsGroup(e) == "posixGroup" \in e.classes

IsPrivateGroup(g, u) ==
  /\ IsGroup(g) /\ IsUser(u) /\ Head(g.dn) = Head(u.dn)
  /\ g.gidNumber # {} /\ g.gidNumber = u.gidNumber /\ u.gidNumber = u.uidNumber

\* PrivateIndex::is_private, private_group_of.
IsPrivate(g, E) == \E u \in E : IsPrivateGroup(g, u)
HasPrivate(u, E) == \E g \in E : IsPrivateGroup(g, u)

\* The numbers a new one must keep clear of.
\* faulty: the groups' numbers are forgotten in a common space
SpaceOfUsers(spec, E) ==
  IF spec.attr = "uidNumber" THEN UNION {e.uidNumber : e \in E}
                             ELSE UNION {e.gidNumber : e \in {f \in E : ~IsUser(f)}}

Space(spec, E) ==
  IF spec.unified
  THEN (UNION {e.uidNumber : e \in {f \in E : IsUser(f)}}) \cup UNION {e.gidNumber : e \in E}
  ELSE IF spec.attr = "uidNumber" THEN UNION {e.uidNumber : e \in E}
  ELSE UNION {e.gidNumber : e \in {f \in E : ~IsUser(f)}}

\* split_blocks: neighbours more than Gap apart are of different blocks.
Starts(S) == {v \in S : \A w \in S : w < v => v - w > Gap}
Ends(S)   == {v \in S : \A w \in S : w > v => w - v > Gap}

Blocks(S) ==
  {b \in [lo : Starts(S), hi : Ends(S)] :
     b.lo <= b.hi /\ \A h \in Ends(S) : b.lo <= h => b.hi <= h}

Within(n, b) == b.lo <= n /\ n <= b.hi

\* The profile's own numbers, with the entries that hold them.
Mine(spec, E) ==
  UNION {{e} \X e[spec.attr] :
           e \in {f \in E : /\ Tail(f.dn) = spec.base /\ spec.structural \in f.classes
                            /\ ~(spec.exclude /\ IsPrivate(f, E))}}

\* detect_range: the block with most of its own numbers, the lowest of several.
Chosen(spec, E) ==
  LET S == Space(spec, E)
      Count(b) == IF Mine(spec, E) = {} THEN Cardinality({n \in S : Within(n, b)})
                  ELSE Cardinality({m \in Mine(spec, E) : Within(m[2], b)})
  IN  CHOOSE b \in Blocks(S) :
        \A c \in Blocks(S) : \/ Count(c) < Count(b)
                             \/ Count(c) = Count(b) /\ b.lo <= c.lo

RoundDown(n) == (n \div Round) * Round
Larger(m, n) == IF m < n THEN n ELSE m
Smaller(m, n) == IF m < n THEN m ELSE n

\* The last number of block b's range: one below the next block's.
Highest(b, S) ==
  LET above == {c \in Blocks(S) : c.lo > b.lo}
  IN  Smaller(MaxId, IF above = {} THEN Larger(OpenEnd, RoundDown(b.lo) + Span)
                     ELSE RoundDown((CHOOSE c \in above : \A d \in above : c.lo <= d.lo).lo) - 1)

\* allocate: the set of the number to use, empty when the pool is exhausted.
Allocate(spec, E) ==
  LET S == Space(spec, E)
      b == Chosen(spec, E)
  IN  IF S = {} THEN {AssumedMin} ELSE {b.hi + 1} \cap 0..Highest(b, S)
=============================================================================
