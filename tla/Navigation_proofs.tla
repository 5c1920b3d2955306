-------------------------- MODULE Navigation_proofs --------------------------
(***************************************************************************)
(* The find, the entry list, the tree and the form, for any tree of names, *)
(* queries, rescans and clients: hits are those of the container and, once *)
(* their answer is in, of the query shown; the list and the tree show what *)
(* is known; and what the form and the highlight are on comes to agree.    *)
(* The list is current because whatever it is made from is left alone or   *)
(* marks it dirty; the tree, which is marked less, because what is made    *)
(* from containers alone changes only where a container does.              *)
(***************************************************************************)
EXTENDS Navigation, Lists_proofs

(***************************************************************************)
(* The inductive invariant.  A find is answered for what it asked, and as  *)
(* long as its id is the latest nothing but the query may have changed     *)
(* since, and that only to the empty one: moving to another container or   *)
(* rescanning makes no find the latest, and a new query has a new id.      *)
(***************************************************************************)
UiParts == {"ver", "kids", "branch", "leaf", "form", "query", "hits", "lastId", "latest",
            "wantLeaf", "wantBranch", "guard", "nav", "listDirty", "treeDirty", "list",
            "tree", "sent", "post"}

IsQueue(q) == q \in Seq(ToSet(q))
Shape(s)   == DOMAIN s = UiParts /\ IsQueue(s.sent)

Asked(s, j) ==
  /\ j.id \in 1..s.lastId
  /\ j.id = s.latest => j.branch = s.branch /\ (s.query = Empty \/ j.term = s.query)

Answers(s, r) ==
  /\ Asked(s, r.ask) /\ r.id = r.ask.id
  /\ \A d \in r.hits : Parent[d] = r.ask.branch

HitsHere(s) == s.hits # NoHits => /\ s.hits.branch = s.branch
                                  /\ \A d \in s.hits.dns : Parent[d] = s.branch

Coming(s, Q) == \E x \in Q : x.what = "find" /\ x.id = s.latest

HitsOfQuery(s, J, A) ==
  s.query # Empty /\ s.hits # NoHits /\ ~Coming(s, J) /\ ~Coming(s, A) => s.hits.term = s.query

\* J: the requests not served, A: the answers not polled.
FindsOK(s, J, A) ==
  /\ s.lastId \in Nat
  /\ \A j \in J : j.what = "find" => Asked(s, j)
  /\ \A r \in A : /\ r.what \in {"read", "find", "save", "create"}
                  /\ r.what = "find" => Answers(s, r)
  /\ HitsHere(s)
  /\ HitsOfQuery(s, J, A)

ListOK(s) ==
  /\ DOMAIN s.list = {"rows", "row"}
  /\ ~s.listDirty => s.list.rows = LeafRows(s)

NavInv ==
  /\ Shape(ui) /\ ui.sent = <<>> /\ IsQueue(jobs) /\ IsQueue(resps)
  /\ FindsOK(ui, ToSet(jobs), ToSet(resps))
  /\ ListOK(ui)
-----------------------------------------------------------------------------
(***************************************************************************)
(* Queues as sets.                                                         *)
(***************************************************************************)
LEMMA QueueIn ==
  ASSUME NEW S, NEW s \in Seq(S)
  PROVE  IsQueue(s)
<1>1. Len(s) \in Nat /\ DOMAIN s = 1..Len(s) /\ s = [i \in 1..Len(s) |-> s[i]]
  OBVIOUS
<1>2. \A i \in 1..Len(s) : s[i] \in ToSet(s)
  BY <1>1 DEF ToSet
<1>3. QED
  BY <1>1, <1>2 DEF IsQueue

LEMMA QueueWidens ==
  ASSUME NEW s, IsQueue(s), NEW T, ToSet(s) \subseteq T
  PROVE  s \in Seq(T)
<1> DEFINE S == ToSet(s)
<1>1. s \in Seq(S) /\ S \subseteq T
  BY DEF IsQueue
<1> HIDE DEF S
<1>2. QED
  BY <1>1

LEMMA QueueEmpty == IsQueue(<<>>) /\ ToSet(<<>>) = {}
<1>1. <<>> \in Seq({})
  OBVIOUS
<1>2. ToSet(<<>>) = {}
  BY DEF ToSet
<1>3. QED
  BY <1>1, <1>2, QueueIn

LEMMA QueueAppend ==
  ASSUME NEW s, IsQueue(s), NEW x
  PROVE  IsQueue(Append(s, x)) /\ ToSet(Append(s, x)) = ToSet(s) \cup {x}
<1> DEFINE S == ToSet(s) \cup {x}
<1>1. s \in Seq(S) /\ x \in S
  BY QueueWidens
<1> HIDE DEF S
<1>2. Append(s, x) \in Seq(S) /\ ToSet(Append(s, x)) = ToSet(s) \cup {x}
  BY <1>1, AppendSet
<1>3. QED
  BY <1>2, QueueIn

LEMMA QueueConcat ==
  ASSUME NEW s, IsQueue(s), NEW t, IsQueue(t)
  PROVE  IsQueue(s \o t) /\ ToSet(s \o t) = ToSet(s) \cup ToSet(t)
<1> DEFINE S == ToSet(s) \cup ToSet(t)
<1>1. s \in Seq(S) /\ t \in Seq(S)
  BY QueueWidens
<1> HIDE DEF S
<1>2. s \o t \in Seq(S) /\ ToSet(s \o t) = ToSet(s) \cup ToSet(t)
  BY <1>1, ConcatSet
<1>3. QED
  BY <1>2, QueueIn

LEMMA QueueTail ==
  ASSUME NEW s, IsQueue(s), s # <<>>
  PROVE  IsQueue(Tail(s)) /\ ToSet(s) = {Head(s)} \cup ToSet(Tail(s))
<1>1. s \in Seq(ToSet(s))
  BY DEF IsQueue
<1>2. Tail(s) \in Seq(ToSet(s)) /\ ToSet(s) = {Head(s)} \cup ToSet(Tail(s))
  BY <1>1, HeadSet
<1>3. QED
  BY <1>2, QueueIn

-----------------------------------------------------------------------------
(***************************************************************************)
(* What the controller's steps do to the find: leave it alone, or abandon  *)
(* it with the container.  Either keeps the invariant, and either can be   *)
(* followed by the other.                                                  *)
(***************************************************************************)
SendsNoFind(s, t) ==
  /\ ToSet(s.sent) \subseteq ToSet(t.sent)
  /\ \A x \in ToSet(t.sent) : x \in ToSet(s.sent) \/ x.what # "find"

SameFind(s, t) ==
  /\ t.latest = s.latest /\ t.branch = s.branch
  /\ t.query = s.query /\ t.hits = s.hits

FindLeft(t) == t.latest = 0 /\ t.query = Empty /\ t.hits = NoHits

Moves(s, t) ==
  /\ Shape(t) /\ t.lastId = s.lastId
  /\ SendsNoFind(s, t)
  /\ SameFind(s, t) \/ FindLeft(t)
  /\ ListOK(s) => ListOK(t)

LEMMA MovesOn ==
  ASSUME NEW s, NEW t, NEW u, Moves(s, t), Moves(t, u)
  PROVE  Moves(s, u)
<1>1. SendsNoFind(s, u)
  BY DEF Moves, SendsNoFind
<1>2. SameFind(s, u) \/ FindLeft(u)
  BY DEF Moves, SameFind, FindLeft
<1>3. QED
  BY <1>1, <1>2 DEF Moves

LEMMA Stays ==
  ASSUME NEW s, Shape(s)
  PROVE  Moves(s, s)
BY DEF Moves, SendsNoFind, SameFind

\* s: before the step, with what it had sent already; t: after.
LEMMA MovesKeep ==
  ASSUME NEW s, NEW t, NEW J, NEW A,
         FindsOK(s, J \cup ToSet(s.sent), A), Moves(s, t)
  PROVE  FindsOK(t, J \cup ToSet(t.sent), A)
<1> DEFINE JS == J \cup ToSet(s.sent)
           JT == J \cup ToSet(t.sent)
<1>1. /\ t.lastId = s.lastId /\ s.lastId \in Nat
      /\ \A j \in JS : j.what = "find" => Asked(s, j)
      /\ \A r \in A : /\ r.what \in {"read", "find", "save", "create"}
                      /\ r.what = "find" => Answers(s, r)
      /\ HitsHere(s) /\ HitsOfQuery(s, JS, A)
  BY DEF FindsOK, Moves
<1>2. /\ JS \subseteq JT
      /\ \A x \in JT : x.what = "find" => x \in JS
  BY DEF Moves, SendsNoFind
<1> HIDE DEF JS, JT
<1>3. ASSUME NEW j, Asked(s, j) PROVE Asked(t, j)
  <2>1. CASE SameFind(s, t)
    BY <1>1, <1>3, <2>1 DEF Asked, SameFind
  <2>2. CASE FindLeft(t)
    BY <1>1, <1>3, <2>2 DEF Asked, FindLeft
  <2>3. QED
    BY <2>1, <2>2 DEF Moves
<1>4. \A j \in JT : j.what = "find" => Asked(t, j)
  BY <1>1, <1>2, <1>3
<1>5. \A r \in A : r.what = "find" => Answers(t, r)
  BY <1>1, <1>3 DEF Answers
<1>6. HitsHere(t) /\ HitsOfQuery(t, JT, A)
  <2>1. CASE SameFind(s, t)
    <3>1. Coming(s, JS) => Coming(t, JT)
      BY <1>2, <2>1 DEF Coming, SameFind
    <3>2. Coming(s, A) => Coming(t, A)
      BY <2>1 DEF Coming, SameFind
    <3>3. QED
      BY <1>1, <2>1, <3>1, <3>2 DEF HitsHere, HitsOfQuery, SameFind
  <2>2. CASE FindLeft(t)
    BY <2>2 DEF HitsHere, HitsOfQuery, FindLeft
  <2>3. QED
    BY <2>1, <2>2 DEF Moves
<1>7. QED
  BY <1>1, <1>4, <1>5, <1>6 DEF FindsOK, JT

(***************************************************************************)
(* The controller's steps and the panes', one by one.                      *)
(***************************************************************************)
SameList(s, t) ==
  /\ t.ver = s.ver /\ t.kids = s.kids /\ t.listDirty = s.listDirty
  /\ t.branch = s.branch /\ t.query = s.query /\ t.hits = s.hits

LEMMA ListFollows ==
  ASSUME NEW s, NEW t, t.list = s.list, t.listDirty \/ SameList(s, t), ListOK(s)
  PROVE  ListOK(t)
<1>1. CASE t.listDirty
  BY <1>1 DEF ListOK
<1>2. CASE SameList(s, t)
  <2>1. Listed(t) = Listed(s)
    BY <1>2 DEF SameList, Listed
  <2>2. QED
    BY <1>2, <2>1 DEF ListOK, LeafRows, SameList
<1>3. QED
  BY <1>1, <1>2

LEMMA Silent ==
  ASSUME NEW s, Shape(s), NEW t, DOMAIN t = UiParts,
         t.sent = s.sent, t.lastId = s.lastId, SameFind(s, t) \/ FindLeft(t),
         t.list = s.list, t.listDirty \/ SameList(s, t)
  PROVE  Moves(s, t)
<1>1. Shape(t) /\ SendsNoFind(s, t)
  BY DEF Shape, SendsNoFind
<1>2. ListOK(s) => ListOK(t)
  BY ListFollows
<1>3. QED
  BY <1>1, <1>2 DEF Moves

LEMMA Sends ==
  ASSUME NEW s, Shape(s), NEW t, DOMAIN t = UiParts, NEW x, x.what # "find",
         t.sent = Append(s.sent, x), t.lastId = s.lastId, SameFind(s, t) \/ FindLeft(t),
         t.list = s.list, t.listDirty \/ SameList(s, t)
  PROVE  Moves(s, t)
<1>1. IsQueue(t.sent) /\ ToSet(t.sent) = ToSet(s.sent) \cup {x}
  BY QueueAppend DEF Shape
<1>2. Shape(t) /\ SendsNoFind(s, t)
  BY <1>1 DEF Shape, SendsNoFind
<1>3. ListOK(s) => ListOK(t)
  BY ListFollows
<1>4. QED
  BY <1>2, <1>3 DEF Moves

LEMMA RereadMoves ==
  ASSUME NEW s, Shape(s), NEW d
  PROVE  Moves(s, Reread(s, d))
<1> DEFINE t == Reread(s, d)
           x == [what |-> "read", dn |-> d]
<1>1. x.what # "find"
  OBVIOUS
<1>2. /\ DOMAIN t = UiParts /\ t.sent = Append(s.sent, x) /\ t.lastId = s.lastId
      /\ t.latest = s.latest /\ t.branch = s.branch /\ t.query = s.query /\ t.hits = s.hits
      /\ t.ver = s.ver /\ t.kids = s.kids /\ t.listDirty = s.listDirty /\ t.list = s.list
  BY DEF Reread, Shape, UiParts
<1> HIDE DEF t, x
<1>3. Moves(s, t)
  BY <1>1, <1>2, Sends DEF SameFind, SameList
<1>4. QED
  BY <1>3 DEF t

LEMMA CommitMoves ==
  ASSUME NEW s, Shape(s), NEW d
  PROVE  Moves(s, CommitBranch(s, d))
<1> DEFINE t == CommitBranch(s, d)
<1>1. /\ DOMAIN t = UiParts /\ t.sent = s.sent /\ t.lastId = s.lastId
      /\ t.latest = 0 /\ t.query = Empty /\ t.hits = NoHits /\ t.listDirty /\ t.list = s.list
  BY DEF CommitBranch, Shape, UiParts
<1> HIDE DEF t
<1>2. Moves(s, t)
  BY <1>1, Silent DEF FindLeft
<1>3. QED
  BY <1>2 DEF t

LEMMA SelectionMoves ==
  ASSUME NEW s, Shape(s)
  PROVE  Moves(s, ReconcileSelection(s))
<1> DEFINE c == [s EXCEPT !.wantLeaf = NoDN]
           g == [c EXCEPT !.guard = Target("leaf", s.wantLeaf), !.post = TRUE]
<1>1. ReconcileSelection(s) \in {c, g, Reread(c, s.wantLeaf)}
  BY DEF ReconcileSelection
<1>2. /\ DOMAIN c = UiParts /\ c.sent = s.sent /\ c.lastId = s.lastId
      /\ c.latest = s.latest /\ c.branch = s.branch /\ c.query = s.query /\ c.hits = s.hits
      /\ c.ver = s.ver /\ c.kids = s.kids /\ c.listDirty = s.listDirty /\ c.list = s.list
  BY DEF Shape, UiParts
<1>3. /\ DOMAIN g = UiParts /\ g.sent = s.sent /\ g.lastId = s.lastId
      /\ g.latest = s.latest /\ g.branch = s.branch /\ g.query = s.query /\ g.hits = s.hits
      /\ g.ver = s.ver /\ g.kids = s.kids /\ g.listDirty = s.listDirty /\ g.list = s.list
  BY DEF Shape, UiParts
<1> HIDE DEF c, g
<1>4. Moves(s, c)
  BY <1>2, Silent DEF SameFind, SameList
<1>5. Moves(s, g)
  BY <1>3, Silent DEF SameFind, SameList
<1>6. Moves(s, Reread(c, s.wantLeaf))
  BY <1>4, RereadMoves, MovesOn DEF Moves
<1>7. QED
  BY <1>1, <1>4, <1>5, <1>6

LEMMA BranchMoves ==
  ASSUME NEW s, Shape(s)
  PROVE  Moves(s, ReconcileBranch(s))
<1> DEFINE c == [s EXCEPT !.wantBranch = NoDN]
           g == [c EXCEPT !.guard = Target("branch", s.wantBranch), !.post = TRUE]
<1>1. ReconcileBranch(s) \in {c, g, CommitBranch(c, s.wantBranch)}
  BY DEF ReconcileBranch
<1>2. /\ DOMAIN c = UiParts /\ c.sent = s.sent /\ c.lastId = s.lastId
      /\ c.latest = s.latest /\ c.branch = s.branch /\ c.query = s.query /\ c.hits = s.hits
      /\ c.ver = s.ver /\ c.kids = s.kids /\ c.listDirty = s.listDirty /\ c.list = s.list
  BY DEF Shape, UiParts
<1>3. /\ DOMAIN g = UiParts /\ g.sent = s.sent /\ g.lastId = s.lastId
      /\ g.latest = s.latest /\ g.branch = s.branch /\ g.query = s.query /\ g.hits = s.hits
      /\ g.ver = s.ver /\ g.kids = s.kids /\ g.listDirty = s.listDirty /\ g.list = s.list
  BY DEF Shape, UiParts
<1> HIDE DEF c, g
<1>4. Moves(s, c)
  BY <1>2, Silent DEF SameFind, SameList
<1>5. Moves(s, g)
  BY <1>3, Silent DEF SameFind, SameList
<1>6. Moves(s, CommitBranch(c, s.wantBranch))
  BY <1>4, CommitMoves, MovesOn DEF Moves
<1>7. QED
  BY <1>1, <1>4, <1>5, <1>6

LEMMA TreeMoves ==
  ASSUME NEW s, Shape(s)
  PROVE  Moves(s, RefreshTree(s))
<1> DEFINE t == RebuildTree(s)
<1>1. /\ DOMAIN t = UiParts /\ t.sent = s.sent /\ t.lastId = s.lastId
      /\ t.latest = s.latest /\ t.branch = s.branch /\ t.query = s.query /\ t.hits = s.hits
      /\ t.ver = s.ver /\ t.kids = s.kids /\ t.listDirty = s.listDirty /\ t.list = s.list
  BY DEF RebuildTree, Shape, UiParts
<1> HIDE DEF t
<1>2. Moves(s, t)
  BY <1>1, Silent DEF SameFind, SameList
<1>3. QED
  BY <1>2, Stays DEF RefreshTree, t

LEMMA RepopulateMoves ==
  ASSUME NEW s, Shape(s)
  PROVE  Moves(s, Repopulate(s))
<1> DEFINE t == Repopulate(s)
<1>1. /\ DOMAIN t = UiParts /\ t.sent = s.sent /\ t.lastId = s.lastId
      /\ t.latest = s.latest /\ t.branch = s.branch /\ t.query = s.query /\ t.hits = s.hits
      /\ t.ver = s.ver /\ t.kids = s.kids /\ t.list.rows = LeafRows(s)
      /\ DOMAIN t.list = {"rows", "row"}
  BY DEF Repopulate, Shape, UiParts
<1> HIDE DEF t
<1>2. Listed(t) = Listed(s)
  BY <1>1 DEF Listed
<1>3. ListOK(t)
  BY <1>1, <1>2 DEF ListOK, LeafRows
<1>4. Shape(t) /\ SendsNoFind(s, t) /\ SameFind(s, t)
  BY <1>1 DEF Shape, SendsNoFind, SameFind
<1>5. QED
  BY <1>1, <1>3, <1>4 DEF Moves, t

LEMMA ListMoves ==
  ASSUME NEW s, Shape(s)
  PROVE  Moves(s, RefreshList(s))
BY RepopulateMoves, Stays DEF RefreshList

LEMMA VanishedMoves ==
  ASSUME NEW s, Shape(s)
  PROVE  Moves(s, NoteEntryVanished(s))
<1> DEFINE t == NoteEntryVanished(s)
<1>1. /\ DOMAIN t = UiParts /\ t.sent = s.sent /\ t.lastId = s.lastId
      /\ t.latest = s.latest /\ t.branch = s.branch /\ t.query = s.query /\ t.hits = s.hits
      /\ t.listDirty /\ t.list = s.list
  BY DEF NoteEntryVanished, Shape, UiParts
<1> HIDE DEF t
<1>2. Moves(s, t)
  BY <1>1, Silent DEF SameFind
<1>3. QED
  BY <1>2 DEF t

LEMMA AdoptMoves ==
  ASSUME NEW s, Shape(s), NEW known
  PROVE  Moves(s, AdoptStructure(s, known))
<1> DEFINE n == [s EXCEPT !.ver = known, !.kids = ChildrenIn(known)]
           b == IF known[s.branch] = 0 THEN [n EXCEPT !.branch = Base] ELSE n
           f == IF s.leaf # NoDN /\ known[s.leaf] = 0 THEN NoteEntryVanished(b) ELSE b
           t == [f EXCEPT !.query = Empty, !.hits = NoHits, !.latest = 0,
                          !.listDirty = TRUE, !.treeDirty = TRUE]
<1>1. AdoptStructure(s, known) = t
  BY DEF AdoptStructure
<1>2. DOMAIN b = UiParts /\ b.sent = s.sent /\ b.lastId = s.lastId /\ b.list = s.list
  BY DEF Shape, UiParts
<1> HIDE DEF b
<1>3. Shape(b)
  BY <1>2 DEF Shape
<1>4. DOMAIN NoteEntryVanished(b) = UiParts /\ NoteEntryVanished(b).sent = b.sent
      /\ NoteEntryVanished(b).lastId = b.lastId /\ NoteEntryVanished(b).list = b.list
  BY <1>2 DEF NoteEntryVanished, UiParts
<1>5. DOMAIN f = UiParts /\ f.sent = s.sent /\ f.lastId = s.lastId /\ f.list = s.list
  BY <1>2, <1>4
<1> HIDE DEF f
<1>6. /\ DOMAIN t = UiParts /\ t.sent = s.sent /\ t.lastId = s.lastId
      /\ t.latest = 0 /\ t.query = Empty /\ t.hits = NoHits /\ t.listDirty /\ t.list = s.list
  BY <1>5 DEF UiParts
<1> HIDE DEF t
<1>7. Moves(s, t)
  BY <1>6, Silent DEF FindLeft
<1>8. QED
  BY <1>1, <1>7

LEMMA AdoptSends ==
  ASSUME NEW s, Shape(s), NEW known
  PROVE  AdoptStructure(s, known).sent = s.sent
<1> DEFINE n == [s EXCEPT !.ver = known, !.kids = ChildrenIn(known)]
           b == IF known[s.branch] = 0 THEN [n EXCEPT !.branch = Base] ELSE n
           f == IF s.leaf # NoDN /\ known[s.leaf] = 0 THEN NoteEntryVanished(b) ELSE b
<1>1. DOMAIN b = UiParts /\ b.sent = s.sent
  BY DEF Shape, UiParts
<1> HIDE DEF b
<1>2. DOMAIN NoteEntryVanished(b) = UiParts /\ NoteEntryVanished(b).sent = b.sent
  BY <1>1 DEF NoteEntryVanished, UiParts
<1>3. DOMAIN f = UiParts /\ f.sent = s.sent
  BY <1>1, <1>2
<1> HIDE DEF f
<1>4. [f EXCEPT !.query = Empty, !.hits = NoHits, !.latest = 0,
                !.listDirty = TRUE, !.treeDirty = TRUE].sent = s.sent
  BY <1>3 DEF UiParts
<1>5. QED
  BY <1>4 DEF AdoptStructure, f, b

LEMMA ReadMoves ==
  ASSUME NEW s, Shape(s), NEW r
  PROVE  Moves(s, OnRead(s, r))
<1> DEFINE u == Upsert(s, r.dn, r.ver)
           t == [u EXCEPT !.form = [entry |-> r.dn, dirty |-> FALSE]]
<1>1. /\ DOMAIN u = UiParts /\ u.sent = s.sent /\ u.lastId = s.lastId
      /\ u.latest = s.latest /\ u.branch = s.branch /\ u.query = s.query /\ u.hits = s.hits
      /\ u.listDirty /\ u.list = s.list
  BY DEF Upsert, Shape, UiParts
<1>2. OnRead(s, r) \in {s, t}
  BY DEF OnRead
<1> HIDE DEF u
<1>3. /\ DOMAIN t = UiParts /\ t.sent = s.sent /\ t.lastId = s.lastId
      /\ t.latest = s.latest /\ t.branch = s.branch /\ t.query = s.query /\ t.hits = s.hits
      /\ t.listDirty /\ t.list = s.list
  BY <1>1 DEF UiParts
<1> HIDE DEF t
<1>4. Moves(s, t)
  BY <1>3, Silent DEF SameFind
<1>5. QED
  BY <1>2, <1>4, Stays

LEMMA SavedMoves ==
  ASSUME NEW s, Shape(s), NEW r
  PROVE  Moves(s, OnSaved(s, r))
<1> DEFINE t == [s EXCEPT !.nav = NoDN]
<1>1. /\ DOMAIN t = UiParts /\ t.sent = s.sent /\ t.lastId = s.lastId
      /\ t.latest = s.latest /\ t.branch = s.branch /\ t.query = s.query /\ t.hits = s.hits
      /\ t.ver = s.ver /\ t.kids = s.kids /\ t.listDirty = s.listDirty /\ t.list = s.list
  BY DEF Shape, UiParts
<1>2. OnSaved(s, r) \in {s, Reread(t, IF s.nav # NoDN THEN s.nav ELSE r.dn)}
  BY DEF OnSaved
<1> HIDE DEF t
<1>3. Moves(s, t)
  BY <1>1, Silent DEF SameFind, SameList
<1>4. QED
  BY <1>2, <1>3, RereadMoves, MovesOn, Stays DEF Moves

LEMMA CreatedMoves ==
  ASSUME NEW s, Shape(s), NEW r
  PROVE  Moves(s, OnCreated(s, r))
<1> DEFINE t == [s EXCEPT !.form = NoForm]
<1>1. /\ DOMAIN t = UiParts /\ t.sent = s.sent /\ t.lastId = s.lastId
      /\ t.latest = s.latest /\ t.branch = s.branch /\ t.query = s.query /\ t.hits = s.hits
      /\ t.ver = s.ver /\ t.kids = s.kids /\ t.listDirty = s.listDirty /\ t.list = s.list
  BY DEF Shape, UiParts
<1>2. OnCreated(s, r) \in {s, Reread(t, r.dn)}
  BY DEF OnCreated
<1> HIDE DEF t
<1>3. Moves(s, t)
  BY <1>1, Silent DEF SameFind, SameList
<1>4. QED
  BY <1>2, <1>3, RereadMoves, MovesOn, Stays DEF Moves

(***************************************************************************)
(* A find is typed, served and answered.                                   *)
(***************************************************************************)
LEMMA FindsAre ==
  ASSUME NEW s, NEW J, NEW A, FindsOK(s, J, A)
  PROVE  /\ s.lastId \in Nat
         /\ \A x \in J : x.what = "find" => Asked(s, x)
         /\ \A a \in A : /\ a.what \in {"read", "find", "save", "create"}
                         /\ a.what = "find" => Answers(s, a)
         /\ HitsHere(s)
BY DEF FindsOK

LEMMA FindTyped ==
  ASSUME NEW s, Shape(s), s.sent = <<>>, NEW J, NEW A, FindsOK(s, J, A), NEW t
  PROVE  LET q == SetLeafSearch(s, t)
         IN  /\ Shape(q) /\ q.listDirty /\ q.list = s.list
             /\ FindsOK(q, J \cup ToSet(q.sent), A)
<1> DEFINE q == SetLeafSearch(s, t)
           j == FindJob(s, t)
<1>1. /\ DOMAIN q = UiParts /\ q.listDirty /\ q.list = s.list /\ q.query = t /\ q.branch = s.branch
      /\ t = Empty => /\ q.sent = s.sent /\ q.hits = NoHits
                      /\ q.lastId = s.lastId /\ q.latest = s.latest
      /\ t # Empty => /\ q.sent = Append(s.sent, j) /\ q.hits = s.hits
                      /\ q.lastId = s.lastId + 1 /\ q.latest = s.lastId + 1
  BY DEF SetLeafSearch, Shape, UiParts
<1>2. /\ s.lastId \in Nat
      /\ \A x \in J : x.what = "find" => Asked(s, x)
      /\ \A a \in A : /\ a.what \in {"read", "find", "save", "create"}
                      /\ a.what = "find" => Answers(s, a)
      /\ HitsHere(s)
  BY FindsAre
<1>3. j.what = "find" /\ j.id = s.lastId + 1 /\ j.branch = s.branch /\ j.term = t
  BY DEF FindJob
<1> HIDE DEF q, j
<1>4. CASE t = Empty
  <2>1. Shape(q) /\ ToSet(q.sent) = {}
    BY <1>1, <1>4, QueueEmpty DEF Shape
  <2>2. \A x : Asked(s, x) => Asked(q, x)
    BY <1>1, <1>4 DEF Asked
  <2>3. HitsHere(q) /\ HitsOfQuery(q, J, A)
    BY <1>1, <1>4 DEF HitsHere, HitsOfQuery
  <2>4. FindsOK(q, J, A)
    BY <1>1, <1>2, <1>4, <2>2, <2>3 DEF FindsOK, Answers
  <2>5. J \cup ToSet(q.sent) = J
    BY <2>1
  <2>6. QED
    BY <1>1, <2>1, <2>4, <2>5 DEF q
<1>5. CASE t # Empty
  <2>1. IsQueue(q.sent) /\ ToSet(q.sent) = {j}
    <3>1. q.sent = Append(<<>>, j)
      BY <1>1, <1>5
    <3>2. IsQueue(Append(<<>>, j)) /\ ToSet(Append(<<>>, j)) = ToSet(<<>>) \cup {j}
      BY QueueEmpty, QueueAppend
    <3>3. QED
      BY <3>1, <3>2, QueueEmpty
  <2>2. \A x : Asked(s, x) => Asked(q, x)
    BY <1>1, <1>2, <1>5 DEF Asked
  <2>3. Asked(q, j)
    BY <1>1, <1>2, <1>3, <1>5 DEF Asked
  <2>4. HitsHere(q)
    BY <1>1, <1>2, <1>5 DEF HitsHere
  <2>5. Coming(q, J \cup ToSet(q.sent))
    BY <1>1, <1>3, <1>5, <2>1 DEF Coming
  <2>6. HitsOfQuery(q, J \cup ToSet(q.sent), A)
    BY <2>5 DEF HitsOfQuery
  <2>7. \A x \in J \cup ToSet(q.sent) : x.what = "find" => Asked(q, x)
    BY <1>2, <2>1, <2>2, <2>3
  <2>8. \A r \in A : r.what = "find" => Answers(q, r)
    BY <1>2, <2>2 DEF Answers
  <2>9. q.lastId \in Nat
    BY <1>1, <1>2, <1>5
  <2>10. FindsOK(q, J \cup ToSet(q.sent), A)
    BY <1>2, <2>4, <2>6, <2>7, <2>8, <2>9 DEF FindsOK
  <2>11. QED
    BY <1>1, <2>1, <2>10 DEF q, Shape
<1>6. QED
  BY <1>4, <1>5

\* An answer that counts for nothing, because it is not a find's or not the latest's.
LEMMA AnswerIgnored ==
  ASSUME NEW s, NEW J, NEW A, NEW r, FindsOK(s, J, {r} \cup A),
         r.what = "find" => r.id # s.latest
  PROVE  FindsOK(s, J, A)
<1>1. HitsOfQuery(s, J, {r} \cup A) /\ (Coming(s, {r} \cup A) => Coming(s, A))
  BY DEF FindsOK, Coming
<1>2. HitsOfQuery(s, J, A)
  BY <1>1 DEF HitsOfQuery
<1>3. QED
  BY <1>2 DEF FindsOK

LEMMA FindAnswered ==
  ASSUME NEW s, Shape(s), NEW J, NEW A, NEW r, FindsOK(s, J, {r} \cup A),
         r.what = "find", ListOK(s)
  PROVE  /\ Shape(OnFind(s, r)) /\ OnFind(s, r).sent = s.sent /\ ListOK(OnFind(s, r))
         /\ FindsOK(OnFind(s, r), J, A)
<1>1. CASE r.id # s.latest
  <2>1. OnFind(s, r) = s
    BY <1>1 DEF OnFind, AcceptsFind
  <2>2. QED
    BY <1>1, <2>1, AnswerIgnored
<1>2. CASE r.id = s.latest
  <2> DEFINE u == UpsertHits(s, r)
             h == [dns |-> r.hits, branch |-> r.ask.branch, term |-> r.ask.term]
             t == [u EXCEPT !.hits = h, !.listDirty = TRUE]
             e == [s EXCEPT !.hits = NoHits, !.listDirty = TRUE]
  <2>1. OnFind(s, r) = IF r.ok THEN t ELSE e
    BY <1>2 DEF OnFind, AcceptsFind
  <2>2. /\ s.lastId \in Nat
        /\ \A x \in J : x.what = "find" => Asked(s, x)
        /\ \A a \in A : /\ a.what \in {"read", "find", "save", "create"}
                        /\ a.what = "find" => Answers(s, a)
        /\ Answers(s, r)
    BY FindsAre
  <2>3. ASSUME NEW v, DOMAIN v = UiParts, v.sent = s.sent, v.lastId = s.lastId,
               v.latest = s.latest, v.branch = s.branch, v.query = s.query, v.listDirty, v.list = s.list,
               v.hits \in {h, NoHits}
        PROVE  Shape(v) /\ ListOK(v) /\ FindsOK(v, J, A)
    <3>1. Shape(v) /\ ListOK(v)
      BY <2>3 DEF Shape, ListOK
    <3>2. \A x : Asked(s, x) => Asked(v, x)
      BY <2>3 DEF Asked
    <3>3. /\ \A d \in r.hits : Parent[d] = r.ask.branch
          /\ r.ask.branch = s.branch /\ (s.query = Empty \/ r.ask.term = s.query)
      BY <1>2, <2>2 DEF Answers, Asked
    <3>4. h.dns = r.hits /\ h.branch = r.ask.branch /\ h.term = r.ask.term
      OBVIOUS
    <3> HIDE DEF h
    <3>5. HitsHere(v) /\ HitsOfQuery(v, J, A)
      BY <2>3, <3>3, <3>4 DEF HitsHere, HitsOfQuery
    <3>6. FindsOK(v, J, A)
      BY <2>2, <2>3, <3>2, <3>5 DEF FindsOK, Answers
    <3>7. QED
      BY <3>1, <3>6
  <2>4. /\ DOMAIN u = UiParts /\ u.sent = s.sent /\ u.lastId = s.lastId
        /\ u.latest = s.latest /\ u.branch = s.branch /\ u.query = s.query /\ u.list = s.list
    BY DEF UpsertHits, Shape, UiParts
  <2> HIDE DEF u, h
  <2>5. /\ DOMAIN t = UiParts /\ t.sent = s.sent /\ t.lastId = s.lastId
        /\ t.latest = s.latest /\ t.branch = s.branch /\ t.query = s.query
        /\ t.listDirty /\ t.hits = h /\ t.list = s.list
    BY <2>4 DEF UiParts
  <2>6. /\ DOMAIN e = UiParts /\ e.sent = s.sent /\ e.lastId = s.lastId
        /\ e.latest = s.latest /\ e.branch = s.branch /\ e.query = s.query
        /\ e.listDirty /\ e.hits = NoHits /\ e.list = s.list
    BY DEF Shape, UiParts
  <2> HIDE DEF t, e
  <2>7. Shape(t) /\ ListOK(t) /\ FindsOK(t, J, A)
    BY <2>3, <2>5
  <2>8. Shape(e) /\ ListOK(e) /\ FindsOK(e, J, A)
    BY <2>3, <2>6
  <2>9. QED
    BY <2>1, <2>5, <2>6, <2>7, <2>8
<1>3. QED
  BY <1>1, <1>2

-----------------------------------------------------------------------------
(***************************************************************************)
(* The steps of the specification.                                         *)
(***************************************************************************)

\* The end of a handler: what it sent joins the queue.
LEMMA HandlerEnds ==
  ASSUME NavInv, NEW s, NEW A, Shape(s), ListOK(s),
         FindsOK(s, ToSet(jobs) \cup ToSet(s.sent), A),
         Step(s), IsQueue(resps'), ToSet(resps') = A
  PROVE  NavInv'
<1>1. /\ ui' = [s EXCEPT !.sent = <<>>, !.post = FALSE] /\ jobs' = jobs \o s.sent
  BY DEF Step
<1>2. /\ IsQueue(jobs') /\ ToSet(jobs') = ToSet(jobs) \cup ToSet(s.sent)
  <2>1. IsQueue(jobs) /\ IsQueue(s.sent)
    BY DEF NavInv, Shape
  <2>2. QED
    BY <1>1, <2>1, QueueConcat
<1>3. /\ DOMAIN ui' = UiParts /\ ui'.sent = <<>> /\ ui'.lastId = s.lastId
      /\ ui'.latest = s.latest /\ ui'.branch = s.branch /\ ui'.query = s.query
      /\ ui'.hits = s.hits /\ ui'.ver = s.ver /\ ui'.kids = s.kids
      /\ ui'.listDirty = s.listDirty /\ ui'.list = s.list
  BY <1>1 DEF Shape, UiParts
<1>4. Shape(ui')
  BY <1>3, QueueEmpty DEF Shape
<1>5. ListOK(ui')
  <2>1. SameList(s, ui')
    BY <1>3 DEF SameList
  <2>2. QED
    BY <1>3, <2>1, ListFollows
<1>6. FindsOK(ui', ToSet(jobs'), ToSet(resps'))
  <2> DEFINE J == ToSet(jobs')
  <2>1. FindsOK(s, J, A)
    BY <1>2
  <2> HIDE DEF J
  <2>2. FindsOK(ui', J, A)
    BY <1>3, <2>1 DEF FindsOK, Asked, Answers, HitsHere, HitsOfQuery, Coming
  <2>3. QED
    BY <2>2 DEF J
<1>7. QED
  BY <1>2, <1>3, <1>4, <1>5, <1>6 DEF NavInv

\* A handler that moves from the state there is.
LEMMA HandlerMoves ==
  ASSUME NavInv, NEW s, Moves(ui, s), Step(s), resps' = resps
  PROVE  NavInv'
<1>1. ToSet(ui.sent) = {} /\ Shape(ui) /\ ListOK(ui) /\ IsQueue(resps)
  BY QueueEmpty DEF NavInv
<1>2. FindsOK(ui, ToSet(jobs) \cup ToSet(ui.sent), ToSet(resps))
  BY <1>1 DEF NavInv
<1>3. FindsOK(s, ToSet(jobs) \cup ToSet(s.sent), ToSet(resps))
  BY <1>2, MovesKeep
<1>4. Shape(s) /\ ListOK(s)
  BY <1>1 DEF Moves
<1>5. QED
  BY <1>1, <1>3, <1>4, HandlerEnds

\* A step that only moves a highlight, edits the form or opens a dialog.
LEMMA QuietStep ==
  ASSUME NavInv, Moves(ui, ui'), ui'.sent = <<>>, UNCHANGED <<jobs, resps>>
  PROVE  NavInv'
<1>1. ToSet(ui.sent) = {} /\ ToSet(ui'.sent) = {} /\ ListOK(ui)
  BY QueueEmpty DEF NavInv
<1>2. FindsOK(ui, ToSet(jobs) \cup ToSet(ui.sent), ToSet(resps))
  BY <1>1 DEF NavInv
<1>3. FindsOK(ui', ToSet(jobs) \cup ToSet(ui'.sent), ToSet(resps))
  BY <1>2, MovesKeep
<1>4. FindsOK(ui', ToSet(jobs), ToSet(resps))
  BY <1>1, <1>3
<1>5. QED
  BY <1>1, <1>4 DEF NavInv, Moves

LEMMA StepMoveRow ==
  ASSUME NavInv, NEW i, MoveRow(i)
  PROVE  NavInv'
<1>1. PICK w : ui' = [ui EXCEPT !.list.row = i, !.wantLeaf = w]
  BY DEF MoveRow
<1>2. Shape(ui) /\ ui.sent = <<>> /\ DOMAIN ui.list = {"rows", "row"} /\ ListOK(ui)
  BY DEF NavInv, ListOK
<1>3. /\ DOMAIN ui' = UiParts /\ ui'.sent = ui.sent /\ ui'.lastId = ui.lastId
      /\ ui'.latest = ui.latest /\ ui'.branch = ui.branch /\ ui'.query = ui.query
      /\ ui'.hits = ui.hits /\ ui'.ver = ui.ver /\ ui'.kids = ui.kids
      /\ ui'.listDirty = ui.listDirty /\ ui'.list = [ui.list EXCEPT !.row = i]
  BY <1>1, <1>2 DEF Shape, UiParts
<1>4. ui'.list.rows = ui.list.rows /\ DOMAIN ui'.list = {"rows", "row"}
  BY <1>2, <1>3
<1>5. Listed(ui') = Listed(ui)
  BY <1>3 DEF Listed
<1>6. ListOK(ui')
  BY <1>2, <1>3, <1>4, <1>5 DEF ListOK, LeafRows
<1>7. Shape(ui') /\ SendsNoFind(ui, ui') /\ SameFind(ui, ui')
  BY <1>2, <1>3 DEF Shape, SendsNoFind, SameFind
<1>8. Moves(ui, ui') /\ UNCHANGED <<jobs, resps>>
  BY <1>3, <1>6, <1>7 DEF Moves, MoveRow
<1>9. QED
  BY <1>2, <1>3, <1>8, QuietStep

LEMMA StepMoveBranch ==
  ASSUME NavInv, NEW i, MoveBranch(i)
  PROVE  NavInv'
<1>1. PICK w : /\ UNCHANGED <<jobs, resps>>
               /\ ui' = [ui EXCEPT !.tree.row = i, !.wantBranch = w]
  BY DEF MoveBranch
<1>2. Shape(ui) /\ ui.sent = <<>>
  BY DEF NavInv
<1>3. /\ DOMAIN ui' = UiParts /\ ui'.sent = ui.sent /\ ui'.lastId = ui.lastId
      /\ ui'.latest = ui.latest /\ ui'.branch = ui.branch /\ ui'.query = ui.query
      /\ ui'.hits = ui.hits /\ ui'.ver = ui.ver /\ ui'.kids = ui.kids
      /\ ui'.listDirty = ui.listDirty /\ ui'.list = ui.list
  BY <1>1, <1>2 DEF Shape, UiParts
<1>4. Moves(ui, ui')
  BY <1>2, <1>3, Silent DEF SameFind, SameList
<1>5. QED
  BY <1>1, <1>2, <1>3, <1>4, QuietStep

LEMMA StepEditForm ==
  ASSUME NavInv, EditForm
  PROVE  NavInv'
<1>1. /\ UNCHANGED <<jobs, resps>> /\ ui' = [ui EXCEPT !.form.dirty = TRUE]
  BY DEF EditForm
<1>2. Shape(ui) /\ ui.sent = <<>>
  BY DEF NavInv
<1>3. /\ DOMAIN ui' = UiParts /\ ui'.sent = ui.sent /\ ui'.lastId = ui.lastId
      /\ ui'.latest = ui.latest /\ ui'.branch = ui.branch /\ ui'.query = ui.query
      /\ ui'.hits = ui.hits /\ ui'.ver = ui.ver /\ ui'.kids = ui.kids
      /\ ui'.listDirty = ui.listDirty /\ ui'.list = ui.list
  BY <1>1, <1>2 DEF Shape, UiParts
<1>4. Moves(ui, ui')
  BY <1>2, <1>3, Silent DEF SameFind, SameList
<1>5. QED
  BY <1>1, <1>2, <1>3, <1>4, QuietStep

LEMMA StepReload ==
  ASSUME NavInv, Reload
  PROVE  NavInv'
<1>1. ui' = AdoptStructure(ui, LoadStructure) /\ jobs = <<>> /\ UNCHANGED <<jobs, resps>>
  BY DEF Reload
<1>2. Shape(ui) /\ ui.sent = <<>>
  BY DEF NavInv
<1>3. Moves(ui, ui')
  BY <1>1, <1>2, AdoptMoves
<1>4. ui'.sent = <<>>
  BY <1>1, <1>2, AdoptSends
<1>5. QED
  BY <1>1, <1>3, <1>4, QuietStep

LEMMA StepTypeFind ==
  ASSUME NavInv, NEW t, TypeFind(t)
  PROVE  NavInv'
<1> DEFINE q == SetLeafSearch(ui, t)
<1>1. Step(Repopulate(q)) /\ resps' = resps
  BY DEF TypeFind
<1>2. Shape(ui) /\ ui.sent = <<>> /\ FindsOK(ui, ToSet(jobs), ToSet(resps)) /\ IsQueue(resps)
  BY DEF NavInv
<1>3. /\ Shape(q) /\ q.listDirty /\ q.list = ui.list /\ FindsOK(q, ToSet(jobs) \cup ToSet(q.sent), ToSet(resps))
  BY <1>2, FindTyped
<1> HIDE DEF q
<1>4. Moves(q, Repopulate(q)) /\ ListOK(q)
  BY <1>3, RepopulateMoves DEF ListOK, NavInv
<1>5. FindsOK(Repopulate(q), ToSet(jobs) \cup ToSet(Repopulate(q).sent), ToSet(resps))
  BY <1>3, <1>4, MovesKeep
<1>6. Shape(Repopulate(q)) /\ ListOK(Repopulate(q))
  BY <1>4 DEF Moves
<1>7. QED
  BY <1>1, <1>2, <1>5, <1>6, HandlerEnds

\* A change of what the find and the list are not made from, then the end.
Beside(s, t) ==
  /\ DOMAIN t = UiParts /\ t.sent = s.sent /\ t.lastId = s.lastId
  /\ t.latest = s.latest /\ t.branch = s.branch /\ t.query = s.query /\ t.hits = s.hits
  /\ t.ver = s.ver /\ t.kids = s.kids /\ t.list = s.list
  /\ t.listDirty \in {s.listDirty, TRUE}

LEMMA BesideMoves ==
  ASSUME NEW s, Shape(s), NEW t, Beside(s, t)
  PROVE  Moves(s, t)
<1>1. SameFind(s, t) /\ (t.listDirty \/ SameList(s, t))
  BY DEF Beside, SameFind, SameList
<1>2. QED
  BY <1>1, Silent DEF Beside

LEMMA DecidedKeeps ==
  ASSUME NavInv, NEW s, Moves(ui, s), Decided(s)
  PROVE  NavInv'
<1> DEFINE t == [s EXCEPT !.guard = NoTarget]
<1>1. Step(t) /\ resps' = resps
  BY DEF Decided
<1>2. Shape(s)
  BY DEF Moves
<1>3. Beside(s, t)
  BY <1>2 DEF Shape, UiParts, Beside
<1> HIDE DEF t
<1>4. Moves(ui, t)
  BY <1>2, <1>3, BesideMoves, MovesOn
<1>5. QED
  BY <1>1, <1>4, HandlerMoves

LEMMA StepGuardSave ==
  ASSUME NavInv, GuardSave
  PROVE  NavInv'
<1> DEFINE to == dialog.target
           n  == IF to.kind = "leaf" THEN to.dn ELSE NoDN
           x  == [what |-> "save", dn |-> ui.form.entry]
           s  == [ui EXCEPT !.nav = n, !.sent = Append(@, x)]
           t  == IF to.kind = "branch" THEN CommitBranch(s, to.dn) ELSE s
<1>1. Decided(t)
  BY DEF GuardSave
<1>2. Shape(ui)
  BY DEF NavInv
<1>3. x.what # "find"
  OBVIOUS
<1> HIDE DEF n, x
<1>4. /\ DOMAIN s = UiParts /\ s.sent = Append(ui.sent, x) /\ s.lastId = ui.lastId
      /\ s.latest = ui.latest /\ s.branch = ui.branch /\ s.query = ui.query
      /\ s.hits = ui.hits /\ s.ver = ui.ver /\ s.kids = ui.kids
      /\ s.listDirty = ui.listDirty /\ s.list = ui.list
  BY <1>2 DEF Shape, UiParts
<1> HIDE DEF s
<1>5. Moves(ui, s)
  BY <1>2, <1>3, <1>4, Sends DEF SameFind, SameList
<1>6. Moves(ui, t)
  BY <1>5, CommitMoves, MovesOn DEF Moves
<1>7. QED
  BY <1>1, <1>6, DecidedKeeps

LEMMA StepGuardStays ==
  ASSUME NavInv, GuardSaveCancelled \/ GuardStay \/ VanishedKeep \/ VanishedDiscard
  PROVE  NavInv'
<1> DEFINE a == [ui EXCEPT !.treeDirty = TRUE]
           b == [ui EXCEPT !.listDirty = TRUE, !.nav = NoDN]
           c == [ui EXCEPT !.listDirty = TRUE]
           d == [ui EXCEPT !.form = NoForm, !.leaf = NoDN, !.listDirty = TRUE]
<1>1. Decided(a) \/ Decided(b) \/ Decided(c) \/ Decided(ui) \/ Decided(d)
  BY DEF GuardSaveCancelled, GuardStay, VanishedKeep, VanishedDiscard
<1>2. Shape(ui)
  BY DEF NavInv
<1>3. Beside(ui, a) /\ Beside(ui, b)
  BY <1>2 DEF Shape, UiParts, Beside
<1>4. Beside(ui, c) /\ Beside(ui, d)
  BY <1>2 DEF Shape, UiParts, Beside
<1> HIDE DEF a, b, c, d
<1>5. Moves(ui, a) /\ Moves(ui, b) /\ Moves(ui, c) /\ Moves(ui, d) /\ Moves(ui, ui)
  BY <1>2, <1>3, <1>4, BesideMoves, Stays
<1>6. QED
  BY <1>1, <1>5, DecidedKeeps

LEMMA StepGuardDiscard ==
  ASSUME NavInv, GuardDiscard
  PROVE  NavInv'
<1> DEFINE s  == [ui EXCEPT !.form.dirty = FALSE]
           to == dialog.target
<1>1. Decided(Reread(s, to.dn)) \/ Decided(CommitBranch(s, to.dn)) \/ Decided(s)
  BY DEF GuardDiscard
<1>2. Shape(ui)
  BY DEF NavInv
<1>3. Beside(ui, s)
  BY <1>2 DEF Shape, UiParts, Beside
<1> HIDE DEF s
<1>4. Moves(ui, s) /\ Shape(s)
  BY <1>2, <1>3, BesideMoves DEF Moves
<1>5. Moves(ui, Reread(s, to.dn)) /\ Moves(ui, CommitBranch(s, to.dn))
  BY <1>4, RereadMoves, CommitMoves, MovesOn
<1>6. QED
  BY <1>1, <1>4, <1>5, DecidedKeeps

LEMMA StepRecreate ==
  ASSUME NavInv, VanishedRecreate
  PROVE  NavInv'
<1> DEFINE x == [what |-> "create", dn |-> dialog.target.dn]
           s == [ui EXCEPT !.sent = Append(@, x)]
<1>1. Decided(s)
  BY DEF VanishedRecreate
<1>2. Shape(ui) /\ x.what # "find"
  BY DEF NavInv
<1> HIDE DEF x
<1>3. /\ DOMAIN s = UiParts /\ s.sent = Append(ui.sent, x) /\ s.lastId = ui.lastId
      /\ s.latest = ui.latest /\ s.branch = ui.branch /\ s.query = ui.query
      /\ s.hits = ui.hits /\ s.ver = ui.ver /\ s.kids = ui.kids
      /\ s.listDirty = ui.listDirty /\ s.list = ui.list
  BY <1>2 DEF Shape, UiParts
<1> HIDE DEF s
<1>4. Moves(ui, s)
  BY <1>2, <1>3, Sends DEF SameFind, SameList
<1>5. QED
  BY <1>1, <1>4, DecidedKeeps

\* A request is served: what it answers is what it asked.
LEMMA StepWork ==
  ASSUME NavInv, Work
  PROVE  NavInv'
<1> DEFINE j == Head(jobs)
           J == ToSet(Tail(jobs))
           A == ToSet(resps)
<1>1. jobs # <<>> /\ ui' = ui /\ (WorkRead(j) \/ WorkFind(j) \/ WorkSave(j) \/ WorkCreate(j))
  BY DEF Work
<1>2. IsQueue(jobs) /\ IsQueue(resps) /\ FindsOK(ui, ToSet(jobs), A) /\ Shape(ui) /\ ui.sent = <<>>
      /\ ListOK(ui)
  BY DEF NavInv
<1>3. IsQueue(Tail(jobs)) /\ ToSet(jobs) = {j} \cup J
  BY <1>1, <1>2, QueueTail
<1>4. PICK r : /\ jobs' = Tail(jobs) /\ resps' = Append(resps, r)
               /\ r.what = j.what /\ r.what \in {"read", "find", "save", "create"}
               /\ r.what = "find" => /\ r.id = j.id /\ r.ask = j
                                     /\ \A d \in r.hits : Parent[d] = j.branch
  <2>1. CASE WorkRead(j)
    <3> DEFINE r == [what |-> "read", ok |-> dir[j.dn] # 0, dn |-> j.dn, ver |-> dir[j.dn]]
    <3>1. j.what = "read" /\ jobs' = Tail(jobs) /\ resps' = Append(resps, r)
      BY <2>1 DEF WorkRead, Answer
    <3>2. r.what = "read"
      OBVIOUS
    <3> HIDE DEF r
    <3>3. QED
      BY <3>1, <3>2
  <2>2. CASE WorkFind(j)
    <3>1. PICK ok \in BOOLEAN :
            Answer([what |-> "find", ok |-> ok /\ dir[j.branch] # 0, id |-> j.id,
                    ask |-> j,
                    hits |-> {d \in Below(j.branch) : <<d, dir[d]>> \in Matches[j.term]},
                    vers |-> dir])
      BY <2>2 DEF WorkFind
    <3> DEFINE H == {d \in Below(j.branch) : <<d, dir[d]>> \in Matches[j.term]}
               r == [what |-> "find", ok |-> ok /\ dir[j.branch] # 0, id |-> j.id,
                     ask |-> j, hits |-> H, vers |-> dir]
    <3>2. j.what = "find" /\ jobs' = Tail(jobs) /\ resps' = Append(resps, r)
      BY <2>2, <3>1 DEF WorkFind, Answer
    <3>3. \A d \in H : Parent[d] = j.branch
      BY DEF Below
    <3> HIDE DEF H
    <3>4. r.what = "find" /\ r.id = j.id /\ r.ask = j /\ r.hits = H
      OBVIOUS
    <3> HIDE DEF r
    <3>5. QED
      BY <3>2, <3>3, <3>4
  <2>3. CASE WorkSave(j)
    <3>1. PICK ok \in BOOLEAN : Answer([what |-> "save", ok |-> ok, dn |-> j.dn])
      BY <2>3 DEF WorkSave
    <3> DEFINE r == [what |-> "save", ok |-> ok, dn |-> j.dn]
    <3>2. j.what = "save" /\ jobs' = Tail(jobs) /\ resps' = Append(resps, r) /\ r.what = "save"
      BY <2>3, <3>1 DEF WorkSave, Answer
    <3> HIDE DEF r
    <3>3. QED
      BY <3>2
  <2>4. CASE WorkCreate(j)
    <3> DEFINE ok == dir[j.dn] = 0 /\ dir[Parent[j.dn]] # 0
               r  == [what |-> "create", ok |-> ok, dn |-> j.dn]
    <3>1. j.what = "create" /\ jobs' = Tail(jobs) /\ resps' = Append(resps, r)
      BY <2>4 DEF WorkCreate, Answer
    <3>2. r.what = "create"
      OBVIOUS
    <3> HIDE DEF r
    <3>3. QED
      BY <3>1, <3>2
  <2>5. QED
    BY <1>1, <2>1, <2>2, <2>3, <2>4
<1>5. IsQueue(resps') /\ ToSet(resps') = A \cup {r}
  BY <1>2, <1>4, QueueAppend
<1> HIDE DEF J, A, j
<1>6. /\ ui.lastId \in Nat /\ HitsHere(ui)
      /\ \A x \in {j} \cup J : x.what = "find" => Asked(ui, x)
      /\ \A a \in A : /\ a.what \in {"read", "find", "save", "create"}
                      /\ a.what = "find" => Answers(ui, a)
  BY <1>2, <1>3, FindsAre
<1>7. r.what = "find" => Answers(ui, r)
  BY <1>4, <1>6 DEF Answers, Asked
<1>8. HitsOfQuery(ui, J, A \cup {r})
  <2>1. HitsOfQuery(ui, {j} \cup J, A)
    BY <1>2, <1>3 DEF FindsOK
  <2>2. Coming(ui, {j} \cup J) \/ Coming(ui, A) => Coming(ui, J) \/ Coming(ui, A \cup {r})
    BY <1>4 DEF Coming
  <2>3. QED
    BY <2>1, <2>2 DEF HitsOfQuery
<1>9. FindsOK(ui, J, A \cup {r})
  BY <1>4, <1>6, <1>7, <1>8 DEF FindsOK
<1>10. FindsOK(ui', ToSet(jobs'), ToSet(resps'))
  BY <1>1, <1>4, <1>5, <1>9 DEF J
<1>11. QED
  BY <1>1, <1>2, <1>3, <1>4, <1>5, <1>10 DEF NavInv

\* The answer of a tick, if there is one.
LEMMA PolledKeeps ==
  ASSUME NavInv, resps # <<>>
  PROVE  LET p == Polled(ui, Head(resps))
         IN  /\ Shape(p) /\ ListOK(p)
             /\ FindsOK(p, ToSet(jobs) \cup ToSet(p.sent), ToSet(Tail(resps)))
<1> DEFINE r == Head(resps)
           p == Polled(ui, r)
           J == ToSet(jobs)
           A == ToSet(Tail(resps))
<1>1. Shape(ui) /\ ListOK(ui) /\ IsQueue(resps) /\ FindsOK(ui, J, ToSet(resps))
      /\ ui.sent = <<>> /\ ToSet(ui.sent) = {}
  BY QueueEmpty DEF NavInv
<1>2. ToSet(resps) = {r} \cup A
  BY <1>1, QueueTail
<1> HIDE DEF A, J, r
<1>3. FindsOK(ui, J, {r} \cup A)
  BY <1>1, <1>2
<1>4. r.what \in {"read", "find", "save", "create"}
  BY <1>3, FindsAre
<1>5. CASE r.what = "find"
  <2>1. p = OnFind(ui, r)
    BY <1>5 DEF Polled
  <2>2. Shape(p) /\ p.sent = <<>> /\ ListOK(p) /\ FindsOK(p, J, A)
    BY <1>1, <1>3, <1>5, <2>1, FindAnswered
  <2>3. J \cup ToSet(p.sent) = J
    BY <2>2, QueueEmpty
  <2>4. QED
    BY <2>2, <2>3 DEF A, J, r
<1>6. CASE r.what # "find"
  <2>1. p \in {OnRead(ui, r), OnSaved(ui, r), OnCreated(ui, r)}
    BY <1>4, <1>6 DEF Polled
  <2>2. Moves(ui, p)
    BY <1>1, <2>1, ReadMoves, SavedMoves, CreatedMoves
  <2>3. FindsOK(ui, J, A)
    BY <1>3, <1>6, AnswerIgnored
  <2>4. FindsOK(ui, J \cup ToSet(ui.sent), A)
    BY <1>1, <2>3
  <2>5. FindsOK(p, J \cup ToSet(p.sent), A)
    BY <2>2, <2>4, MovesKeep
  <2>6. Shape(p) /\ ListOK(p)
    BY <1>1, <2>2 DEF Moves
  <2>7. QED
    BY <2>5, <2>6 DEF A, J, r
<1>7. QED
  BY <1>5, <1>6

LEMMA StepTick ==
  ASSUME NavInv, Tick
  PROVE  NavInv'
<1> DEFINE polled   == IF resps = <<>> THEN ui ELSE Polled(ui, Head(resps))
           selected == ReconcileSelection(polled)
           branched == ReconcileBranch(selected)
           rebuilt  == RefreshTree(branched)
           listed   == RefreshList(rebuilt)
           J        == ToSet(jobs)
           A        == ToSet(resps')
<1>1. Step(listed) /\ resps' = IF resps = <<>> THEN <<>> ELSE Tail(resps)
  BY DEF Tick
<1>2. IsQueue(resps')
  <2>1. CASE resps = <<>>
    BY <1>1, <2>1, QueueEmpty
  <2>2. CASE resps # <<>>
    BY <1>1, <2>2, QueueTail DEF NavInv
  <2>3. QED
    BY <2>1, <2>2
<1>3. Shape(polled) /\ ListOK(polled) /\ FindsOK(polled, J \cup ToSet(polled.sent), A)
  <2>1. CASE resps = <<>>
    <3>1. polled = ui /\ resps' = resps
      BY <1>1, <2>1
    <3>2. Shape(ui) /\ ListOK(ui) /\ FindsOK(ui, J, ToSet(resps)) /\ ToSet(ui.sent) = {}
      BY QueueEmpty DEF NavInv
    <3>3. FindsOK(ui, J \cup ToSet(ui.sent), ToSet(resps))
      BY <3>2
    <3>4. QED
      BY <3>1, <3>2, <3>3
  <2>2. CASE resps # <<>>
    <3>1. polled = Polled(ui, Head(resps)) /\ resps' = Tail(resps)
      BY <1>1, <2>2
    <3>2. QED
      BY <2>2, <3>1, PolledKeeps
  <2>3. QED
    BY <2>1, <2>2
<1> HIDE DEF polled
<1>4. Moves(polled, selected) /\ Shape(selected)
  BY <1>3, SelectionMoves DEF Moves
<1> HIDE DEF selected
<1>5. Moves(polled, branched) /\ Shape(branched)
  BY <1>4, BranchMoves, MovesOn DEF Moves
<1> HIDE DEF branched
<1>6. Moves(polled, rebuilt) /\ Shape(rebuilt)
  BY <1>5, TreeMoves, MovesOn DEF Moves
<1> HIDE DEF rebuilt
<1>7. Moves(polled, listed)
  BY <1>6, ListMoves, MovesOn
<1> HIDE DEF listed, A, J
<1>8. FindsOK(listed, J \cup ToSet(listed.sent), A)
  BY <1>3, <1>7, MovesKeep
<1>9. Shape(listed) /\ ListOK(listed)
  BY <1>3, <1>7 DEF Moves
<1>10. QED
  BY <1>1, <1>2, <1>8, <1>9, HandlerEnds DEF A, J

LEMMA NavStep ==
  ASSUME NavInv, [Next]_vars
  PROVE  NavInv'
<1>1. CASE \E i : MoveRow(i) \/ MoveBranch(i)
  BY <1>1, StepMoveRow, StepMoveBranch
<1>2. CASE \E t : TypeFind(t)
  BY <1>2, StepTypeFind
<1>3. CASE EditForm
  BY <1>3, StepEditForm
<1>4. CASE Reload
  BY <1>4, StepReload
<1>5. CASE Decide
  BY <1>5, StepGuardSave, StepGuardStays, StepGuardDiscard, StepRecreate DEF Decide
<1>6. CASE Work
  BY <1>6, StepWork
<1>7. CASE Tick
  BY <1>7, StepTick
<1>8. CASE UNCHANGED <<jobs, resps, ui>>
  BY <1>8 DEF NavInv
<1>9. RunGuard \/ (\E d : OthersChange(d)) \/ UNCHANGED vars => UNCHANGED <<jobs, resps, ui>>
  BY DEF RunGuard, OthersChange, vars
<1>10. QED
  BY <1>1, <1>2, <1>3, <1>4, <1>5, <1>6, <1>7, <1>8, <1>9 DEF Next

LEMMA NavInit == Init => NavInv
<1> SUFFICES ASSUME Init PROVE NavInv
  OBVIOUS
<1> DEFINE s == [ver |-> Initial, kids |-> ChildrenIn(Initial), branch |-> Base,
                 leaf |-> NoDN, form |-> NoForm, query |-> Empty, hits |-> NoHits,
                 lastId |-> 0, latest |-> 0, wantLeaf |-> NoDN, wantBranch |-> NoDN,
                 guard |-> NoTarget, nav |-> NoDN, listDirty |-> TRUE,
                 treeDirty |-> TRUE, list |-> [rows |-> <<>>, row |-> 0],
                 tree |-> [rows |-> <<>>, row |-> 1], sent |-> <<>>, post |-> FALSE]
           t == RefreshTree(s)
<1>1. ui = RefreshList(t) /\ jobs = <<>> /\ resps = <<>>
  BY DEF Init
<1>2. /\ DOMAIN s = UiParts /\ s.sent = <<>> /\ s.lastId = 0 /\ s.latest = 0
      /\ s.query = Empty /\ s.hits = NoHits /\ s.listDirty
      /\ DOMAIN s.list = {"rows", "row"}
  BY DEF UiParts
<1> HIDE DEF s
<1>3. Shape(s) /\ ListOK(s)
  BY <1>2, QueueEmpty DEF Shape, ListOK
<1>4. DOMAIN t = UiParts /\ t.sent = <<>>
  BY <1>2 DEF RefreshTree, RebuildTree, UiParts
<1>5. DOMAIN RefreshList(t) = UiParts /\ RefreshList(t).sent = <<>>
  BY <1>4 DEF RefreshList, Repopulate, UiParts
<1>6. Moves(s, t) /\ Shape(t)
  BY <1>3, TreeMoves DEF Moves
<1> HIDE DEF t
<1>7. Moves(s, ui)
  BY <1>1, <1>6, ListMoves, MovesOn
<1>8. FindsOK(s, {}, {})
  BY <1>2 DEF FindsOK, HitsHere, HitsOfQuery
<1>9. FindsOK(s, {} \cup ToSet(s.sent), {})
  <2>1. {} \cup ToSet(s.sent) = {}
    BY <1>2, QueueEmpty
  <2>2. QED
    BY <1>8, <2>1
<1>10. FindsOK(ui, {} \cup ToSet(ui.sent), {})
  BY <1>7, <1>9, MovesKeep
<1>11. /\ ui.sent = <<>> /\ {} \cup ToSet(ui.sent) = {}
       /\ ToSet(jobs) = {} /\ ToSet(resps) = {} /\ IsQueue(jobs) /\ IsQueue(resps)
  BY <1>1, <1>5, QueueEmpty
<1>12. FindsOK(ui, ToSet(jobs), ToSet(resps))
  BY <1>10, <1>11
<1>13. QED
  BY <1>3, <1>7, <1>11, <1>12 DEF NavInv, Moves

THEOREM NavInvariant == Spec => []NavInv
<1>1. NavInv /\ [Next]_vars => NavInv'
  BY NavStep
<1>2. QED
  BY NavInit, <1>1, PTL DEF Spec

-----------------------------------------------------------------------------
(***************************************************************************)
(* The tree.  It is marked for rebuilding more sparingly than the list, so *)
(* it stays current for a reason: an entry known together with its parent  *)
(* is linked under it, hence one that is linked anew was not known before, *)
(* and a container that was not known before marks the tree.  That needs   *)
(* what is known to hang together, which Rooted says, and entries for what *)
(* the prover is to know, which UiTyped says.                              *)
(***************************************************************************)
Rooted(s) ==
  /\ IsContainer(s, Base)
  /\ \A d \in DNs \ {Base} : s.ver[d] # 0 => s.ver[Parent[d]] # 0

Linked(s) ==
  \A d \in DNs \ {Base} :
    s.ver[d] # 0 /\ s.ver[Parent[d]] # 0 => d \in ToSet(s.kids[Parent[d]])

TreeShown(s) ==
  /\ DOMAIN s.tree = {"rows", "row"}
  /\ ~s.treeDirty => s.tree.rows = TreeRows(s)

TreeOK(s) == Linked(s) /\ TreeShown(s)

Place   == DNs \cup {NoDN}
Forms   == [entry : DNs, dirty : BOOLEAN] \cup {NoForm}
Targets == [kind : {"leaf", "branch", "vanished"}, dn : DNs] \cup {NoTarget}

JobTyped(x) ==
  /\ x.what \in {"read", "save", "create", "find"}
  /\ IF x.what = "find" THEN x.branch \in DNs ELSE x.dn \in DNs

AnswerTyped(r) ==
  /\ r.what \in {"read", "save", "create", "find"}
  /\ r.what \in {"save", "create"} => r.dn \in DNs
  /\ r.what = "read" /\ r.ok => r.dn \in DNs /\ r.ver \in Versions \ {0}
  /\ r.what = "find" => /\ r.hits \subseteq DNs \ {Base} /\ r.ask.branch \in DNs
                        /\ \A d \in r.hits : r.vers[d] \in Versions \ {0}

UiTyped(s) ==
  /\ Shape(s)
  /\ s.ver \in [DNs -> Versions] /\ s.kids \in [DNs -> Seq(DNs)]
  /\ s.branch \in DNs /\ s.leaf \in Place /\ s.nav \in Place
  /\ s.wantLeaf \in Place /\ s.wantBranch \in Place
  /\ s.form \in Forms /\ s.guard \in Targets /\ s.hits.dns \subseteq DNs
  /\ \A x \in ToSet(s.sent) : JobTyped(x)

\* What a step of the controller that leaves the structure alone may do.
Keeps(s, t) ==
  /\ UiTyped(t)
  /\ t.ver = s.ver /\ t.kids = s.kids
  /\ TreeShown(s) => TreeShown(t)

LEMMA KeepsOn ==
  ASSUME NEW s, NEW t, NEW u, Keeps(s, t), Keeps(t, u)
  PROVE  Keeps(s, u)
BY DEF Keeps

LEMMA KeepsSelf ==
  ASSUME NEW s, UiTyped(s)
  PROVE  Keeps(s, s)
BY DEF Keeps

LEMMA KeepsTree ==
  ASSUME NEW s, NEW t, Keeps(s, t)
  PROVE  /\ TreeOK(s) => TreeOK(t)
         /\ Rooted(s) <=> Rooted(t)
BY DEF Keeps, TreeOK, Linked, Rooted, IsContainer

LEMMA TreeFollows ==
  ASSUME NEW s, NEW t, t.tree.rows = s.tree.rows, DOMAIN t.tree = DOMAIN s.tree,
         t.treeDirty \/ (~s.treeDirty /\ Branches(t) = Branches(s)),
         TreeShown(s)
  PROVE  TreeShown(t)
BY DEF TreeShown, TreeRows

LEMMA SameBranches ==
  ASSUME NEW s, NEW t, t.ver = s.ver, t.kids = s.kids
  PROVE  Branches(t) = Branches(s) /\ TreeRows(t) = TreeRows(s)
BY DEF Branches, Containers, IsContainer, TreeRows

\* A step that touches neither the structure nor the tree.
LEMMA TreeBeside ==
  ASSUME NEW s, NEW t, t.ver = s.ver, t.kids = s.kids, t.tree = s.tree,
         t.treeDirty = s.treeDirty \/ t.treeDirty, TreeShown(s)
  PROVE  TreeShown(t)
BY SameBranches DEF TreeShown

LEMMA PlaceFacts == /\ NoDN \in Place /\ DNs \subseteq Place /\ NoForm \in Forms
                    /\ NoTarget \in Targets /\ NoHits.dns = {}
                    /\ \A d \in DNs, k \in {"leaf", "branch", "vanished"} : Target(k, d) \in Targets
BY DEF Place, Forms, Targets, NoHits, Target

LEMMA RereadKeeps ==
  ASSUME NEW s, UiTyped(s), NEW d \in DNs
  PROVE  Keeps(s, Reread(s, d))
<1> DEFINE t == Reread(s, d)
           x == [what |-> "read", dn |-> d]
<1>1. DOMAIN s = UiParts /\ IsQueue(s.sent) /\ \A y \in ToSet(s.sent) : JobTyped(y)
  BY DEF UiTyped, Shape
<1>2. /\ DOMAIN t = UiParts /\ t.sent = Append(s.sent, x) /\ t.leaf = d
      /\ t.ver = s.ver /\ t.kids = s.kids /\ t.branch = s.branch /\ t.nav = s.nav
      /\ t.wantLeaf = s.wantLeaf /\ t.wantBranch = s.wantBranch /\ t.form = s.form
      /\ t.guard = s.guard /\ t.hits = s.hits /\ t.tree = s.tree /\ t.treeDirty = s.treeDirty
  BY <1>1 DEF Reread, UiParts
<1>3. JobTyped(x)
  BY DEF JobTyped
<1> HIDE DEF t, x
<1>4. IsQueue(t.sent) /\ ToSet(t.sent) = ToSet(s.sent) \cup {x}
  BY <1>1, <1>2, QueueAppend
<1>5. UiTyped(t)
  BY <1>1, <1>2, <1>3, <1>4, PlaceFacts DEF UiTyped, Shape
<1>6. TreeShown(s) => TreeShown(t)
  BY <1>2, TreeBeside
<1>7. QED
  BY <1>2, <1>5, <1>6 DEF Keeps, t

\* A step that changes nothing of the structure, the tree or what was sent.
LEMMA PlainKeeps ==
  ASSUME NEW s, UiTyped(s), NEW t, DOMAIN t = UiParts,
         t.ver = s.ver, t.kids = s.kids, t.tree = s.tree,
         t.treeDirty = s.treeDirty \/ t.treeDirty, t.sent = s.sent,
         t.branch \in DNs, t.leaf \in Place, t.nav \in Place,
         t.wantLeaf \in Place, t.wantBranch \in Place,
         t.form \in Forms, t.guard \in Targets, t.hits.dns \subseteq DNs
  PROVE  Keeps(s, t)
<1>1. UiTyped(t)
  BY DEF UiTyped, Shape
<1>2. TreeShown(s) => TreeShown(t)
  BY TreeBeside
<1>3. QED
  BY <1>1, <1>2 DEF Keeps

LEMMA CommitKeeps ==
  ASSUME NEW s, UiTyped(s), NEW d \in DNs
  PROVE  Keeps(s, CommitBranch(s, d))
<1> DEFINE t == CommitBranch(s, d)
<1>1. /\ DOMAIN t = UiParts /\ t.sent = s.sent /\ t.leaf = s.leaf
      /\ t.ver = s.ver /\ t.kids = s.kids /\ t.branch = d /\ t.nav = s.nav
      /\ t.wantLeaf = s.wantLeaf /\ t.wantBranch = s.wantBranch /\ t.form = s.form
      /\ t.guard = s.guard /\ t.hits = NoHits /\ t.tree = s.tree /\ t.treeDirty = s.treeDirty
  BY DEF CommitBranch, UiTyped, Shape, UiParts
<1> HIDE DEF t
<1>2. Keeps(s, t)
  BY <1>1, PlainKeeps, PlaceFacts DEF UiTyped
<1>3. QED
  BY <1>2 DEF t

LEMMA SelectionKeeps ==
  ASSUME NEW s, UiTyped(s)
  PROVE  Keeps(s, ReconcileSelection(s))
<1> DEFINE c == [s EXCEPT !.wantLeaf = NoDN]
           g == [c EXCEPT !.guard = Target("leaf", s.wantLeaf), !.post = TRUE]
<1>1. ReconcileSelection(s) \in {c} \cup IF s.wantLeaf = NoDN THEN {} ELSE {g, Reread(c, s.wantLeaf)}
  BY DEF ReconcileSelection
<1>2. s.wantLeaf # NoDN => s.wantLeaf \in DNs
  BY DEF UiTyped, Place
<1>3. /\ DOMAIN c = UiParts /\ c.sent = s.sent /\ c.leaf = s.leaf
      /\ c.ver = s.ver /\ c.kids = s.kids /\ c.branch = s.branch /\ c.nav = s.nav
      /\ c.wantLeaf = NoDN /\ c.wantBranch = s.wantBranch /\ c.form = s.form
      /\ c.guard = s.guard /\ c.hits = s.hits /\ c.tree = s.tree /\ c.treeDirty = s.treeDirty
  BY DEF UiTyped, Shape, UiParts
<1>4. /\ DOMAIN g = UiParts /\ g.sent = s.sent /\ g.leaf = s.leaf
      /\ g.ver = s.ver /\ g.kids = s.kids /\ g.branch = s.branch /\ g.nav = s.nav
      /\ g.wantLeaf = NoDN /\ g.wantBranch = s.wantBranch /\ g.form = s.form
      /\ g.guard = Target("leaf", s.wantLeaf)
      /\ g.hits = s.hits /\ g.tree = s.tree /\ g.treeDirty = s.treeDirty
  BY DEF UiTyped, Shape, UiParts
<1> HIDE DEF c, g
<1>5. Keeps(s, c)
  BY <1>3, PlainKeeps, PlaceFacts DEF UiTyped
<1>6. s.wantLeaf # NoDN => Keeps(s, g)
  BY <1>2, <1>4, PlainKeeps, PlaceFacts DEF UiTyped
<1>7. s.wantLeaf # NoDN => Keeps(s, Reread(c, s.wantLeaf))
  BY <1>2, <1>5, RereadKeeps, KeepsOn DEF Keeps
<1>8. QED
  BY <1>1, <1>5, <1>6, <1>7

LEMMA BranchKeeps ==
  ASSUME NEW s, UiTyped(s)
  PROVE  Keeps(s, ReconcileBranch(s))
<1> DEFINE c == [s EXCEPT !.wantBranch = NoDN]
           g == [c EXCEPT !.guard = Target("branch", s.wantBranch), !.post = TRUE]
<1>1. ReconcileBranch(s) \in {c} \cup IF s.wantBranch = NoDN THEN {} ELSE {g, CommitBranch(c, s.wantBranch)}
  BY DEF ReconcileBranch
<1>2. s.wantBranch # NoDN => s.wantBranch \in DNs
  BY DEF UiTyped, Place
<1>3. /\ DOMAIN c = UiParts /\ c.sent = s.sent /\ c.leaf = s.leaf
      /\ c.ver = s.ver /\ c.kids = s.kids /\ c.branch = s.branch /\ c.nav = s.nav
      /\ c.wantLeaf = s.wantLeaf /\ c.wantBranch = NoDN /\ c.form = s.form
      /\ c.guard = s.guard /\ c.hits = s.hits /\ c.tree = s.tree /\ c.treeDirty = s.treeDirty
  BY DEF UiTyped, Shape, UiParts
<1>4. /\ DOMAIN g = UiParts /\ g.sent = s.sent /\ g.leaf = s.leaf
      /\ g.ver = s.ver /\ g.kids = s.kids /\ g.branch = s.branch /\ g.nav = s.nav
      /\ g.wantLeaf = s.wantLeaf /\ g.wantBranch = NoDN /\ g.form = s.form
      /\ g.guard = Target("branch", s.wantBranch)
      /\ g.hits = s.hits /\ g.tree = s.tree /\ g.treeDirty = s.treeDirty
  BY DEF UiTyped, Shape, UiParts
<1> HIDE DEF c, g
<1>5. Keeps(s, c)
  BY <1>3, PlainKeeps, PlaceFacts DEF UiTyped
<1>6. s.wantBranch # NoDN => Keeps(s, g)
  BY <1>2, <1>4, PlainKeeps, PlaceFacts DEF UiTyped
<1>7. s.wantBranch # NoDN => Keeps(s, CommitBranch(c, s.wantBranch))
  BY <1>2, <1>5, CommitKeeps, KeepsOn DEF Keeps
<1>8. QED
  BY <1>1, <1>5, <1>6, <1>7

\* The tree is rebuilt from what there is.
LEMMA RefreshTreeKeeps ==
  ASSUME NEW s, UiTyped(s)
  PROVE  Keeps(s, RefreshTree(s))
<1> DEFINE t == RebuildTree(s)
<1>1. /\ DOMAIN t = UiParts /\ t.sent = s.sent /\ t.leaf = s.leaf
      /\ t.ver = s.ver /\ t.kids = s.kids /\ t.branch = s.branch /\ t.nav = s.nav
      /\ t.wantLeaf = s.wantLeaf /\ t.wantBranch = s.wantBranch /\ t.form = s.form
      /\ t.guard = s.guard /\ t.hits = s.hits
      /\ t.tree.rows = TreeRows(s) /\ DOMAIN t.tree = {"rows", "row"}
  BY DEF RebuildTree, UiTyped, Shape, UiParts
<1> HIDE DEF t
<1>2. UiTyped(t)
  BY <1>1 DEF UiTyped, Shape
<1>3. TreeShown(t)
  BY <1>1, SameBranches DEF TreeShown
<1>4. Keeps(s, t)
  BY <1>1, <1>2, <1>3 DEF Keeps
<1>5. QED
  BY <1>4, KeepsSelf DEF RefreshTree, t

(***************************************************************************)
(* The rows of the list are entries.                                       *)
(***************************************************************************)
LEMMA RowsTyped ==
  ASSUME NEW s, UiTyped(s)
  PROVE  /\ RowDns(LeafRows(s)) \in Seq(DNs)
         /\ DOMAIN RowDns(LeafRows(s)) = DOMAIN LeafRows(s)
         /\ \A i \in DOMAIN LeafRows(s) : LeafRows(s)[i].dn = RowDns(LeafRows(s))[i]
<1> DEFINE l     == Listed(s)
           shown == {d \in DNs : l.query = Empty \/ <<d, l.ver[d]>> \in Matches[l.query]}
           known == {d \in DNs : l.ver[d] # 0}
           self  == IF l.branch \in shown \cap known THEN <<l.branch>> ELSE <<>>
           a     == Kept(Order, l.hits.dns \cap known)
           b     == Kept(l.kids[l.branch], shown)
           below == IF l.query # Empty /\ l.hits # NoHits THEN a ELSE b
           rows  == self \o below
<1>1. /\ l.branch \in DNs /\ l.kids[l.branch] \in Seq(DNs)
      /\ LeafRows(s) = [i \in DOMAIN rows |-> Row(l, rows[i])]
  BY DEF Listed, UiTyped, LeafRows, RowsOf
<1>2. Order \in Seq(DNs)
  BY NavigationAssumption
<1>3. self \in Seq(DNs)
  BY <1>1
<1> HIDE DEF shown, known, self, l
<1>4. a \in Seq(DNs \cap (l.hits.dns \cap known)) /\ b \in Seq(DNs \cap shown)
  BY <1>1, <1>2, KeptFacts
<1> HIDE DEF a, b
<1>5. below \in Seq(DNs)
  BY <1>4
<1> HIDE DEF below
<1>6. rows \in Seq(DNs) /\ DOMAIN rows = 1..Len(rows) /\ Len(rows) \in Nat
      /\ \A i \in DOMAIN rows : rows[i] \in DNs
  BY <1>3, <1>5
<1> HIDE DEF rows
<1>7. DOMAIN LeafRows(s) = DOMAIN rows /\ \A i \in DOMAIN rows : LeafRows(s)[i].dn = rows[i]
  BY <1>1 DEF Row
<1>8. RowDns(LeafRows(s)) = [i \in 1..Len(rows) |-> rows[i]]
  BY <1>6, <1>7 DEF RowDns
<1>9. QED
  BY <1>6, <1>7, <1>8

LEMMA PlanTyped ==
  ASSUME NEW s, UiTyped(s)
  PROVE  LeafHighlightPlan(s).move = "follow" => LeafHighlightPlan(s).dn \in DNs
<1> DEFINE dns   == RowDns(LeafRows(s))
           other == Kept(dns, DNs \ {s.branch})
<1>1. dns \in Seq(DNs)
  BY RowsTyped
<1> HIDE DEF dns
<1>2. other \in Seq(DNs \cap (DNs \ {s.branch}))
  BY <1>1, KeptFacts
<1>3. other # <<>> => other[1] \in DNs
  BY <1>2
<1> HIDE DEF other
<1>4. LeafHighlightPlan(s) =
        IF s.leaf # NoDN /\ s.leaf \in ToSet(dns) THEN [move |-> "pin", dn |-> s.leaf]
        ELSE IF other = <<>> THEN [move |-> "clear", dn |-> NoDN]
        ELSE [move |-> IF Dirty(s) \/ (s.leaf = NoDN /\ s.form # NoForm)
                       THEN "pin" ELSE "follow", dn |-> other[1]]
  BY DEF LeafHighlightPlan, dns, other
<1>5. QED
  BY <1>3, <1>4

LEMMA RepopulateKeeps ==
  ASSUME NEW s, UiTyped(s)
  PROVE  Keeps(s, Repopulate(s)) /\ Keeps(s, RefreshList(s))
<1> DEFINE t == Repopulate(s)
           p == LeafHighlightPlan(s)
<1>1. p.move = "follow" => p.dn \in DNs
  BY PlanTyped
<1> HIDE DEF p
<1>2. /\ DOMAIN t = UiParts /\ t.sent = s.sent /\ t.leaf = s.leaf
      /\ t.ver = s.ver /\ t.kids = s.kids /\ t.branch = s.branch /\ t.nav = s.nav
      /\ t.wantLeaf = (IF p.move = "follow" THEN p.dn ELSE s.wantLeaf)
      /\ t.wantBranch = s.wantBranch /\ t.form = s.form
      /\ t.guard = s.guard /\ t.hits = s.hits /\ t.tree = s.tree /\ t.treeDirty = s.treeDirty
  BY DEF Repopulate, UiTyped, Shape, UiParts, p
<1> HIDE DEF t
<1>3. Keeps(s, t)
  BY <1>1, <1>2, PlainKeeps, PlaceFacts DEF UiTyped
<1>4. QED
  BY <1>3, KeepsSelf DEF RefreshList, t

(***************************************************************************)
(* What an answer does to the structure.                                   *)
(***************************************************************************)
Carries(s, t) == UiTyped(t) /\ (Rooted(s) /\ TreeOK(s) => TreeOK(t))

LEMMA KeepsCarries ==
  ASSUME NEW s, NEW t, Keeps(s, t)
  PROVE  Carries(s, t)
BY KeepsTree DEF Carries, Keeps

LEMMA CarriesOn ==
  ASSUME NEW s, NEW t, NEW u, Carries(s, t), Keeps(t, u)
  PROVE  Carries(s, u)
BY KeepsTree DEF Carries, Keeps

\* The tree is made from no more than the containers.
LEMMA BranchesSame ==
  ASSUME NEW s, NEW t, UiTyped(s), UiTyped(t), Rooted(s),
         \A k \in DNs : IsContainer(t, k) <=> IsContainer(s, k),
         \A k \in DNs : IsContainer(s, k) => t.ver[k] = s.ver[k],
         \A k \in DNs : Kept(t.kids[k], {c \in DNs : IsContainer(s, c)})
                        = Kept(s.kids[k], {c \in DNs : IsContainer(s, c)})
  PROVE  Branches(t) = Branches(s)
<1> DEFINE C == {c \in DNs : IsContainer(s, c)}
<1>1. {c \in DNs : IsContainer(t, c)} = C
  OBVIOUS
<1>2. Containers(s) = C /\ Containers(t) = C
  BY DEF Containers, Rooted
<1>3. [d \in Containers(t) |-> t.ver[d]] = [d \in Containers(s) |-> s.ver[d]]
  BY <1>2
<1>4. [d \in DNs |-> Kept(t.kids[d], {k \in DNs : IsContainer(t, k)})]
      = [d \in DNs |-> Kept(s.kids[d], C)]
  BY <1>1
<1>5. QED
  BY <1>3, <1>4 DEF Branches

LEMMA UpsertCarries ==
  ASSUME NEW s, UiTyped(s), NEW d \in DNs, NEW v \in Versions \ {0}
  PROVE  Carries(s, Upsert(s, d, v)) /\ Upsert(s, d, v).form = s.form
<1> DEFINE p      == Parent[d]
           linked == d # Base /\ s.ver[p] # 0
           new    == linked /\ d \notin ToSet(s.kids[p])
           K      == IF new THEN [s.kids EXCEPT ![p] = Append(@, d)] ELSE s.kids
           grown  == linked /\ s.kids[p] = <<>> /\ K[p] # <<>>
           t      == Upsert(s, d, v)
<1>1. /\ DOMAIN t = UiParts /\ t.sent = s.sent /\ t.leaf = s.leaf
      /\ t.ver = [s.ver EXCEPT ![d] = v] /\ t.kids = K /\ t.branch = s.branch /\ t.nav = s.nav
      /\ t.wantLeaf = s.wantLeaf /\ t.wantBranch = s.wantBranch /\ t.form = s.form
      /\ t.guard = s.guard /\ t.hits = s.hits /\ t.tree = s.tree
      /\ t.treeDirty = (s.treeDirty \/ grown \/ (IsContainer(s, d) /\ s.ver[d] # v))
  BY DEF Upsert, UiTyped, Shape, UiParts
<1> HIDE DEF t
<1>2. /\ s.kids \in [DNs -> Seq(DNs)] /\ s.ver \in [DNs -> Versions]
      /\ d # Base => p \in DNs /\ p # d
  BY NavigationAssumption DEF UiTyped
<1> HIDE DEF p
<1>3. new => /\ K = [s.kids EXCEPT ![p] = Append(s.kids[p], d)] /\ p \in DNs
             /\ Append(s.kids[p], d) \in Seq(DNs)
             /\ ToSet(Append(s.kids[p], d)) = ToSet(s.kids[p]) \cup {d}
  <2>1. new => p \in DNs /\ s.kids[p] \in Seq(DNs)
    BY <1>2
  <2>2. QED
    BY <2>1, AppendSet
<1>4. K \in [DNs -> Seq(DNs)] /\ (~new => K = s.kids)
  BY <1>2, <1>3
<1>5. \A k \in DNs : K[k] = IF new /\ k = p THEN Append(s.kids[p], d) ELSE s.kids[k]
  BY <1>2, <1>3, <1>4
<1>6. UiTyped(t)
  <2>1. t.ver \in [DNs -> Versions]
    BY <1>1, <1>2
  <2>2. QED
    BY <1>1, <1>4, <2>1 DEF UiTyped, Shape
<1> HIDE DEF K, new
<1>7. ASSUME Rooted(s), Linked(s) PROVE Linked(t)
  <2> SUFFICES ASSUME NEW e \in DNs \ {Base}, t.ver[e] # 0, t.ver[Parent[e]] # 0
               PROVE  e \in ToSet(t.kids[Parent[e]])
    BY DEF Linked
  <2>1. Parent[e] \in DNs
    BY NavigationAssumption
  <2>2. CASE e = d
    <3>1. linked /\ Parent[e] = p
      BY <1>1, <1>2, <2>2 DEF p
    <3>2. CASE new
      BY <1>1, <1>3, <1>5, <2>1, <2>2, <3>1, <3>2
    <3>3. CASE ~new
      BY <1>1, <1>4, <2>2, <3>1, <3>3 DEF new
    <3>4. QED
      BY <3>2, <3>3
  <2>3. CASE e # d
    <3>1. s.ver[e] # 0
      BY <1>1, <1>2, <2>3
    <3>2. e \in ToSet(s.kids[Parent[e]])
      BY <1>7, <3>1 DEF Rooted, Linked
    <3>3. QED
      BY <1>1, <1>3, <1>5, <2>1, <3>2
  <2>4. QED
    BY <2>2, <2>3
<1>8. ASSUME Rooted(s), Linked(s), TreeShown(s) PROVE TreeShown(t)
  <2>1. CASE t.treeDirty
    BY <1>1, <1>8, <2>1 DEF TreeShown
  <2>2. CASE ~t.treeDirty
    <3>1. ~s.treeDirty /\ ~grown /\ (IsContainer(s, d) => s.ver[d] = v)
      BY <1>1, <2>2
    <3>2. new => s.kids[p] # <<>> /\ Append(s.kids[p], d) # <<>>
      <4>1. new => linked
        BY DEF new
      <4>2. new => Append(s.kids[p], d) # <<>>
        BY <1>3, QueueEmpty
      <4>3. QED
        BY <1>3, <1>5, <3>1, <4>1, <4>2
    <3>3. new => ~IsContainer(s, d)
      <4>1. new => s.ver[d] = 0
        BY <1>8 DEF Linked, new, p
      <4>2. QED
        BY <3>1, <4>1
    <3>4. \A k \in DNs : IsContainer(t, k) <=> IsContainer(s, k)
      BY <1>1, <1>5, <3>2 DEF IsContainer
    <3>5. \A k \in DNs : IsContainer(s, k) => t.ver[k] = s.ver[k]
      BY <1>1, <1>2, <3>1
    <3> DEFINE C == {c \in DNs : IsContainer(s, c)}
    <3>6. new => d \notin C
      BY <3>3
    <3> HIDE DEF C
    <3>7. ASSUME NEW k \in DNs PROVE Kept(t.kids[k], C) = Kept(s.kids[k], C)
      <4>1. CASE new /\ k = p
        <5>1. s.kids[p] \in Seq(DNs) /\ d \notin C /\ t.kids[k] = Append(s.kids[p], d)
          BY <1>1, <1>2, <1>3, <1>5, <3>6, <4>1
        <5>2. Kept(Append(s.kids[p], d), C) = Kept(s.kids[p], C)
          BY <5>1, KeptAppend
        <5>3. QED
          BY <4>1, <5>1, <5>2
      <4>2. CASE ~(new /\ k = p)
        BY <1>1, <1>5, <4>2
      <4>3. QED
        BY <4>1, <4>2
    <3>8. \A k \in DNs : Kept(t.kids[k], {c \in DNs : IsContainer(s, c)})
                         = Kept(s.kids[k], {c \in DNs : IsContainer(s, c)})
      BY <3>7 DEF C
    <3>9. Branches(t) = Branches(s)
      BY <1>6, <1>8, <3>4, <3>5, <3>8, BranchesSame
    <3>10. QED
      BY <1>1, <1>8, <3>1, <3>9, TreeFollows
  <2>3. QED
    BY <2>1, <2>2
<1>9. QED
  BY <1>1, <1>6, <1>7, <1>8 DEF Carries, TreeOK, t

LEMMA HitsCarry ==
  ASSUME NEW s, UiTyped(s), NEW r, AnswerTyped(r), r.what = "find",
         \A d \in r.hits : Parent[d] = r.ask.branch
  PROVE  Carries(s, UpsertHits(s, r))
<1> DEFINE b   == r.ask.branch
           H   == r.hits
           more == H \ ToSet(s.kids[b])
           new == IF s.ver[b] = 0 THEN <<>> ELSE Kept(Order, more)
           t   == UpsertHits(s, r)
           V   == [d \in DNs |-> IF d \in H THEN r.vers[d] ELSE s.ver[d]]
           K   == [s.kids EXCEPT ![b] = @ \o new]
<1>1. /\ DOMAIN t = UiParts /\ t.sent = s.sent /\ t.leaf = s.leaf
      /\ t.ver = V /\ t.kids = K /\ t.branch = s.branch /\ t.nav = s.nav
      /\ t.wantLeaf = s.wantLeaf /\ t.wantBranch = s.wantBranch /\ t.form = s.form
      /\ t.guard = s.guard /\ t.hits = s.hits /\ t.tree = s.tree
      /\ t.treeDirty = (\/ s.treeDirty
                        \/ s.kids[b] = <<>> /\ new # <<>>
                        \/ \E d \in H : IsContainer(s, d) /\ s.ver[d] # r.vers[d])
  BY DEF UpsertHits, UiTyped, Shape, UiParts
<1> HIDE DEF t
<1>2. /\ s.kids \in [DNs -> Seq(DNs)] /\ s.ver \in [DNs -> Versions]
      /\ b \in DNs /\ H \subseteq DNs \ {Base} /\ \A d \in H : r.vers[d] \in Versions \ {0}
      /\ \A d \in H : Parent[d] = b /\ d # b
  BY NavigationAssumption DEF UiTyped, AnswerTyped
<1>3. Order \in Seq(DNs) /\ ToSet(Order) = DNs
  BY NavigationAssumption
<1> HIDE DEF b, H
<1>4. /\ s.kids[b] \in Seq(DNs) /\ more \subseteq H /\ more \cap ToSet(s.kids[b]) = {}
      /\ \A d \in H : d \in ToSet(s.kids[b]) \/ d \in more
  BY <1>2
<1> HIDE DEF more
<1>5. Kept(Order, more) \in Seq(DNs \cap more) /\ ToSet(Kept(Order, more)) = DNs \cap more
  BY <1>3, KeptFacts
<1>6. /\ new \in Seq(DNs) /\ ToSet(new) \subseteq more
      /\ s.ver[b] # 0 => ToSet(new) = more
  <2>1. <<>> \in Seq(DNs) /\ ToSet(<<>>) = {}
    BY QueueEmpty
  <2>2. DNs \cap more = more
    BY <1>2, <1>4
  <2>3. more \subseteq DNs
    BY <1>2, <1>4
  <2>4. CASE s.ver[b] = 0
    BY <2>1, <2>4
  <2>5. CASE s.ver[b] # 0
    <3>1. new = Kept(Order, more)
      BY <2>5
    <3>2. Kept(Order, more) \in Seq(DNs)
      BY <1>5, <2>3
    <3>3. QED
      BY <1>5, <2>2, <3>1, <3>2
  <2>6. QED
    BY <2>4, <2>5
<1>14. s.ver[b] = 0 => new = <<>>
  OBVIOUS
<1> HIDE DEF new
<1>7. s.kids[b] \o new \in Seq(DNs) /\ ToSet(s.kids[b] \o new) = ToSet(s.kids[b]) \cup ToSet(new)
  BY <1>4, <1>6, ConcatSet
<1>8. /\ K \in [DNs -> Seq(DNs)] /\ V \in [DNs -> Versions]
      /\ \A k \in DNs : K[k] = IF k = b THEN s.kids[b] \o new ELSE s.kids[k]
      /\ \A d \in DNs : V[d] = IF d \in H THEN r.vers[d] ELSE s.ver[d]
  BY <1>2, <1>7
<1> HIDE DEF K, V
<1>9. UiTyped(t)
  BY <1>1, <1>8 DEF UiTyped, Shape
<1>10. ASSUME Rooted(s), Linked(s) PROVE Linked(t)
  <2> SUFFICES ASSUME NEW e \in DNs \ {Base}, t.ver[e] # 0, t.ver[Parent[e]] # 0
               PROVE  e \in ToSet(t.kids[Parent[e]])
    BY DEF Linked
  <2>1. Parent[e] \in DNs
    BY NavigationAssumption
  <2>2. CASE e \in H
    <3>1. Parent[e] = b /\ b \notin H /\ s.ver[b] # 0
      BY <1>1, <1>2, <1>8, <2>2
    <3>2. t.kids[b] = s.kids[b] \o new
      BY <1>1, <1>2, <1>8
    <3>3. QED
      BY <1>4, <1>6, <1>7, <2>2, <3>1, <3>2
  <2>3. CASE e \notin H
    <3>1. s.ver[e] # 0
      BY <1>1, <1>8, <2>3
    <3>2. e \in ToSet(s.kids[Parent[e]])
      BY <1>10, <3>1 DEF Rooted, Linked
    <3>3. QED
      BY <1>1, <1>7, <1>8, <2>1, <3>2
  <2>4. QED
    BY <2>2, <2>3
<1>11. ASSUME Rooted(s), Linked(s), TreeShown(s) PROVE TreeShown(t)
  <2>1. CASE t.treeDirty
    BY <1>1, <1>11, <2>1 DEF TreeShown
  <2>2. CASE ~t.treeDirty
    <3>1. /\ ~s.treeDirty /\ (s.kids[b] = <<>> => new = <<>>)
          /\ \A d \in H : IsContainer(s, d) => s.ver[d] = r.vers[d]
      BY <1>1, <2>2
    <3>2. s.kids[b] \o new = <<>> <=> s.kids[b] = <<>>
      BY <1>4, <1>6, <3>1
    <3>3. \A k \in DNs : IsContainer(t, k) <=> IsContainer(s, k)
      BY <1>1, <1>8, <3>2 DEF IsContainer
    <3>4. \A k \in DNs : IsContainer(s, k) => t.ver[k] = s.ver[k]
      BY <1>1, <1>8, <3>1
    <3> DEFINE C == {c \in DNs : IsContainer(s, c)}
    <3>5. ToSet(new) \cap C = {}
      <4> SUFFICES ASSUME NEW d \in ToSet(new), d \in C PROVE FALSE
        OBVIOUS
      <4>1. d \in H /\ d \notin ToSet(s.kids[b]) /\ s.ver[b] # 0
        BY <1>4, <1>6, <1>14, QueueEmpty
      <4>2. s.ver[d] = 0
        BY <1>2, <1>11, <4>1 DEF Linked
      <4>3. r.vers[d] # 0
        BY <1>2, <4>1
      <4>4. QED
        BY <3>1, <4>1, <4>2, <4>3
    <3> HIDE DEF C
    <3>6. ASSUME NEW k \in DNs PROVE Kept(t.kids[k], C) = Kept(s.kids[k], C)
      <4>1. Kept(s.kids[b] \o new, C) = Kept(s.kids[b], C)
        BY <1>4, <1>6, <3>5, KeptConcat
      <4>2. QED
        BY <1>1, <1>8, <4>1
    <3>7. \A k \in DNs : Kept(t.kids[k], {c \in DNs : IsContainer(s, c)})
                         = Kept(s.kids[k], {c \in DNs : IsContainer(s, c)})
      BY <3>6 DEF C
    <3>8. Branches(t) = Branches(s)
      BY <1>9, <1>11, <3>3, <3>4, <3>7, BranchesSame
    <3>9. QED
      BY <1>1, <1>11, <3>1, <3>8, TreeFollows
  <2>3. QED
    BY <2>1, <2>2
<1>12. QED
  BY <1>9, <1>10, <1>11 DEF Carries, TreeOK, t

LEMMA ReadCarries ==
  ASSUME NEW s, UiTyped(s), NEW r, AnswerTyped(r), r.what = "read"
  PROVE  Carries(s, OnRead(s, r))
<1>1. CASE ~r.ok
  BY <1>1, KeepsSelf, KeepsCarries DEF OnRead
<1>2. CASE r.ok
  <2> DEFINE u == Upsert(s, r.dn, r.ver)
             f == [entry |-> r.dn, dirty |-> FALSE]
             t == [u EXCEPT !.form = f]
  <2>1. r.dn \in DNs /\ r.ver \in Versions \ {0} /\ OnRead(s, r) = t
    BY <1>2 DEF AnswerTyped, OnRead
  <2>2. Carries(s, u)
    BY <2>1, UpsertCarries
  <2>3. f \in Forms
    BY <2>1 DEF Forms
  <2> HIDE DEF u, f
  <2>4. UiTyped(u) /\ DOMAIN u = UiParts
    BY <2>2 DEF Carries, UiTyped, Shape
  <2>5. /\ DOMAIN t = UiParts /\ t.sent = u.sent /\ t.leaf = u.leaf
        /\ t.ver = u.ver /\ t.kids = u.kids /\ t.branch = u.branch /\ t.nav = u.nav
        /\ t.wantLeaf = u.wantLeaf /\ t.wantBranch = u.wantBranch /\ t.form = f
        /\ t.guard = u.guard /\ t.hits = u.hits /\ t.tree = u.tree /\ t.treeDirty = u.treeDirty
    BY <2>4 DEF UiParts
  <2> HIDE DEF t
  <2>6. Keeps(u, t)
    BY <2>3, <2>4, <2>5, PlainKeeps DEF UiTyped
  <2>7. QED
    BY <2>1, <2>2, <2>6, CarriesOn
<1>3. QED
  BY <1>1, <1>2

LEMMA FindCarries ==
  ASSUME NEW s, UiTyped(s), NEW r, AnswerTyped(r), r.what = "find",
         \A d \in r.hits : Parent[d] = r.ask.branch
  PROVE  Carries(s, OnFind(s, r))
<1> DEFINE u == UpsertHits(s, r)
           h == [dns |-> r.hits, branch |-> r.ask.branch, term |-> r.ask.term]
           t == [u EXCEPT !.hits = h, !.listDirty = TRUE]
           e == [s EXCEPT !.hits = NoHits, !.listDirty = TRUE]
<1>1. OnFind(s, r) \in {s, t, e}
  BY DEF OnFind
<1>2. Carries(s, u)
  BY HitsCarry
<1>3. h.dns \subseteq DNs
  BY DEF AnswerTyped
<1> HIDE DEF u, h
<1>4. UiTyped(u) /\ DOMAIN u = UiParts /\ DOMAIN s = UiParts
  BY <1>2 DEF Carries, UiTyped, Shape
<1>5. /\ DOMAIN t = UiParts /\ t.sent = u.sent /\ t.leaf = u.leaf
      /\ t.ver = u.ver /\ t.kids = u.kids /\ t.branch = u.branch /\ t.nav = u.nav
      /\ t.wantLeaf = u.wantLeaf /\ t.wantBranch = u.wantBranch /\ t.form = u.form
      /\ t.guard = u.guard /\ t.hits = h /\ t.tree = u.tree /\ t.treeDirty = u.treeDirty
  BY <1>4 DEF UiParts
<1>6. /\ DOMAIN e = UiParts /\ e.sent = s.sent /\ e.leaf = s.leaf
      /\ e.ver = s.ver /\ e.kids = s.kids /\ e.branch = s.branch /\ e.nav = s.nav
      /\ e.wantLeaf = s.wantLeaf /\ e.wantBranch = s.wantBranch /\ e.form = s.form
      /\ e.guard = s.guard /\ e.hits = NoHits /\ e.tree = s.tree /\ e.treeDirty = s.treeDirty
  BY <1>4 DEF UiParts
<1> HIDE DEF t, e
<1>7. Keeps(u, t)
  BY <1>3, <1>4, <1>5, PlainKeeps DEF UiTyped
<1>8. Keeps(s, e)
  BY <1>6, PlainKeeps, PlaceFacts DEF UiTyped
<1>9. QED
  BY <1>1, <1>2, <1>7, <1>8, KeepsSelf, KeepsCarries, CarriesOn

LEMMA SavedKeeps ==
  ASSUME NEW s, UiTyped(s), NEW r, AnswerTyped(r), r.what \in {"save", "create"}
  PROVE  Keeps(s, OnSaved(s, r)) /\ Keeps(s, OnCreated(s, r))
<1> DEFINE n == [s EXCEPT !.nav = NoDN]
           f == [s EXCEPT !.form = NoForm]
           d == IF s.nav # NoDN THEN s.nav ELSE r.dn
<1>1. r.dn \in DNs /\ d \in DNs /\ DOMAIN s = UiParts
  BY DEF AnswerTyped, UiTyped, Shape, Place
<1>2. OnSaved(s, r) \in {s, Reread(n, d)} /\ OnCreated(s, r) \in {s, Reread(f, r.dn)}
  BY DEF OnSaved, OnCreated
<1> HIDE DEF d
<1>3. /\ DOMAIN n = UiParts /\ n.sent = s.sent /\ n.leaf = s.leaf
      /\ n.ver = s.ver /\ n.kids = s.kids /\ n.branch = s.branch /\ n.nav = NoDN
      /\ n.wantLeaf = s.wantLeaf /\ n.wantBranch = s.wantBranch /\ n.form = s.form
      /\ n.guard = s.guard /\ n.hits = s.hits /\ n.tree = s.tree /\ n.treeDirty = s.treeDirty
  BY <1>1 DEF UiParts
<1>4. /\ DOMAIN f = UiParts /\ f.sent = s.sent /\ f.leaf = s.leaf
      /\ f.ver = s.ver /\ f.kids = s.kids /\ f.branch = s.branch /\ f.nav = s.nav
      /\ f.wantLeaf = s.wantLeaf /\ f.wantBranch = s.wantBranch /\ f.form = NoForm
      /\ f.guard = s.guard /\ f.hits = s.hits /\ f.tree = s.tree /\ f.treeDirty = s.treeDirty
  BY <1>1 DEF UiParts
<1> HIDE DEF n, f
<1>5. Keeps(s, n)
  BY <1>3, PlainKeeps, PlaceFacts DEF UiTyped
<1>6. Keeps(s, f)
  BY <1>4, PlainKeeps, PlaceFacts DEF UiTyped
<1>7. Keeps(s, Reread(n, d)) /\ Keeps(s, Reread(f, r.dn))
  BY <1>1, <1>5, <1>6, RereadKeeps, KeepsOn DEF Keeps
<1>8. QED
  BY <1>2, <1>7, KeepsSelf

LEMMA PolledCarries ==
  ASSUME NEW s, UiTyped(s), NEW r, AnswerTyped(r),
         r.what = "find" => \A d \in r.hits : Parent[d] = r.ask.branch
  PROVE  Carries(s, Polled(s, r))
<1>1. r.what \in {"read", "save", "create", "find"}
  BY DEF AnswerTyped
<1>2. CASE r.what = "read"
  BY <1>2, ReadCarries DEF Polled
<1>3. CASE r.what = "find"
  BY <1>3, FindCarries DEF Polled
<1>4. CASE r.what \in {"save", "create"}
  BY <1>4, SavedKeeps, KeepsCarries DEF Polled
<1>5. QED
  BY <1>1, <1>2, <1>3, <1>4

\* A rescan puts in what it read, all linked.
LEMMA ChildrenFacts ==
  ASSUME NEW known \in [DNs -> Versions]
  PROVE  /\ ChildrenIn(known) \in [DNs -> Seq(DNs)]
         /\ \A d \in DNs \ {Base} : known[d] # 0 /\ known[Parent[d]] # 0
                                    => d \in ToSet(ChildrenIn(known)[Parent[d]])
<1> DEFINE S(b) == {d \in DNs \ {Base} : Parent[d] = b /\ known[b] # 0 /\ known[d] # 0}
<1>1. Order \in Seq(DNs) /\ ToSet(Order) = DNs /\ \A d \in DNs \ {Base} : Parent[d] \in DNs
  BY NavigationAssumption
<1>2. \A b \in DNs : ChildrenIn(known)[b] = Kept(Order, S(b))
  BY DEF ChildrenIn
<1>3. ASSUME NEW b \in DNs PROVE Kept(Order, S(b)) \in Seq(DNs) /\ ToSet(Kept(Order, S(b))) = DNs \cap S(b)
  <2> DEFINE T == S(b)
  <2> HIDE DEF T
  <2>1. Kept(Order, T) \in Seq(DNs \cap T) /\ ToSet(Kept(Order, T)) = DNs \cap T
    BY <1>1, KeptFacts
  <2>2. QED
    BY <2>1 DEF T
<1>4. ChildrenIn(known) \in [DNs -> Seq(DNs)]
  BY <1>3 DEF ChildrenIn
<1>5. ASSUME NEW d \in DNs \ {Base}, known[d] # 0, known[Parent[d]] # 0
      PROVE  d \in ToSet(ChildrenIn(known)[Parent[d]])
  <2>1. Parent[d] \in DNs /\ d \in S(Parent[d])
    BY <1>1, <1>5
  <2>2. QED
    BY <1>2, <1>3, <2>1
<1>6. QED
  BY <1>4, <1>5

LEMMA AdoptCarries ==
  ASSUME NEW s, UiTyped(s), NEW known \in [DNs -> Versions]
  PROVE  Carries(s, AdoptStructure(s, known))
<1> DEFINE C == ChildrenIn(known)
           n == [s EXCEPT !.ver = known, !.kids = C]
           b == IF known[s.branch] = 0 THEN [n EXCEPT !.branch = Base] ELSE n
           f == IF s.leaf # NoDN /\ known[s.leaf] = 0 THEN NoteEntryVanished(b) ELSE b
           t == [f EXCEPT !.query = Empty, !.hits = NoHits, !.latest = 0,
                          !.listDirty = TRUE, !.treeDirty = TRUE]
<1>1. AdoptStructure(s, known) = t
  BY DEF AdoptStructure
<1>2. /\ C \in [DNs -> Seq(DNs)]
      /\ \A d \in DNs \ {Base} : known[d] # 0 /\ known[Parent[d]] # 0 => d \in ToSet(C[Parent[d]])
  BY ChildrenFacts
<1> HIDE DEF C
<1>3. DOMAIN s = UiParts /\ s.branch \in DNs /\ Base \in DNs /\ (s.leaf # NoDN => s.leaf \in DNs)
  BY NavigationAssumption DEF UiTyped, Shape, Place
<1>4. /\ DOMAIN b = UiParts /\ b.sent = s.sent /\ b.leaf = s.leaf
      /\ b.ver = known /\ b.kids = C /\ b.branch \in DNs /\ b.nav = s.nav
      /\ b.wantLeaf = s.wantLeaf /\ b.wantBranch = s.wantBranch /\ b.form = s.form
      /\ b.guard = s.guard /\ b.hits = s.hits /\ b.tree = s.tree
  BY <1>3 DEF UiParts
<1> HIDE DEF b
<1>5. UiTyped(b)
  BY <1>2, <1>4 DEF UiTyped, Shape
<1> DEFINE w == NoteEntryVanished(b)
<1>6. s.leaf # NoDN => /\ DOMAIN w = UiParts /\ w.sent = b.sent /\ w.leaf \in Place
                       /\ w.ver = b.ver /\ w.kids = b.kids /\ w.branch = b.branch
                       /\ w.nav = b.nav /\ w.wantLeaf = b.wantLeaf /\ w.wantBranch = b.wantBranch
                       /\ w.form \in Forms /\ w.guard \in Targets /\ w.hits = b.hits
                       /\ w.tree = b.tree
  BY <1>3, <1>4, <1>5, PlaceFacts DEF NoteEntryVanished, UiTyped, UiParts
<1> HIDE DEF w
<1>7. /\ DOMAIN f = UiParts /\ f.sent = b.sent /\ f.leaf \in Place
      /\ f.ver = b.ver /\ f.kids = b.kids /\ f.branch = b.branch
      /\ f.nav = b.nav /\ f.wantLeaf = b.wantLeaf /\ f.wantBranch = b.wantBranch
      /\ f.form \in Forms /\ f.guard \in Targets /\ f.hits = b.hits /\ f.tree = b.tree
  BY <1>4, <1>5, <1>6 DEF UiTyped, w
<1> HIDE DEF f
<1>8. /\ DOMAIN t = UiParts /\ t.sent = f.sent /\ t.leaf = f.leaf
      /\ t.ver = f.ver /\ t.kids = f.kids /\ t.branch = f.branch
      /\ t.nav = f.nav /\ t.wantLeaf = f.wantLeaf /\ t.wantBranch = f.wantBranch
      /\ t.form = f.form /\ t.guard = f.guard /\ t.hits = NoHits /\ t.tree = f.tree
      /\ t.treeDirty
  BY <1>7 DEF UiParts
<1> HIDE DEF t
<1>9. UiTyped(t)
  BY <1>5, <1>7, <1>8, PlaceFacts DEF UiTyped, Shape
<1>10. Linked(t)
  BY <1>2, <1>4, <1>7, <1>8 DEF Linked
<1>11. TreeShown(s) => TreeShown(t)
  BY <1>4, <1>7, <1>8 DEF TreeShown
<1>12. QED
  BY <1>1, <1>9, <1>10, <1>11 DEF Carries, TreeOK

LEMMA TypedFindKeeps ==
  ASSUME NEW s, UiTyped(s), NEW q
  PROVE  Keeps(s, SetLeafSearch(s, q))
<1> DEFINE t == SetLeafSearch(s, q)
           j == FindJob(s, q)
<1>1. DOMAIN s = UiParts /\ IsQueue(s.sent) /\ \A x \in ToSet(s.sent) : JobTyped(x)
  BY DEF UiTyped, Shape
<1>2. /\ DOMAIN t = UiParts /\ t.sent \in {s.sent, Append(s.sent, j)} /\ t.leaf = s.leaf
      /\ t.ver = s.ver /\ t.kids = s.kids /\ t.branch = s.branch /\ t.nav = s.nav
      /\ t.wantLeaf = s.wantLeaf /\ t.wantBranch = s.wantBranch /\ t.form = s.form
      /\ t.guard = s.guard /\ t.hits \in {s.hits, NoHits} /\ t.tree = s.tree
      /\ t.treeDirty = s.treeDirty
  BY <1>1 DEF SetLeafSearch, UiParts
<1>3. JobTyped(j)
  BY DEF JobTyped, FindJob, UiTyped
<1> HIDE DEF t, j
<1>4. IsQueue(Append(s.sent, j)) /\ ToSet(Append(s.sent, j)) = ToSet(s.sent) \cup {j}
  BY <1>1, QueueAppend
<1>5. IsQueue(t.sent) /\ \A x \in ToSet(t.sent) : JobTyped(x)
  BY <1>1, <1>2, <1>3, <1>4
<1>6. UiTyped(t)
  BY <1>2, <1>5, PlaceFacts DEF UiTyped, Shape
<1>7. TreeShown(s) => TreeShown(t)
  BY <1>2, TreeBeside
<1>8. QED
  BY <1>2, <1>6, <1>7 DEF Keeps, t

(***************************************************************************)
(* The steps of the specification.  Whatever they do, what is known and    *)
(* asked for are entries; and as long as what is known hangs together, the *)
(* tree stays linked and shown.                                            *)
(***************************************************************************)
Dialogs ==
  [kind : {"none", "guard"}, target : Targets] \cup
  [kind : {"vanished"}, target : [kind : {"vanished"}, dn : DNs]]

NavTyped ==
  /\ dir \in [DNs -> Versions]
  /\ UiTyped(ui)
  /\ \A j \in ToSet(jobs) : JobTyped(j)
  /\ \A r \in ToSet(resps) : AnswerTyped(r)
  /\ dialog # NoDialog => dialog \in Dialogs

TreeRooted == Rooted(ui)
TreeGood   == TreeOK(ui)

Carried == NavTyped' /\ (TreeRooted /\ TreeGood => TreeGood')

LEMMA CarriedOn ==
  ASSUME NavTyped, Carries(ui, ui'), dir' = dir, dialog' \in {dialog, NoDialog},
         ToSet(jobs') \subseteq ToSet(jobs), ToSet(resps') \subseteq ToSet(resps)
  PROVE  Carried
BY DEF NavTyped, Carries, Carried, TreeRooted, TreeGood

LEMMA EndCarries ==
  ASSUME NavInv, NavTyped, NEW s, Carries(ui, s), Step(s), dir' = dir,
         dialog' \in {dialog, NoDialog}, ToSet(resps') \subseteq ToSet(resps)
  PROVE  Carried
<1>1. /\ ui' = [s EXCEPT !.sent = <<>>, !.post = FALSE] /\ jobs' = jobs \o s.sent
      /\ UiTyped(s) /\ IsQueue(jobs) /\ IsQueue(s.sent) /\ DOMAIN s = UiParts
  BY DEF Step, Carries, UiTyped, Shape, NavInv
<1>2. ToSet(jobs') = ToSet(jobs) \cup ToSet(s.sent)
  BY <1>1, QueueConcat
<1>3. /\ DOMAIN ui' = UiParts /\ ui'.sent = <<>> /\ ui'.leaf = s.leaf
      /\ ui'.ver = s.ver /\ ui'.kids = s.kids /\ ui'.branch = s.branch /\ ui'.nav = s.nav
      /\ ui'.wantLeaf = s.wantLeaf /\ ui'.wantBranch = s.wantBranch /\ ui'.form = s.form
      /\ ui'.guard = s.guard /\ ui'.hits = s.hits /\ ui'.tree = s.tree
      /\ ui'.treeDirty = s.treeDirty
  BY <1>1 DEF UiParts
<1>4. UiTyped(ui')
  BY <1>1, <1>3, QueueEmpty DEF UiTyped, Shape
<1>5. TreeOK(s) => TreeOK(ui')
  <2>1. TreeShown(s) => TreeShown(ui')
    BY <1>3, TreeBeside
  <2>2. QED
    BY <1>3, <2>1 DEF TreeOK, Linked
<1>6. \A j \in ToSet(jobs') : JobTyped(j)
  BY <1>1, <1>2 DEF UiTyped, NavTyped
<1>7. NavTyped'
  BY <1>4, <1>6 DEF NavTyped
<1>8. TreeRooted /\ TreeGood => TreeGood'
  BY <1>5 DEF Carries, TreeRooted, TreeGood
<1>9. QED
  BY <1>7, <1>8 DEF Carried

LEMMA RowCarries ==
  ASSUME NavTyped, NEW i, MoveRow(i)
  PROVE  Carried
<1> DEFINE rows == LeafRows(ui)
<1>1. /\ ui' = [ui EXCEPT !.list.row = i,
                          !.wantLeaf = IF i \in DOMAIN rows THEN rows[i].dn ELSE @]
      /\ UNCHANGED <<dir, jobs, resps, dialog>>
  BY DEF MoveRow
<1>2. UiTyped(ui)
  BY DEF NavTyped
<1>3. i \in DOMAIN rows => rows[i].dn \in DNs
  <2>1. RowDns(rows) \in Seq(DNs)
    BY <1>2, RowsTyped
  <2>2. \A k \in DOMAIN RowDns(rows) : RowDns(rows)[k] \in DNs
    BY <2>1
  <2>3. DOMAIN RowDns(rows) = DOMAIN rows /\ \A k \in DOMAIN rows : rows[k].dn = RowDns(rows)[k]
    BY <1>2, RowsTyped
  <2>4. QED
    BY <2>2, <2>3
<1> HIDE DEF rows
<1>4. /\ DOMAIN ui' = UiParts /\ ui'.sent = ui.sent /\ ui'.leaf = ui.leaf
      /\ ui'.ver = ui.ver /\ ui'.kids = ui.kids /\ ui'.branch = ui.branch /\ ui'.nav = ui.nav
      /\ ui'.wantLeaf \in Place /\ ui'.wantBranch = ui.wantBranch /\ ui'.form = ui.form
      /\ ui'.guard = ui.guard /\ ui'.hits = ui.hits /\ ui'.tree = ui.tree
      /\ ui'.treeDirty = ui.treeDirty
  BY <1>1, <1>2, <1>3, PlaceFacts DEF UiTyped, Shape, UiParts
<1>5. Keeps(ui, ui')
  BY <1>2, <1>4, PlainKeeps DEF UiTyped
<1>6. QED
  BY <1>1, <1>5, KeepsCarries, CarriedOn

LEMMA BranchCarries ==
  ASSUME NavTyped, NEW i, MoveBranch(i)
  PROVE  Carried
<1>1. PICK d \in DNs : /\ ui' = [ui EXCEPT !.tree.row = i, !.wantBranch = d]
                       /\ UNCHANGED <<dir, jobs, resps, dialog>>
  BY DEF MoveBranch
<1>2. UiTyped(ui) /\ DOMAIN ui = UiParts
  BY DEF NavTyped, UiTyped, Shape
<1>3. /\ DOMAIN ui' = UiParts /\ ui'.sent = ui.sent /\ ui'.leaf = ui.leaf
      /\ ui'.ver = ui.ver /\ ui'.kids = ui.kids /\ ui'.branch = ui.branch /\ ui'.nav = ui.nav
      /\ ui'.wantLeaf = ui.wantLeaf /\ ui'.wantBranch = d /\ ui'.form = ui.form
      /\ ui'.guard = ui.guard /\ ui'.hits = ui.hits /\ ui'.treeDirty = ui.treeDirty
      /\ ui'.tree = [ui.tree EXCEPT !.row = i]
  BY <1>1, <1>2 DEF UiParts
<1>4. UiTyped(ui')
  BY <1>2, <1>3, PlaceFacts DEF UiTyped, Shape
<1>5. TreeShown(ui) => TreeShown(ui')
  <2>1. TreeRows(ui') = TreeRows(ui)
    BY <1>3, SameBranches
  <2>2. SUFFICES ASSUME TreeShown(ui) PROVE TreeShown(ui')
    OBVIOUS
  <2>3. DOMAIN ui.tree = {"rows", "row"} /\ ui'.tree.rows = ui.tree.rows
        /\ DOMAIN ui'.tree = {"rows", "row"}
    BY <1>3, <2>2 DEF TreeShown
  <2>4. QED
    BY <1>3, <2>1, <2>2, <2>3 DEF TreeShown
<1>6. Keeps(ui, ui')
  BY <1>3, <1>4, <1>5 DEF Keeps
<1>7. QED
  BY <1>1, <1>6, KeepsCarries, CarriedOn

LEMMA EditCarries ==
  ASSUME NavTyped, EditForm
  PROVE  Carried
<1>1. /\ ui' = [ui EXCEPT !.form.dirty = TRUE] /\ ui.form # NoForm
      /\ UNCHANGED <<dir, jobs, resps, dialog>>
  BY DEF EditForm
<1>2. UiTyped(ui) /\ DOMAIN ui = UiParts /\ ui.form \in [entry : DNs, dirty : BOOLEAN]
  BY <1>1 DEF NavTyped, UiTyped, Shape, Forms
<1>3. /\ DOMAIN ui' = UiParts /\ ui'.sent = ui.sent /\ ui'.leaf = ui.leaf
      /\ ui'.ver = ui.ver /\ ui'.kids = ui.kids /\ ui'.branch = ui.branch /\ ui'.nav = ui.nav
      /\ ui'.wantLeaf = ui.wantLeaf /\ ui'.wantBranch = ui.wantBranch
      /\ ui'.form = [ui.form EXCEPT !.dirty = TRUE]
      /\ ui'.guard = ui.guard /\ ui'.hits = ui.hits /\ ui'.tree = ui.tree
      /\ ui'.treeDirty = ui.treeDirty
  BY <1>1, <1>2 DEF UiParts
<1>4. ui'.form \in Forms
  BY <1>2, <1>3 DEF Forms
<1>5. Keeps(ui, ui')
  BY <1>2, <1>3, <1>4, PlainKeeps DEF UiTyped
<1>6. QED
  BY <1>1, <1>5, KeepsCarries, CarriedOn

LEMMA ReloadCarries ==
  ASSUME NavTyped, Reload
  PROVE  Carried
<1>1. /\ ui' = AdoptStructure(ui, dir) /\ UNCHANGED <<dir, jobs, resps>>
      /\ dialog' = IF ui'.guard.kind = "vanished" THEN [kind |-> "vanished", target |-> ui'.guard]
                   ELSE NoDialog
  BY DEF Reload, LoadStructure
<1>2. Carries(ui, ui')
  BY <1>1, AdoptCarries DEF NavTyped
<1>3. ui'.guard \in Targets
  BY <1>2 DEF Carries, UiTyped
<1>4. ui'.guard.kind = "vanished" => ui'.guard \in [kind : {"vanished"}, dn : DNs]
  BY <1>3 DEF Targets, NoTarget
<1>5. dialog' # NoDialog => dialog' \in Dialogs
  BY <1>1, <1>4 DEF Dialogs
<1>6. NavTyped'
  BY <1>1, <1>2, <1>5 DEF NavTyped, Carries
<1>7. TreeRooted /\ TreeGood => TreeGood'
  BY <1>2 DEF Carries, TreeRooted, TreeGood
<1>8. QED
  BY <1>6, <1>7 DEF Carried

LEMMA TypeFindCarries ==
  ASSUME NavInv, NavTyped, NEW q, TypeFind(q)
  PROVE  Carried
<1> DEFINE t == SetLeafSearch(ui, q)
<1>1. Step(Repopulate(t)) /\ UNCHANGED <<dir, resps, dialog>>
  BY DEF TypeFind
<1>2. Keeps(ui, t)
  BY TypedFindKeeps DEF NavTyped
<1> HIDE DEF t
<1>3. Keeps(ui, Repopulate(t))
  BY <1>2, RepopulateKeeps, KeepsOn DEF Keeps
<1>4. QED
  BY <1>1, <1>3, KeepsCarries, EndCarries

LEMMA RunGuardCarries ==
  ASSUME NavTyped, RunGuard
  PROVE  Carried
<1>1. /\ dialog' = [kind |-> "guard", target |-> ui.guard] /\ UNCHANGED <<dir, jobs, resps, ui>>
  BY DEF RunGuard
<1>2. dialog' \in Dialogs
  BY <1>1 DEF NavTyped, UiTyped, Dialogs
<1>3. QED
  BY <1>1, <1>2 DEF NavTyped, Carried, TreeGood

LEMMA DecidedCarries ==
  ASSUME NavInv, NavTyped, NEW s, Keeps(ui, s), Decided(s)
  PROVE  Carried
<1> DEFINE t == [s EXCEPT !.guard = NoTarget]
<1>1. Step(t) /\ UNCHANGED <<dir, resps>> /\ dialog' = NoDialog
  BY DEF Decided
<1>2. UiTyped(s) /\ DOMAIN s = UiParts
  BY DEF Keeps, UiTyped, Shape
<1>3. /\ DOMAIN t = UiParts /\ t.sent = s.sent /\ t.leaf = s.leaf
      /\ t.ver = s.ver /\ t.kids = s.kids /\ t.branch = s.branch /\ t.nav = s.nav
      /\ t.wantLeaf = s.wantLeaf /\ t.wantBranch = s.wantBranch /\ t.form = s.form
      /\ t.guard = NoTarget /\ t.hits = s.hits /\ t.tree = s.tree /\ t.treeDirty = s.treeDirty
  BY <1>2 DEF UiParts
<1> HIDE DEF t
<1>4. Keeps(s, t)
  BY <1>2, <1>3, PlainKeeps, PlaceFacts DEF UiTyped
<1>5. Keeps(ui, t)
  BY <1>4, KeepsOn
<1>6. QED
  BY <1>1, <1>5, KeepsCarries, EndCarries

\* A request is added to what the dialog's choice sends.
LEMMA SentKeeps ==
  ASSUME NEW s, UiTyped(s), NEW x, JobTyped(x), NEW n \in Place
  PROVE  Keeps(s, [s EXCEPT !.nav = n, !.sent = Append(@, x)])
<1> DEFINE t == [s EXCEPT !.nav = n, !.sent = Append(@, x)]
<1>1. DOMAIN s = UiParts /\ IsQueue(s.sent) /\ \A y \in ToSet(s.sent) : JobTyped(y)
  BY DEF UiTyped, Shape
<1>2. /\ DOMAIN t = UiParts /\ t.sent = Append(s.sent, x) /\ t.leaf = s.leaf
      /\ t.ver = s.ver /\ t.kids = s.kids /\ t.branch = s.branch /\ t.nav = n
      /\ t.wantLeaf = s.wantLeaf /\ t.wantBranch = s.wantBranch /\ t.form = s.form
      /\ t.guard = s.guard /\ t.hits = s.hits /\ t.tree = s.tree /\ t.treeDirty = s.treeDirty
  BY <1>1 DEF UiParts
<1> HIDE DEF t
<1>3. IsQueue(t.sent) /\ ToSet(t.sent) = ToSet(s.sent) \cup {x}
  BY <1>1, <1>2, QueueAppend
<1>4. UiTyped(t)
  BY <1>1, <1>2, <1>3 DEF UiTyped, Shape
<1>5. TreeShown(s) => TreeShown(t)
  BY <1>2, TreeBeside
<1>6. QED
  BY <1>2, <1>4, <1>5 DEF Keeps, t

LEMMA DialogFacts ==
  ASSUME NavTyped
  PROVE  /\ dialog.kind = "guard" /\ dialog.target.kind \in {"leaf", "branch"}
              => dialog.target.dn \in DNs
         /\ dialog.kind = "vanished" => dialog.target.dn \in DNs
<1>1. dialog = NoDialog => dialog.kind = "none"
  BY DEF NoDialog
<1>2. \A t \in Targets : t.kind \in {"leaf", "branch"} => t.dn \in DNs
  BY DEF Targets, NoTarget
<1>3. ASSUME dialog \in Dialogs, dialog.kind = "guard" PROVE dialog.target \in Targets
  BY <1>3 DEF Dialogs
<1>4. ASSUME dialog \in Dialogs, dialog.kind = "vanished" PROVE dialog.target.dn \in DNs
  BY <1>4 DEF Dialogs
<1>5. QED
  BY <1>1, <1>2, <1>3, <1>4 DEF NavTyped

LEMMA SaveCarries ==
  ASSUME NavInv, NavTyped, GuardSave
  PROVE  Carried
<1> DEFINE to == dialog.target
           n  == IF to.kind = "leaf" THEN to.dn ELSE NoDN
           x  == [what |-> "save", dn |-> ui.form.entry]
           s  == [ui EXCEPT !.nav = n, !.sent = Append(@, x)]
<1>1. /\ Decided(IF to.kind = "branch" THEN CommitBranch(s, to.dn) ELSE s)
      /\ dialog.kind = "guard" /\ Dirty(ui)
  BY DEF GuardSave
<1>2. to.kind \in {"leaf", "branch"} => to.dn \in DNs
  BY <1>1, DialogFacts
<1>3. UiTyped(ui) /\ ui.form.entry \in DNs
  BY <1>1 DEF NavTyped, UiTyped, Forms, NoForm, Dirty
<1>4. n \in Place /\ JobTyped(x)
  BY <1>2, <1>3, PlaceFacts DEF JobTyped
<1> HIDE DEF n, x, to
<1>5. Keeps(ui, s)
  BY <1>3, <1>4, SentKeeps
<1> HIDE DEF s
<1>6. to.kind = "branch" => Keeps(ui, CommitBranch(s, to.dn))
  BY <1>2, <1>5, CommitKeeps, KeepsOn DEF Keeps
<1>7. QED
  BY <1>1, <1>5, <1>6, DecidedCarries

LEMMA StaysCarries ==
  ASSUME NavInv, NavTyped, GuardSaveCancelled \/ GuardStay \/ VanishedKeep \/ VanishedDiscard
  PROVE  Carried
<1> DEFINE a == [ui EXCEPT !.treeDirty = TRUE]
           b == [ui EXCEPT !.listDirty = TRUE, !.nav = NoDN]
           c == [ui EXCEPT !.listDirty = TRUE]
           d == [ui EXCEPT !.form = NoForm, !.leaf = NoDN, !.listDirty = TRUE]
<1>1. Decided(a) \/ Decided(b) \/ Decided(c) \/ Decided(ui) \/ Decided(d)
  BY DEF GuardSaveCancelled, GuardStay, VanishedKeep, VanishedDiscard
<1>2. UiTyped(ui) /\ DOMAIN ui = UiParts
  BY DEF NavTyped, UiTyped, Shape
<1>3. Keeps(ui, a)
  <2>1. /\ DOMAIN a = UiParts /\ a.sent = ui.sent /\ a.leaf = ui.leaf
        /\ a.ver = ui.ver /\ a.kids = ui.kids /\ a.branch = ui.branch /\ a.nav = ui.nav
        /\ a.wantLeaf = ui.wantLeaf /\ a.wantBranch = ui.wantBranch /\ a.form = ui.form
        /\ a.guard = ui.guard /\ a.hits = ui.hits /\ a.tree = ui.tree /\ a.treeDirty = TRUE
    BY <1>2 DEF UiParts
  <2> HIDE DEF a
  <2>2. QED
    BY <1>2, <2>1, PlainKeeps DEF UiTyped
<1>4. Keeps(ui, b)
  <2>1. /\ DOMAIN b = UiParts /\ b.sent = ui.sent /\ b.leaf = ui.leaf
        /\ b.ver = ui.ver /\ b.kids = ui.kids /\ b.branch = ui.branch /\ b.nav = NoDN
        /\ b.wantLeaf = ui.wantLeaf /\ b.wantBranch = ui.wantBranch /\ b.form = ui.form
        /\ b.guard = ui.guard /\ b.hits = ui.hits /\ b.tree = ui.tree
        /\ b.treeDirty = ui.treeDirty
    BY <1>2 DEF UiParts
  <2> HIDE DEF b
  <2>2. QED
    BY <1>2, <2>1, PlainKeeps, PlaceFacts DEF UiTyped
<1>5. Keeps(ui, c)
  <2>1. /\ DOMAIN c = UiParts /\ c.sent = ui.sent /\ c.leaf = ui.leaf
        /\ c.ver = ui.ver /\ c.kids = ui.kids /\ c.branch = ui.branch /\ c.nav = ui.nav
        /\ c.wantLeaf = ui.wantLeaf /\ c.wantBranch = ui.wantBranch /\ c.form = ui.form
        /\ c.guard = ui.guard /\ c.hits = ui.hits /\ c.tree = ui.tree
        /\ c.treeDirty = ui.treeDirty
    BY <1>2 DEF UiParts
  <2> HIDE DEF c
  <2>2. QED
    BY <1>2, <2>1, PlainKeeps DEF UiTyped
<1>6. Keeps(ui, d)
  <2>1. /\ DOMAIN d = UiParts /\ d.sent = ui.sent /\ d.leaf = NoDN
        /\ d.ver = ui.ver /\ d.kids = ui.kids /\ d.branch = ui.branch /\ d.nav = ui.nav
        /\ d.wantLeaf = ui.wantLeaf /\ d.wantBranch = ui.wantBranch /\ d.form = NoForm
        /\ d.guard = ui.guard /\ d.hits = ui.hits /\ d.tree = ui.tree
        /\ d.treeDirty = ui.treeDirty
    BY <1>2 DEF UiParts
  <2> HIDE DEF d
  <2>2. QED
    BY <1>2, <2>1, PlainKeeps, PlaceFacts DEF UiTyped
<1> HIDE DEF a, b, c, d
<1>7. QED
  BY <1>1, <1>2, <1>3, <1>4, <1>5, <1>6, KeepsSelf, DecidedCarries

LEMMA DiscardCarries ==
  ASSUME NavInv, NavTyped, GuardDiscard
  PROVE  Carried
<1> DEFINE s  == [ui EXCEPT !.form.dirty = FALSE]
           to == dialog.target
<1>1. /\ \/ to.kind = "leaf" /\ Decided(Reread(s, to.dn))
         \/ to.kind = "branch" /\ Decided(CommitBranch(s, to.dn))
         \/ Decided(s)
      /\ dialog.kind = "guard"
  BY DEF GuardDiscard
<1>2. to.kind \in {"leaf", "branch"} => to.dn \in DNs
  BY <1>1, DialogFacts
<1>3. UiTyped(ui) /\ DOMAIN ui = UiParts /\ ui.form \in Forms
  BY DEF NavTyped, UiTyped, Shape
<1>4. /\ DOMAIN s = UiParts /\ s.sent = ui.sent /\ s.leaf = ui.leaf
      /\ s.ver = ui.ver /\ s.kids = ui.kids /\ s.branch = ui.branch /\ s.nav = ui.nav
      /\ s.wantLeaf = ui.wantLeaf /\ s.wantBranch = ui.wantBranch
      /\ s.form = [ui.form EXCEPT !.dirty = FALSE]
      /\ s.guard = ui.guard /\ s.hits = ui.hits /\ s.tree = ui.tree
      /\ s.treeDirty = ui.treeDirty
  BY <1>3 DEF UiParts
<1> HIDE DEF s, to
<1>5. s.form \in Forms
  <2>1. [NoForm EXCEPT !.dirty = FALSE] = NoForm
    <3>1. \A c, f : f \in [entry : {NoDN}, dirty : {c}] =>
            /\ [f EXCEPT !.dirty = c] \in [entry : {NoDN}, dirty : {c}]
            /\ f = [entry |-> NoDN, dirty |-> c]
      OBVIOUS
    <3>2. NoForm \in [entry : {NoDN}, dirty : {FALSE}]
      BY DEF NoForm
    <3>3. QED
      BY <3>1, <3>2 DEF NoForm
  <2>2. \A f \in [entry : DNs, dirty : BOOLEAN] :
          [f EXCEPT !.dirty = FALSE] \in [entry : DNs, dirty : BOOLEAN]
    OBVIOUS
  <2>3. QED
    BY <1>3, <1>4, <2>1, <2>2 DEF Forms
<1>6. Keeps(ui, s)
  BY <1>3, <1>4, <1>5, PlainKeeps DEF UiTyped
<1>7. to.dn \in DNs => Keeps(ui, Reread(s, to.dn)) /\ Keeps(ui, CommitBranch(s, to.dn))
  BY <1>6, RereadKeeps, CommitKeeps, KeepsOn DEF Keeps
<1>8. QED
  BY <1>1, <1>2, <1>6, <1>7, DecidedCarries

LEMMA RecreateCarries ==
  ASSUME NavInv, NavTyped, VanishedRecreate
  PROVE  Carried
<1> DEFINE x == [what |-> "create", dn |-> dialog.target.dn]
           s == [ui EXCEPT !.sent = Append(@, x)]
           t == [ui EXCEPT !.nav = ui.nav, !.sent = Append(@, x)]
<1>1. Decided(s) /\ dialog.kind = "vanished"
  BY DEF VanishedRecreate
<1>2. JobTyped(x)
  BY <1>1, DialogFacts DEF JobTyped
<1> HIDE DEF x
<1>3. UiTyped(ui) /\ ui.nav \in Place /\ DOMAIN ui = UiParts
  BY DEF NavTyped, UiTyped, Shape
<1>4. Keeps(ui, t)
  BY <1>2, <1>3, SentKeeps
<1>5. s = t
  BY <1>3 DEF UiParts
<1>6. QED
  BY <1>1, <1>4, <1>5, DecidedCarries

LEMMA WorkCarries ==
  ASSUME NavInv, NavTyped, Work
  PROVE  Carried
<1> DEFINE j == Head(jobs)
<1>1. /\ jobs # <<>> /\ UNCHANGED <<ui, dialog>>
      /\ WorkRead(j) \/ WorkFind(j) \/ WorkSave(j) \/ WorkCreate(j)
  BY DEF Work
<1>2. IsQueue(jobs) /\ IsQueue(resps) /\ dir \in [DNs -> Versions]
  BY DEF NavInv, NavTyped
<1>3. JobTyped(j) /\ ToSet(Tail(jobs)) \subseteq ToSet(jobs)
  BY <1>1, <1>2, QueueTail DEF NavTyped
<1> HIDE DEF j
<1>4. dir' \in [DNs -> Versions]
  <2>1. CASE WorkRead(j) \/ WorkFind(j)
    BY <1>2, <2>1 DEF WorkRead, WorkFind
  <2>2. CASE WorkSave(j)
    <3>1. j.dn \in DNs
      BY <1>3, <2>2 DEF WorkSave, JobTyped
    <3>2. dir[j.dn] # 0 => Changed(dir[j.dn]) \in Versions
      BY <1>2, <3>1 DEF Changed, Versions
    <3>3. dir' = dir \/ (dir[j.dn] # 0 /\ dir' = [dir EXCEPT ![j.dn] = Changed(@)])
      BY <2>2 DEF WorkSave
    <3>4. QED
      BY <1>2, <3>1, <3>2, <3>3
  <2>3. CASE WorkCreate(j)
    <3>1. dir' = dir \/ dir' = [dir EXCEPT ![j.dn] = 1]
      BY <2>3 DEF WorkCreate
    <3>2. 1 \in Versions
      BY DEF Versions
    <3>3. QED
      BY <1>2, <3>1, <3>2
  <2>4. QED
    BY <1>1, <2>1, <2>2, <2>3
<1>5. PICK r : jobs' = Tail(jobs) /\ resps' = Append(resps, r) /\ AnswerTyped(r)
  <2>1. CASE WorkRead(j)
    <3> DEFINE ok == dir[j.dn] # 0
               v  == dir[j.dn]
               r  == [what |-> "read", ok |-> ok, dn |-> j.dn, ver |-> v]
    <3>1. j.dn \in DNs /\ jobs' = Tail(jobs) /\ resps' = Append(resps, r)
      BY <1>3, <2>1 DEF WorkRead, Answer, JobTyped
    <3>2. ok => v \in Versions \ {0}
      BY <1>2, <3>1
    <3> HIDE DEF ok, v
    <3>3. r.what = "read" /\ r.ok = ok /\ r.dn = j.dn /\ r.ver = v
      OBVIOUS
    <3> HIDE DEF r
    <3>4. AnswerTyped(r)
      BY <3>1, <3>2, <3>3 DEF AnswerTyped
    <3>5. QED
      BY <3>1, <3>4
  <2>2. CASE WorkFind(j)
    <3> DEFINE H == {d \in Below(j.branch) : <<d, dir[d]>> \in Matches[j.term]}
    <3>1. PICK ok \in BOOLEAN :
            Answer([what |-> "find", ok |-> ok /\ dir[j.branch] # 0, id |-> j.id,
                    ask |-> j, hits |-> H, vers |-> dir])
      BY <2>2 DEF WorkFind
    <3> DEFINE r == [what |-> "find", ok |-> ok /\ dir[j.branch] # 0, id |-> j.id,
                     ask |-> j, hits |-> H, vers |-> dir]
    <3>2. j.branch \in DNs /\ jobs' = Tail(jobs) /\ resps' = Append(resps, r)
      BY <1>3, <2>2, <3>1 DEF WorkFind, Answer, JobTyped
    <3>3. H \subseteq DNs \ {Base} /\ \A d \in H : dir[d] \in Versions \ {0}
      BY <1>2 DEF Below
    <3> HIDE DEF H
    <3>4. r.what = "find" /\ r.ask = j /\ r.hits = H /\ r.vers = dir
      OBVIOUS
    <3> HIDE DEF r
    <3>5. AnswerTyped(r)
      BY <3>2, <3>3, <3>4 DEF AnswerTyped
    <3>6. QED
      BY <3>2, <3>5
  <2>3. CASE WorkSave(j)
    <3>1. PICK ok \in BOOLEAN : Answer([what |-> "save", ok |-> ok, dn |-> j.dn])
      BY <2>3 DEF WorkSave
    <3> DEFINE r == [what |-> "save", ok |-> ok, dn |-> j.dn]
    <3>2. AnswerTyped(r) /\ jobs' = Tail(jobs) /\ resps' = Append(resps, r)
      BY <1>3, <2>3, <3>1 DEF WorkSave, Answer, JobTyped, AnswerTyped
    <3> HIDE DEF r
    <3>3. QED
      BY <3>2
  <2>4. CASE WorkCreate(j)
    <3> DEFINE ok == dir[j.dn] = 0 /\ dir[Parent[j.dn]] # 0
               r  == [what |-> "create", ok |-> ok, dn |-> j.dn]
    <3>1. AnswerTyped(r) /\ jobs' = Tail(jobs) /\ resps' = Append(resps, r)
      BY <1>3, <2>4 DEF WorkCreate, Answer, JobTyped, AnswerTyped
    <3> HIDE DEF ok, r
    <3>2. QED
      BY <3>1
  <2>5. QED
    BY <1>1, <2>1, <2>2, <2>3, <2>4
<1>6. ToSet(resps') = ToSet(resps) \cup {r}
  BY <1>2, <1>5, QueueAppend
<1>7. NavTyped'
  BY <1>1, <1>3, <1>4, <1>5, <1>6 DEF NavTyped
<1>8. QED
  BY <1>1, <1>7 DEF Carried, TreeGood

LEMMA OthersCarry ==
  ASSUME NavTyped, NEW d \in Others, OthersChange(d)
  PROVE  Carried
<1>1. UNCHANGED <<jobs, resps, ui, dialog>> /\ \E v \in Versions : dir' = [dir EXCEPT ![d] = v]
  BY DEF OthersChange
<1>2. dir' \in [DNs -> Versions]
  BY <1>1 DEF NavTyped
<1>3. NavTyped'
  BY <1>1, <1>2 DEF NavTyped
<1>4. QED
  BY <1>1, <1>3 DEF Carried, TreeGood

LEMMA TickCarries ==
  ASSUME NavInv, NavTyped, Tick
  PROVE  Carried
<1> DEFINE polled   == IF resps = <<>> THEN ui ELSE Polled(ui, Head(resps))
           selected == ReconcileSelection(polled)
           branched == ReconcileBranch(selected)
           rebuilt  == RefreshTree(branched)
           listed   == RefreshList(rebuilt)
<1>1. /\ Step(listed) /\ UNCHANGED <<dir, dialog>>
      /\ resps' = IF resps = <<>> THEN <<>> ELSE Tail(resps)
  BY DEF Tick
<1>2. UiTyped(ui) /\ IsQueue(resps)
  BY DEF NavTyped, NavInv
<1>3. ToSet(resps') \subseteq ToSet(resps)
  BY <1>1, <1>2, QueueTail
<1>4. Carries(ui, polled)
  <2>1. CASE resps = <<>>
    BY <1>2, <2>1, KeepsSelf, KeepsCarries
  <2>2. CASE resps # <<>>
    <3> DEFINE r == Head(resps)
    <3>1. r \in ToSet(resps)
      BY <1>2, <2>2, QueueTail
    <3> HIDE DEF r
    <3>2. AnswerTyped(r)
      BY <3>1 DEF NavTyped
    <3>3. r.what = "find" => \A d \in r.hits : Parent[d] = r.ask.branch
      BY <3>1 DEF NavInv, FindsOK, Answers
    <3>4. Carries(ui, Polled(ui, r))
      BY <1>2, <3>2, <3>3, PolledCarries
    <3>5. QED
      BY <2>2, <3>4 DEF r
  <2>3. QED
    BY <2>1, <2>2
<1> HIDE DEF polled
<1>5. Carries(ui, selected)
  BY <1>4, SelectionKeeps, CarriesOn DEF Carries
<1> HIDE DEF selected
<1>6. Carries(ui, branched)
  BY <1>5, BranchKeeps, CarriesOn DEF Carries
<1> HIDE DEF branched
<1>7. Carries(ui, rebuilt)
  BY <1>6, RefreshTreeKeeps, CarriesOn DEF Carries
<1> HIDE DEF rebuilt
<1>8. Carries(ui, listed)
  BY <1>7, RepopulateKeeps, CarriesOn DEF Carries
<1> HIDE DEF listed
<1>9. QED
  BY <1>1, <1>3, <1>8, EndCarries

LEMMA TreeStep ==
  ASSUME NavInv, NavTyped, [Next]_vars
  PROVE  Carried
<1>1. CASE \E i : MoveRow(i) \/ MoveBranch(i)
  BY <1>1, RowCarries, BranchCarries
<1>2. CASE \E t : TypeFind(t)
  BY <1>2, TypeFindCarries
<1>3. CASE EditForm \/ Reload \/ RunGuard
  BY <1>3, EditCarries, ReloadCarries, RunGuardCarries
<1>4. CASE Decide
  BY <1>4, SaveCarries, StaysCarries, DiscardCarries, RecreateCarries DEF Decide
<1>5. CASE Work \/ Tick
  BY <1>5, WorkCarries, TickCarries
<1>6. CASE \E d \in Others : OthersChange(d)
  BY <1>6, OthersCarry
<1>7. CASE UNCHANGED vars
  <2>1. NavTyped'
    BY <1>7 DEF NavTyped, vars
  <2>2. QED
    BY <1>7, <2>1 DEF Carried, TreeGood, vars
<1>8. QED
  BY <1>1, <1>2, <1>3, <1>4, <1>5, <1>6, <1>7 DEF Next

LEMMA TreeInit ==
  ASSUME Init
  PROVE  NavTyped /\ TreeGood
<1> DEFINE K == ChildrenIn(Initial)
           s == [ver |-> Initial, kids |-> K, branch |-> Base,
                 leaf |-> NoDN, form |-> NoForm, query |-> Empty, hits |-> NoHits,
                 lastId |-> 0, latest |-> 0, wantLeaf |-> NoDN, wantBranch |-> NoDN,
                 guard |-> NoTarget, nav |-> NoDN, listDirty |-> TRUE,
                 treeDirty |-> TRUE, list |-> [rows |-> <<>>, row |-> 0],
                 tree |-> [rows |-> <<>>, row |-> 1], sent |-> <<>>, post |-> FALSE]
<1>1. /\ ui = RefreshList(RefreshTree(s)) /\ jobs = <<>> /\ resps = <<>>
      /\ dir = Initial /\ dialog = NoDialog
  BY DEF Init
<1>2. Initial \in [DNs -> Versions] /\ Base \in DNs
  BY NavigationAssumption
<1>3. /\ K \in [DNs -> Seq(DNs)]
      /\ \A d \in DNs \ {Base} : Initial[d] # 0 /\ Initial[Parent[d]] # 0 => d \in ToSet(K[Parent[d]])
  BY <1>2, ChildrenFacts
<1> HIDE DEF K
<1>4. /\ DOMAIN s = UiParts /\ s.sent = <<>> /\ s.leaf = NoDN
      /\ s.ver = Initial /\ s.kids = K /\ s.branch = Base /\ s.nav = NoDN
      /\ s.wantLeaf = NoDN /\ s.wantBranch = NoDN /\ s.form = NoForm
      /\ s.guard = NoTarget /\ s.hits = NoHits /\ s.treeDirty
      /\ DOMAIN s.tree = {"rows", "row"}
  BY DEF UiParts
<1> HIDE DEF s
<1>5. UiTyped(s)
  BY <1>2, <1>3, <1>4, QueueEmpty, PlaceFacts DEF UiTyped, Shape
<1>6. TreeOK(s)
  BY <1>3, <1>4 DEF TreeOK, Linked, TreeShown
<1>7. Keeps(s, ui)
  <2>1. Keeps(s, RefreshTree(s))
    BY <1>5, RefreshTreeKeeps
  <2>2. Keeps(RefreshTree(s), ui)
    BY <1>1, <2>1, RepopulateKeeps DEF Keeps
  <2>3. QED
    BY <2>1, <2>2, KeepsOn
<1>8. TreeOK(ui) /\ UiTyped(ui)
  BY <1>6, <1>7, KeepsTree DEF Keeps
<1>9. QED
  BY <1>1, <1>2, <1>8, QueueEmpty DEF NavTyped, TreeGood

\* What is known, shown, highlighted, opened and asked for are entries, at every
\* state: a highlight that is not one is not asked for, and a dialog opened for
\* an entry has it.
THEOREM NavigationIsTyped == Spec => []NavTyped
<1>1. NavInv /\ NavTyped /\ [Next]_vars => NavTyped'
  BY TreeStep DEF Carried
<1>2. Init => NavTyped
  BY TreeInit
<1>3. QED
  BY NavInvariant, <1>1, <1>2, PTL DEF Spec

\* The tree and the entry list show what is known, unless they are marked for
\* rebuilding, as long as what is known hangs together: whatever is read, saved,
\* found or rescanned, no container appears, goes or is relabelled without the
\* tree being told (Structure::upsert's result, tree_dirty, list_dirty).
THEOREM PanesShowWhatIs == Spec /\ []TreeRooted => []PanesAreCurrent
<1>1. NavInv /\ NavTyped /\ TreeRooted /\ TreeGood /\ [Next]_vars => TreeGood'
  BY TreeStep DEF Carried
<1>2. Init => TreeGood
  BY TreeInit
<1>3. NavInv /\ TreeGood => PanesAreCurrent
  BY DEF NavInv, ListOK, TreeGood, TreeOK, TreeShown,
         PanesAreCurrent, ListIsCurrent, TreeIsCurrent
<1>4. QED
  BY NavInvariant, NavigationIsTyped, <1>1, <1>2, <1>3, PTL DEF Spec
-----------------------------------------------------------------------------
\* The entries of one container are never listed as hits under another, however
\* late a find is answered (commit_branch, LeafSearchFlow::cancel).
THEOREM HitsAreOfTheContainer == Spec => []HitsBelongHere
<1>1. NavInv => HitsBelongHere
  BY DEF NavInv, FindsOK, HitsHere, HitsBelongHere
<1>2. QED
  BY NavInvariant, <1>1, PTL

\* Once the answer to the last query is in, the hits listed are its own: of the
\* answers to finds typed in a row, in whichever order they come, the last one's
\* counts (LeafSearchFlow's latest).
THEOREM HitsAreOfTheQuery == Spec => []FindSettles
<1>1. NavInv => FindSettles
  <2> SUFFICES ASSUME NavInv PROVE FindSettles
    OBVIOUS
  <2>1. HitsOfQuery(ui, ToSet(jobs), ToSet(resps))
    BY DEF NavInv, FindsOK
  <2>2. Coming(ui, ToSet(jobs)) =>
          \E i \in DOMAIN jobs : jobs[i].what = "find" /\ jobs[i].id = ui.latest
    BY DEF Coming, ToSet
  <2>3. Coming(ui, ToSet(resps)) =>
          \E i \in DOMAIN resps : resps[i].what = "find" /\ resps[i].id = ui.latest
    BY DEF Coming, ToSet
  <2>4. QED
    BY <2>1, <2>2, <2>3 DEF HitsOfQuery, FindSettles
<1>2. QED
  BY NavInvariant, <1>1, PTL

\* The entry list shows the structure, the container and the hits as they are
\* unless it is marked for rebuilding: no handler changes one and forgets to say
\* so (list_dirty).
THEOREM ListShowsWhatIs == Spec => []ListIsCurrent
<1>1. NavInv => ListIsCurrent
  BY DEF NavInv, ListOK, ListIsCurrent
<1>2. QED
  BY NavInvariant, <1>1, PTL

-----------------------------------------------------------------------------
(***************************************************************************)
(* The place: the form, the entry that counts as open and the highlight.   *)
(*                                                                         *)
(* They come to agree by a circle of messages: the highlight asks for an   *)
(* entry, the entry read fills the form and has the list rebuilt, and the  *)
(* list rebuilt moves the highlight.  What holds all along is that, where  *)
(* two of them disagree, something on its way or waiting will settle it: a *)
(* read of the entry that counts as open, with no other read after it; a   *)
(* rebuild of the list; a request of the pane the next tick takes up; a    *)
(* dialog that asks.  The form cannot be led astray by an earlier answer   *)
(* because the queue, the worker and the pump keep the order of the reads. *)
(***************************************************************************)
\* No read is in the queue q; the last read in it is of d.
NoRead(q) == \A i \in DOMAIN q : q[i].what # "read"

LastRead(q, d) ==
  \E i \in DOMAIN q : /\ q[i].what = "read" /\ q[i].dn = d
                      /\ \A k \in DOMAIN q : k > i => q[k].what # "read"

\* The last read of all that are outstanding is of d.
Awaited(s, J, A, d) ==
  \/ LastRead(s.sent, d)
  \/ NoRead(s.sent) /\ (LastRead(J, d) \/ (NoRead(J) /\ LastRead(A, d)))

\* The form shows the open entry, or will when the last read is answered, or
\* that entry could not be read.
Followed(s, J, A, M) ==
  s.leaf # NoDN => \/ Awaited(s, J, A, s.leaf)
                   \/ /\ NoRead(s.sent) /\ NoRead(J) /\ NoRead(A)
                      /\ s.leaf \in M \/ s.form.entry = s.leaf

\* The list is to be rebuilt, now or when the last read is answered, unless
\* that fails.
Moving(s, J, A, M) == s.listDirty \/ s.leaf \in M \/ Awaited(s, J, A, s.leaf)

Shown(s) == RowDns(s.list.rows)

\* The highlight is on the open entry, where the list shows it.
Right(s) == s.leaf \in ToSet(Shown(s)) => Shown(s)[s.list.row] = s.leaf

Held(s) == s.form # NoForm /\ (s.leaf = NoDN \/ s.ver[s.leaf] = 0)

\* The form need not follow the list anywhere, or will be told to.
AtRest(s, J, A, M) ==
  \/ Moving(s, J, A, M) \/ Dirty(s) \/ s.leaf \in ToSet(Shown(s)) \/ Held(s)
  \/ ToSet(Shown(s)) \subseteq {s.branch}

Led(s, J, A, M) ==
  \/ AtRest(s, J, A, M)
  \/ s.wantLeaf # NoDN /\ s.wantLeaf \in ToSet(Shown(s))

\* Edits that are given up leave a held form, or a list that will be rebuilt.
Lost(s, J, A, M) ==
  Dirty(s) => \/ s.leaf = NoDN \/ s.ver[s.leaf] = 0
              \/ s.leaf \in M \/ Awaited(s, J, A, s.leaf)

\* The guard asks, or is about to, on behalf of a move in the list.
AsksAboutLeaf ==
  \/ dialog = NoDialog /\ posted /\ ui.guard.kind = "leaf"
  \/ dialog.kind = "guard" /\ dialog.target.kind = "leaf"

\* The entry has vanished; or the guard asks, or is about to, about no move: what
\* it was posted for was decided in another dialog before it was dispatched.
AsksAboutNothing ==
  \/ dialog.kind = "vanished"
  \/ dialog = NoDialog /\ posted /\ ui.guard.kind \notin {"leaf", "branch"}
  \/ dialog.kind = "guard" /\ dialog.target.kind \notin {"leaf", "branch"}

\* The operator has moved the highlight and the next tick takes it up.
AsksToMove ==
  Idle /\ ui.wantBranch = NoDN /\ ui.wantLeaf # NoDN /\ Shown(ui)[ui.list.row] = ui.wantLeaf

\* What the dialogs rely on while they wait.
Prompts ==
  /\ posted \/ dialog.kind = "guard" =>
       ui.wantBranch = NoDN /\ (ui.wantLeaf # NoDN => ~Dirty(ui))
  /\ dialog.kind = "guard" => ~posted
  /\ dialog = NoDialog => ui.guard.kind # "vanished"
  /\ ui.post = FALSE
  /\ AsksAboutNothing => /\ ui.latest = 0
                         /\ Moving(ui, jobs, resps, missed) \/ Right(ui)
                         /\ Lost(ui, jobs, resps, missed)

\* Where the highlight is not on the open entry, something will put it back or
\* is asked to take the form to it.
Pointing ==
  \/ Moving(ui, jobs, resps, missed) \/ Right(ui)
  \/ ui.nav # NoDN \/ AsksToMove \/ AsksAboutLeaf

PlaceInv ==
  /\ Followed(ui, jobs, resps, missed)
  /\ Led(ui, jobs, resps, missed)
  /\ Prompts /\ Pointing
-----------------------------------------------------------------------------
(***************************************************************************)
(* The reads of a queue, one put after another.                            *)
(***************************************************************************)
LEMMA ReadsOfConcat ==
  ASSUME NEW s, IsQueue(s), NEW t, IsQueue(t)
  PROVE  /\ NoRead(s \o t) <=> NoRead(s) /\ NoRead(t)
         /\ \A d : LastRead(s \o t, d) <=> LastRead(t, d) \/ (NoRead(t) /\ LastRead(s, d))
<1> DEFINE S == ToSet(s) \cup ToSet(t)
           m == Len(s)
           n == Len(t)
           u == s \o t
<1>1. s \in Seq(S) /\ t \in Seq(S)
  BY QueueWidens
<1> HIDE DEF S
<1>2. /\ m \in Nat /\ n \in Nat /\ DOMAIN s = 1..m /\ DOMAIN t = 1..n /\ DOMAIN u = 1..(m + n)
      /\ \A i \in 1..m : u[i] = s[i]
      /\ \A i \in 1..n : u[m + i] = t[i]
  BY <1>1
<1> HIDE DEF m, n, u
<1>3. \A i \in 1..(m + n) : i \in 1..m \/ (i - m \in 1..n /\ m + (i - m) = i)
  BY <1>2
<1>4. NoRead(u) <=> NoRead(s) /\ NoRead(t)
  <2>1. ASSUME NoRead(u) PROVE NoRead(s) /\ NoRead(t)
    <3>1. /\ \A i \in 1..m : i \in 1..(m + n)
          /\ \A i \in 1..n : m + i \in 1..(m + n)
      BY <1>2
    <3>2. \A i \in 1..(m + n) : u[i].what # "read"
      BY <1>2, <2>1 DEF NoRead
    <3>3. \A i \in 1..m : s[i].what # "read"
      BY <1>2, <3>1, <3>2
    <3>4. \A i \in 1..n : t[i].what # "read"
      BY <1>2, <3>1, <3>2
    <3>5. QED
      BY <1>2, <3>3, <3>4 DEF NoRead
  <2>2. ASSUME NoRead(s), NoRead(t) PROVE NoRead(u)
    <3>1. \A i \in 1..m : s[i].what # "read"
      BY <1>2, <2>2 DEF NoRead
    <3>2. \A i \in 1..n : t[i].what # "read"
      BY <1>2, <2>2 DEF NoRead
    <3>3. \A i \in 1..(m + n) : u[i].what # "read"
      BY <1>2, <1>3, <3>1, <3>2
    <3>4. QED
      BY <1>2, <3>3 DEF NoRead
  <2>3. QED
    BY <2>1, <2>2
<1>5. ASSUME NEW d, LastRead(u, d) PROVE LastRead(t, d) \/ (NoRead(t) /\ LastRead(s, d))
  <2>1. PICK i \in 1..(m + n) : /\ u[i].what = "read" /\ u[i].dn = d
                                /\ \A k \in 1..(m + n) : k > i => u[k].what # "read"
    BY <1>2, <1>5 DEF LastRead
  <2>2. CASE i \in 1..m
    <3>1. \A k \in 1..n : m + k \in 1..(m + n) /\ m + k > i
      BY <1>2, <2>2
    <3>2. NoRead(t)
      BY <1>2, <2>1, <3>1 DEF NoRead
    <3>3. \A k \in 1..m : k \in 1..(m + n)
      BY <1>2
    <3>4. \A k \in 1..m : k > i => s[k].what # "read"
      BY <1>2, <2>1, <3>3
    <3>5. s[i].what = "read" /\ s[i].dn = d
      BY <1>2, <2>1, <2>2
    <3>6. LastRead(s, d)
      BY <1>2, <2>2, <3>4, <3>5 DEF LastRead
    <3>7. QED
      BY <3>2, <3>6
  <2>3. CASE i - m \in 1..n /\ m + (i - m) = i
    <3> DEFINE h == i - m
    <3>1. h \in 1..n /\ m + h = i
      BY <2>3
    <3> HIDE DEF h
    <3>2. t[h].what = "read" /\ t[h].dn = d
      BY <1>2, <2>1, <3>1
    <3>3. \A k \in 1..n : k > h => m + k \in 1..(m + n) /\ m + k > i
      BY <1>2, <3>1
    <3>4. \A k \in 1..n : k > h => t[k].what # "read"
      BY <1>2, <2>1, <3>3
    <3>5. QED
      BY <1>2, <3>1, <3>2, <3>4 DEF LastRead
  <2>4. QED
    BY <1>3, <2>2, <2>3
<1>6. ASSUME NEW d, LastRead(t, d) PROVE LastRead(u, d)
  <2>1. PICK h \in 1..n : /\ t[h].what = "read" /\ t[h].dn = d
                          /\ \A k \in 1..n : k > h => t[k].what # "read"
    BY <1>2, <1>6 DEF LastRead
  <2>2. m + h \in 1..(m + n) /\ u[m + h] = t[h]
    BY <1>2
  <2>3. \A k \in 1..(m + n) : k > m + h => k - m \in 1..n /\ k - m > h /\ u[k] = t[k - m]
    <3> TAKE k \in 1..(m + n)
    <3>1. k > m + h => k - m \in 1..n /\ k - m > h /\ m + (k - m) = k
      BY <1>2, <2>2
    <3>2. QED
      BY <1>2, <3>1
  <2>4. \A k \in 1..(m + n) : k > m + h => u[k].what # "read"
    BY <2>1, <2>3
  <2>5. QED
    BY <1>2, <2>1, <2>2, <2>4 DEF LastRead
<1>7. ASSUME NEW d, NoRead(t), LastRead(s, d) PROVE LastRead(u, d)
  <2>1. PICK h \in 1..m : /\ s[h].what = "read" /\ s[h].dn = d
                          /\ \A k \in 1..m : k > h => s[k].what # "read"
    BY <1>2, <1>7 DEF LastRead
  <2>2. h \in 1..(m + n) /\ u[h] = s[h]
    BY <1>2
  <2>3. \A k \in 1..n : t[k].what # "read"
    BY <1>2, <1>7 DEF NoRead
  <2>4. \A k \in 1..(m + n) : k > h => u[k].what # "read"
    BY <1>2, <1>3, <2>1, <2>3
  <2>5. QED
    BY <1>2, <2>1, <2>2, <2>4 DEF LastRead
<1>8. QED
  BY <1>4, <1>5, <1>6, <1>7 DEF u

LEMMA ReadsOfOne ==
  ASSUME NEW x
  PROVE  /\ IsQueue(<<x>>)
         /\ NoRead(<<x>>) <=> x.what # "read"
         /\ \A d : LastRead(<<x>>, d) <=> x.what = "read" /\ x.dn = d
<1>1. <<x>> \in Seq({x})
  OBVIOUS
<1>2. IsQueue(<<x>>)
  BY <1>1, QueueIn
<1>3. DOMAIN <<x>> = {1} /\ <<x>>[1] = x /\ ~(1 > 1)
  OBVIOUS
<1>4. NoRead(<<x>>) <=> x.what # "read"
  BY <1>3 DEF NoRead
<1>5. \A d : LastRead(<<x>>, d) <=> x.what = "read" /\ x.dn = d
  BY <1>3 DEF LastRead
<1>6. QED
  BY <1>2, <1>4, <1>5

LEMMA ReadsOfNone == NoRead(<<>>) /\ \A d : ~LastRead(<<>>, d)
BY DEF NoRead, LastRead

LEMMA ReadsOfAppend ==
  ASSUME NEW s, IsQueue(s), NEW x
  PROVE  /\ NoRead(Append(s, x)) <=> NoRead(s) /\ x.what # "read"
         /\ \A d : LastRead(Append(s, x), d) <=>
                     (x.what = "read" /\ x.dn = d) \/ (x.what # "read" /\ LastRead(s, d))
<1> DEFINE S == ToSet(s) \cup {x}
<1>1. s \in Seq(S) /\ x \in S
  BY QueueWidens
<1> HIDE DEF S
<1>2. Append(s, x) = s \o <<x>>
  BY <1>1
<1>3. QED
  BY <1>2, ReadsOfConcat, ReadsOfOne

LEMMA ReadsOfTail ==
  ASSUME NEW s, IsQueue(s), s # <<>>
  PROVE  /\ NoRead(s) <=> Head(s).what # "read" /\ NoRead(Tail(s))
         /\ \A d : LastRead(s, d) <=>
                     \/ LastRead(Tail(s), d)
                     \/ NoRead(Tail(s)) /\ Head(s).what = "read" /\ Head(s).dn = d
<1> DEFINE S == ToSet(s)
           x == Head(s)
<1>1. s \in Seq(S)
  BY DEF IsQueue
<1>2. IsQueue(Tail(s))
  BY QueueTail
<1> HIDE DEF S
<1>3. s = <<x>> \o Tail(s)
  BY <1>1
<1> HIDE DEF x
<1>4. /\ NoRead(<<x>> \o Tail(s)) <=> NoRead(<<x>>) /\ NoRead(Tail(s))
      /\ \A d : LastRead(<<x>> \o Tail(s), d) <=>
                  LastRead(Tail(s), d) \/ (NoRead(Tail(s)) /\ LastRead(<<x>>, d))
  BY <1>2, ReadsOfOne, ReadsOfConcat
<1>5. QED
  BY <1>3, <1>4, ReadsOfOne DEF x

-----------------------------------------------------------------------------
(***************************************************************************)
(* What a step of the controller does to the place, the list as it is: it  *)
(* asks for another entry, or gives up the open one and has the list       *)
(* rebuilt, or leaves the open one and what the list shows alone.          *)
(***************************************************************************)
Quieter(s, t) ==
  /\ NoRead(s.sent) => NoRead(t.sent)
  /\ \A d : LastRead(s.sent, d) => LastRead(t.sent, d)

Still(s, t) ==
  /\ t.leaf = s.leaf /\ t.form = s.form
  /\ t.ver = s.ver /\ t.branch = s.branch /\ t.listDirty = s.listDirty

Goes(s, t) ==
  /\ t.list = s.list
  /\ s.listDirty => t.listDirty
  /\ Dirty(t) => Dirty(s)
  /\ \/ LastRead(t.sent, t.leaf)
     \/ t.leaf = NoDN /\ t.listDirty
     \/ /\ Quieter(s, t) /\ t.leaf = s.leaf /\ t.form.entry = s.form.entry
        /\ t.listDirty \/ Still(s, t)

LEMMA GoesOn ==
  ASSUME NEW s, NEW t, NEW u, Goes(s, t), Goes(t, u)
  PROVE  Goes(s, u)
<1>1. CASE LastRead(u.sent, u.leaf) \/ (u.leaf = NoDN /\ u.listDirty)
  BY <1>1 DEF Goes
<1>2. CASE /\ Quieter(t, u) /\ u.leaf = t.leaf /\ u.form.entry = t.form.entry
           /\ u.listDirty \/ Still(t, u)
  <2>1. CASE LastRead(t.sent, t.leaf)
    BY <1>2, <2>1 DEF Goes, Quieter
  <2>2. CASE t.leaf = NoDN /\ t.listDirty
    BY <1>2, <2>2 DEF Goes
  <2>3. CASE /\ Quieter(s, t) /\ t.leaf = s.leaf /\ t.form.entry = s.form.entry
             /\ t.listDirty \/ Still(s, t)
    <3>1. Quieter(s, u)
      BY <1>2, <2>3 DEF Quieter
    <3>2. u.listDirty \/ Still(s, u)
      BY <1>2, <2>3 DEF Goes, Still
    <3>3. QED
      BY <1>2, <2>3, <3>1, <3>2 DEF Goes
  <2>4. QED
    BY <2>1, <2>2, <2>3 DEF Goes
<1>3. QED
  BY <1>1, <1>2 DEF Goes

LEMMA StillGoes ==
  ASSUME NEW s, NEW t, t.list = s.list, t.sent = s.sent, Still(s, t)
  PROVE  Goes(s, t)
BY DEF Goes, Still, Quieter, Dirty

LEMMA AwaitedOn ==
  ASSUME NEW s, NEW t, Quieter(s, t), NEW J, NEW A, NEW d, Awaited(s, J, A, d)
  PROVE  Awaited(t, J, A, d)
BY DEF Quieter, Awaited

LEMMA GoesKeeps ==
  ASSUME NEW s, NEW t, Goes(s, t), NEW J, NEW A, NEW M
  PROVE  /\ Followed(s, J, A, M) => Followed(t, J, A, M)
         /\ Moving(s, J, A, M) => Moving(t, J, A, M)
         /\ Right(s) => Moving(t, J, A, M) \/ Right(t)
         /\ t.ver = s.ver /\ Lost(s, J, A, M) => Lost(t, J, A, M)
<1>1. CASE LastRead(t.sent, t.leaf)
  <2>1. Awaited(t, J, A, t.leaf)
    BY <1>1 DEF Awaited
  <2>2. QED
    BY <2>1 DEF Followed, Moving, Lost
<1>2. CASE t.leaf = NoDN /\ t.listDirty
  BY <1>2 DEF Followed, Moving, Lost
<1>3. CASE /\ Quieter(s, t) /\ t.leaf = s.leaf /\ t.form.entry = s.form.entry
           /\ t.listDirty \/ Still(s, t)
  <2>1. \A d : Awaited(s, J, A, d) => Awaited(t, J, A, d)
    BY <1>3, AwaitedOn
  <2>2. Followed(s, J, A, M) => Followed(t, J, A, M)
    BY <1>3, <2>1 DEF Followed, Quieter
  <2>3. Moving(s, J, A, M) => Moving(t, J, A, M)
    BY <1>3, <2>1 DEF Moving, Goes
  <2>4. Right(s) => Moving(t, J, A, M) \/ Right(t)
    BY <1>3 DEF Moving, Right, Shown, Goes
  <2>5. t.ver = s.ver /\ Lost(s, J, A, M) => Lost(t, J, A, M)
    BY <1>3, <2>1 DEF Lost, Goes
  <2>6. QED
    BY <2>2, <2>3, <2>4, <2>5
<1>4. QED
  BY <1>1, <1>2, <1>3 DEF Goes

\* What a step leaves of what the place is told by, beside the entry asked for.
Wants(s, t) ==
  /\ t.wantLeaf = s.wantLeaf /\ t.wantBranch = s.wantBranch
  /\ t.guard = s.guard /\ t.post = s.post

LEMMA RereadGoes ==
  ASSUME NEW s, Shape(s), NEW d
  PROVE  /\ Goes(s, Reread(s, d)) /\ Wants(s, Reread(s, d))
         /\ LastRead(Reread(s, d).sent, Reread(s, d).leaf)
         /\ Reread(s, d).ver = s.ver /\ Reread(s, d).nav = s.nav
<1> DEFINE t == Reread(s, d)
           x == [what |-> "read", dn |-> d]
<1>1. x.what = "read" /\ x.dn = d
  OBVIOUS
<1>2. /\ t.sent = Append(s.sent, x) /\ t.leaf = d /\ t.list = s.list /\ t.form = s.form
      /\ t.listDirty = s.listDirty /\ t.ver = s.ver /\ t.nav = s.nav
      /\ t.wantLeaf = s.wantLeaf /\ t.wantBranch = s.wantBranch
      /\ t.guard = s.guard /\ t.post = s.post
  BY DEF Reread, Shape, UiParts
<1> HIDE DEF t, x
<1>3. LastRead(t.sent, d)
  BY <1>1, <1>2, ReadsOfAppend DEF Shape
<1>4. Goes(s, t) /\ Wants(s, t)
  BY <1>2, <1>3 DEF Goes, Wants, Dirty
<1>5. QED
  BY <1>2, <1>3, <1>4 DEF t

LEMMA CommitGoes ==
  ASSUME NEW s, Shape(s), NEW d
  PROVE  /\ Goes(s, CommitBranch(s, d)) /\ Wants(s, CommitBranch(s, d))
         /\ CommitBranch(s, d).ver = s.ver /\ CommitBranch(s, d).listDirty
         /\ CommitBranch(s, d).latest = 0 /\ CommitBranch(s, d).nav = s.nav
<1> DEFINE t == CommitBranch(s, d)
<1>1. /\ t.sent = s.sent /\ t.leaf = s.leaf /\ t.list = s.list /\ t.form = s.form
      /\ t.listDirty /\ t.ver = s.ver /\ t.latest = 0 /\ t.nav = s.nav
      /\ t.wantLeaf = s.wantLeaf /\ t.wantBranch = s.wantBranch
      /\ t.guard = s.guard /\ t.post = s.post
  BY DEF CommitBranch, Shape, UiParts
<1> HIDE DEF t
<1>2. Goes(s, t) /\ Wants(s, t)
  BY <1>1 DEF Goes, Wants, Dirty, Quieter
<1>3. QED
  BY <1>1, <1>2 DEF t

\* The entry asked for: asked for now, or no other, or asked about first.
LEMMA SelectionGoes ==
  ASSUME NEW s, Shape(s)
  PROVE  LET t == ReconcileSelection(s) IN
         /\ Goes(s, t) /\ t.ver = s.ver /\ t.nav = s.nav /\ t.wantLeaf = NoDN /\ t.wantBranch = s.wantBranch
         /\ \/ LastRead(t.sent, t.leaf) /\ t.guard = s.guard /\ t.post = s.post
            \/ Still(s, t) /\ s.wantLeaf \in {NoDN, s.leaf} /\ t.guard = s.guard /\ t.post = s.post
            \/ Still(s, t) /\ Dirty(s) /\ s.wantLeaf # NoDN /\ t.guard.kind = "leaf" /\ t.post
<1> DEFINE t == ReconcileSelection(s)
           c == [s EXCEPT !.wantLeaf = NoDN]
           g == [c EXCEPT !.guard = Target("leaf", s.wantLeaf), !.post = TRUE]
           k == Target("leaf", s.wantLeaf)
<1>1. \/ s.wantLeaf \in {NoDN, s.leaf} /\ t = c
      \/ s.wantLeaf \notin {NoDN, s.leaf} /\ Dirty(c) /\ t = g
      \/ t = Reread(c, s.wantLeaf)
  BY DEF ReconcileSelection, Shape, UiParts, Dirty
<1>2. k.kind = "leaf"
  BY DEF Target
<1> HIDE DEF k
<1>3. /\ DOMAIN c = UiParts /\ c.sent = s.sent /\ c.leaf = s.leaf /\ c.list = s.list
      /\ c.form = s.form /\ c.nav = s.nav /\ c.ver = s.ver /\ c.branch = s.branch
      /\ c.listDirty = s.listDirty /\ c.wantLeaf = NoDN /\ c.wantBranch = s.wantBranch
      /\ c.guard = s.guard /\ c.post = s.post
  BY DEF Shape, UiParts
<1>4. /\ g.sent = s.sent /\ g.leaf = s.leaf /\ g.list = s.list
      /\ g.form = s.form /\ g.nav = s.nav /\ g.ver = s.ver /\ g.branch = s.branch
      /\ g.listDirty = s.listDirty /\ g.wantLeaf = NoDN /\ g.wantBranch = s.wantBranch
      /\ g.guard = k /\ g.post = TRUE
  BY DEF Shape, UiParts, k
<1> HIDE DEF c, g
<1>5. Still(s, c) /\ Goes(s, c) /\ Shape(c)
  BY <1>3, StillGoes DEF Still, Shape
<1>6. Still(s, g) /\ Goes(s, g)
  BY <1>4, StillGoes DEF Still
<1> DEFINE e == Reread(c, s.wantLeaf)
<1>7. Goes(c, e) /\ Wants(c, e) /\ LastRead(e.sent, e.leaf) /\ e.ver = c.ver /\ e.nav = c.nav
  BY <1>5, RereadGoes
<1> HIDE DEF e, t
<1>8. Goes(s, e)
  BY <1>5, <1>7, GoesOn
<1>9. CASE s.wantLeaf \in {NoDN, s.leaf} /\ t = c
  BY <1>3, <1>5, <1>9 DEF t
<1>10. CASE s.wantLeaf \notin {NoDN, s.leaf} /\ Dirty(c) /\ t = g
  BY <1>2, <1>3, <1>4, <1>6, <1>10 DEF t, Dirty
<1>11. CASE t = e
  BY <1>3, <1>7, <1>8, <1>11 DEF t, Wants
<1>12. QED
  BY <1>1, <1>9, <1>10, <1>11 DEF e

\* The container asked for: gone to, which rebuilds the list, or asked about.
LEMMA BranchGoes ==
  ASSUME NEW s, Shape(s)
  PROVE  LET t == ReconcileBranch(s) IN
         /\ Goes(s, t) /\ t.ver = s.ver /\ t.nav = s.nav /\ t.wantLeaf = s.wantLeaf /\ t.wantBranch = NoDN
         /\ \/ t.guard = s.guard /\ t.post = s.post
            \/ Dirty(s) /\ s.wantBranch # NoDN /\ t.guard.kind = "branch" /\ t.post
<1> DEFINE t == ReconcileBranch(s)
           c == [s EXCEPT !.wantBranch = NoDN]
           g == [c EXCEPT !.guard = Target("branch", s.wantBranch), !.post = TRUE]
           k == Target("branch", s.wantBranch)
<1>1. t = c \/ (s.wantBranch # NoDN /\ Dirty(c) /\ t = g) \/ t = CommitBranch(c, s.wantBranch)
  BY DEF ReconcileBranch, Shape, UiParts, Dirty
<1>2. k.kind = "branch"
  BY DEF Target
<1> HIDE DEF k
<1>3. /\ DOMAIN c = UiParts /\ c.sent = s.sent /\ c.leaf = s.leaf /\ c.list = s.list
      /\ c.form = s.form /\ c.nav = s.nav /\ c.ver = s.ver /\ c.branch = s.branch
      /\ c.listDirty = s.listDirty /\ c.wantLeaf = s.wantLeaf /\ c.wantBranch = NoDN
      /\ c.guard = s.guard /\ c.post = s.post
  BY DEF Shape, UiParts
<1>4. /\ g.sent = s.sent /\ g.leaf = s.leaf /\ g.list = s.list
      /\ g.form = s.form /\ g.nav = s.nav /\ g.ver = s.ver /\ g.branch = s.branch
      /\ g.listDirty = s.listDirty /\ g.wantLeaf = s.wantLeaf /\ g.wantBranch = NoDN
      /\ g.guard = k /\ g.post = TRUE
  BY DEF Shape, UiParts, k
<1> HIDE DEF c, g
<1>5. Goes(s, c) /\ Shape(c)
  BY <1>3, StillGoes DEF Still, Shape
<1>6. Goes(s, g)
  BY <1>4, StillGoes DEF Still
<1> DEFINE e == CommitBranch(c, s.wantBranch)
<1>7. Goes(c, e) /\ Wants(c, e) /\ e.ver = c.ver /\ e.nav = c.nav
  BY <1>5, CommitGoes
<1> HIDE DEF e, t
<1>8. Goes(s, e)
  BY <1>5, <1>7, GoesOn
<1>9. CASE t = c
  BY <1>3, <1>5, <1>9 DEF t
<1>10. CASE s.wantBranch # NoDN /\ Dirty(c) /\ t = g
  BY <1>2, <1>3, <1>4, <1>6, <1>10 DEF t, Dirty
<1>11. CASE t = e
  BY <1>3, <1>7, <1>8, <1>11 DEF t, Wants
<1>12. QED
  BY <1>1, <1>9, <1>10, <1>11 DEF e

LEMMA TreeGoes ==
  ASSUME NEW s, Shape(s)
  PROVE  LET t == RefreshTree(s) IN
         Goes(s, t) /\ Wants(s, t) /\ t.ver = s.ver /\ t.nav = s.nav
<1> DEFINE t == RefreshTree(s)
<1>1. /\ t.sent = s.sent /\ t.leaf = s.leaf /\ t.list = s.list
      /\ t.form = s.form /\ t.nav = s.nav /\ t.ver = s.ver /\ t.branch = s.branch
      /\ t.listDirty = s.listDirty /\ t.wantLeaf = s.wantLeaf /\ t.wantBranch = s.wantBranch
      /\ t.guard = s.guard /\ t.post = s.post
  BY DEF RefreshTree, RebuildTree, Shape, UiParts
<1> HIDE DEF t
<1>2. Goes(s, t) /\ Wants(s, t)
  BY <1>1, StillGoes DEF Still, Wants
<1>3. QED
  BY <1>1, <1>2 DEF t

LEMMA RestsOn ==
  ASSUME NEW s, NEW t, Goes(s, t), NEW J, NEW A, NEW M, AtRest(s, J, A, M)
  PROVE  AtRest(t, J, A, M)
<1>1. CASE Moving(t, J, A, M)
  BY <1>1 DEF AtRest
<1>2. CASE ~Moving(t, J, A, M)
  <2>1. ~LastRead(t.sent, t.leaf) /\ ~t.listDirty
    BY <1>2 DEF Moving, Awaited
  <2>2. Still(s, t) /\ t.list = s.list
    BY <2>1 DEF Goes
  <2>3. ~Moving(s, J, A, M)
    BY <1>2, GoesKeeps
  <2>4. QED
    BY <2>2, <2>3 DEF AtRest, Still, Dirty, Shown, Held
<1>3. QED
  BY <1>1, <1>2

(***************************************************************************)
(* The list rebuilt: the highlight is on the open entry where it is listed *)
(* and otherwise the form is told where to go, unless something forbids.   *)
(***************************************************************************)
LEMMA RepopulatePlaces ==
  ASSUME NEW s, UiTyped(s), NEW J, NEW A, NEW M
  PROVE  LET t == Repopulate(s) IN
         /\ Right(t) /\ Led(t, J, A, M)
         /\ t.sent = s.sent /\ t.leaf = s.leaf /\ t.form = s.form /\ t.nav = s.nav
         /\ t.ver = s.ver /\ t.branch = s.branch /\ t.latest = s.latest
         /\ t.wantBranch = s.wantBranch /\ t.guard = s.guard /\ t.post = s.post
         /\ t.wantLeaf = s.wantLeaf \/ ~Dirty(s)
<1> DEFINE t     == Repopulate(s)
           rows  == LeafRows(s)
           dns   == RowDns(rows)
           other == Kept(dns, DNs \ {s.branch})
           plan  == LeafHighlightPlan(s)
           at    == IF rows = <<>> THEN 0
                    ELSE IF plan.dn \in ToSet(dns) THEN IndexOf(dns, plan.dn) ELSE 1
<1>1. /\ dns \in Seq(DNs) /\ DOMAIN dns = DOMAIN rows
  BY RowsTyped
<1>2. NoDN \notin DNs
  BY NavigationAssumption
<1>3. /\ t.list = [rows |-> rows, row |-> at]
      /\ t.sent = s.sent /\ t.leaf = s.leaf /\ t.form = s.form /\ t.nav = s.nav
      /\ t.ver = s.ver /\ t.branch = s.branch /\ t.latest = s.latest
      /\ t.wantBranch = s.wantBranch /\ t.guard = s.guard /\ t.post = s.post
      /\ t.wantLeaf = IF plan.move = "follow" THEN plan.dn ELSE s.wantLeaf
  BY DEF Repopulate, UiTyped, Shape, UiParts
<1>4. plan = IF s.leaf # NoDN /\ s.leaf \in ToSet(dns) THEN [move |-> "pin", dn |-> s.leaf]
             ELSE IF other = <<>> THEN [move |-> "clear", dn |-> NoDN]
             ELSE [move |-> IF Dirty(s) \/ (s.leaf = NoDN /\ s.form # NoForm)
                            THEN "pin" ELSE "follow", dn |-> other[1]]
  BY DEF LeafHighlightPlan
<1>5. ToSet(dns) \subseteq DNs
  BY <1>1 DEF ToSet
<1>6. other \in Seq(DNs \cap (DNs \ {s.branch})) /\ ToSet(other) = ToSet(dns) \cap (DNs \ {s.branch})
  BY <1>1, KeptFacts
<1>7. rows = <<>> => dns = <<>>
  BY DEF RowDns
<1> HIDE DEF t, plan, other, dns, rows
<1>8. Shown(t) = dns /\ t.list.row = at
  BY <1>3 DEF Shown, dns
<1> HIDE DEF at
<1>9. s.wantLeaf = t.wantLeaf \/ ~Dirty(s)
  BY <1>3, <1>4
<1>10. CASE s.leaf \in ToSet(dns)
  <2>1. s.leaf # NoDN /\ plan.dn = s.leaf
    BY <1>2, <1>4, <1>5, <1>10
  <2>2. PICK i \in DOMAIN dns : dns[i] = s.leaf
    BY <1>10 DEF ToSet
  <2>3. rows # <<>>
    BY <1>7, <2>2
  <2>4. at = IndexOf(dns, s.leaf)
    BY <1>10, <2>1, <2>3 DEF at
  <2>5. dns[at] = s.leaf
    BY <2>2, <2>4 DEF IndexOf
  <2>6. Right(t)
    BY <1>3, <1>8, <2>5 DEF Right
  <2>7. Led(t, J, A, M)
    BY <1>3, <1>8, <1>10 DEF Led, AtRest
  <2>8. QED
    BY <1>3, <1>9, <2>6, <2>7 DEF t
<1>11. CASE s.leaf \notin ToSet(dns)
  <2>1. Right(t)
    BY <1>3, <1>8, <1>11 DEF Right
  <2>2. CASE other = <<>>
    <3>1. ToSet(dns) \subseteq {s.branch}
      BY <1>5, <1>6, <2>2 DEF ToSet
    <3>2. QED
      BY <1>3, <1>8, <1>9, <2>1, <3>1 DEF Led, AtRest, t
  <2>3. CASE Dirty(s) \/ (s.leaf = NoDN /\ s.form # NoForm)
    <3>1. Dirty(t) \/ Held(t)
      BY <1>3, <2>3 DEF Dirty, Held
    <3>2. QED
      BY <1>3, <1>8, <1>9, <2>1, <3>1 DEF Led, AtRest, t
  <2>4. CASE other # <<>> /\ ~(Dirty(s) \/ (s.leaf = NoDN /\ s.form # NoForm))
    <3>1. t.wantLeaf = other[1]
      BY <1>3, <1>4, <1>11, <2>4
    <3>2. 1 \in DOMAIN other
      BY <1>6, <2>4
    <3>3. other[1] \in ToSet(other)
      BY <3>2 DEF ToSet
    <3>4. t.wantLeaf \in ToSet(dns) /\ t.wantLeaf # NoDN
      BY <1>2, <1>5, <1>6, <3>1, <3>3
    <3>5. QED
      BY <1>3, <1>8, <1>9, <2>1, <3>4 DEF Led, t
  <2>5. QED
    BY <2>2, <2>3, <2>4
<1>12. QED
  BY <1>10, <1>11

(***************************************************************************)
(* An answer.                                                              *)
(***************************************************************************)
LEMMA SavedGoes ==
  ASSUME NEW s, Shape(s), NEW r
  PROVE  /\ \/ OnSaved(s, r) = s
            \/ LET t == OnSaved(s, r) IN
               /\ Goes(s, t) /\ Wants(s, t) /\ LastRead(t.sent, t.leaf) /\ t.ver = s.ver
         /\ \/ OnCreated(s, r) = s
            \/ LET t == OnCreated(s, r) IN
               /\ Goes(s, t) /\ Wants(s, t) /\ LastRead(t.sent, t.leaf) /\ t.ver = s.ver
<1> DEFINE n == [s EXCEPT !.nav = NoDN]
           f == [s EXCEPT !.form = NoForm]
           d == IF s.nav # NoDN THEN s.nav ELSE r.dn
           u == Reread(n, d)
           v == Reread(f, r.dn)
<1>1. OnSaved(s, r) \in {s, u} /\ OnCreated(s, r) \in {s, v}
  BY DEF OnSaved, OnCreated
<1> HIDE DEF d
<1>2. /\ Shape(n) /\ n.list = s.list /\ n.listDirty = s.listDirty /\ n.form = s.form
      /\ n.ver = s.ver /\ n.wantLeaf = s.wantLeaf /\ n.wantBranch = s.wantBranch
      /\ n.guard = s.guard /\ n.post = s.post
  BY DEF Shape, UiParts
<1>3. /\ Shape(f) /\ f.list = s.list /\ f.listDirty = s.listDirty /\ f.form = NoForm
      /\ f.ver = s.ver /\ f.wantLeaf = s.wantLeaf /\ f.wantBranch = s.wantBranch
      /\ f.guard = s.guard /\ f.post = s.post
  BY DEF Shape, UiParts
<1> HIDE DEF n, f
<1>4. Goes(n, u) /\ Wants(n, u) /\ LastRead(u.sent, u.leaf) /\ u.ver = n.ver
  BY <1>2, RereadGoes
<1>5. Goes(f, v) /\ Wants(f, v) /\ LastRead(v.sent, v.leaf) /\ v.ver = f.ver
  BY <1>3, RereadGoes
<1> HIDE DEF u, v
<1>6. Goes(s, u) /\ Wants(s, u)
  BY <1>2, <1>4 DEF Goes, Wants, Dirty
<1>7. Goes(s, v) /\ Wants(s, v)
  <2>1. ~NoForm.dirty
    BY DEF NoForm
  <2>2. QED
    BY <1>3, <1>5, <2>1 DEF Goes, Wants, Dirty
<1>8. QED
  BY <1>1, <1>2, <1>3, <1>4, <1>5, <1>6, <1>7

LEMMA FindGoes ==
  ASSUME NEW s, Shape(s), NEW r
  PROVE  LET t == OnFind(s, r) IN
         /\ Goes(s, t) /\ Wants(s, t)
         /\ t = s \/ (r.id = s.latest /\ t.listDirty)
<1> DEFINE t == OnFind(s, r)
           u == UpsertHits(s, r)
<1>1. /\ DOMAIN u = UiParts /\ u.sent = s.sent /\ u.leaf = s.leaf /\ u.list = s.list
      /\ u.form = s.form /\ u.wantLeaf = s.wantLeaf /\ u.wantBranch = s.wantBranch
      /\ u.guard = s.guard /\ u.post = s.post
  BY DEF UpsertHits, Shape, UiParts
<1> DEFINE h == [dns |-> r.hits, branch |-> r.ask.branch, term |-> r.ask.term]
           a == [u EXCEPT !.hits = h, !.listDirty = TRUE]
           e == [s EXCEPT !.hits = NoHits, !.listDirty = TRUE]
<1>2. t = s \/ (r.id = s.latest /\ t \in {a, e})
  BY DEF OnFind, AcceptsFind
<1> HIDE DEF u, t, h
<1>3. \A x \in {a, e} :
        /\ x.sent = s.sent /\ x.leaf = s.leaf /\ x.list = s.list /\ x.listDirty
        /\ x.form = s.form /\ x.wantLeaf = s.wantLeaf /\ x.wantBranch = s.wantBranch
        /\ x.guard = s.guard /\ x.post = s.post
  BY <1>1 DEF Shape, UiParts
<1> HIDE DEF a, e
<1>4. \A x \in {a, e} : Goes(s, x) /\ Wants(s, x)
  BY <1>3 DEF Goes, Wants, Dirty, Quieter
<1>5. Goes(s, s) /\ Wants(s, s)
  BY StillGoes DEF Still, Wants
<1>6. QED
  BY <1>2, <1>3, <1>4, <1>5 DEF t

\* What has been read is put into the structure and the form.
LEMMA ReadGoes ==
  ASSUME NEW s, Shape(s), NEW r
  PROVE  LET t == OnRead(s, r) IN
         /\ t.list = s.list /\ Wants(s, t)
         /\ ~r.ok => t = s
         /\ r.ok => /\ t.listDirty /\ t.leaf = s.leaf /\ t.sent = s.sent
                    /\ t.form.entry = r.dn /\ ~Dirty(t)
<1> DEFINE t == OnRead(s, r)
           u == Upsert(s, r.dn, r.ver)
           f == [entry |-> r.dn, dirty |-> FALSE]
<1>1. t = IF r.ok THEN [u EXCEPT !.form = f] ELSE s
  BY DEF OnRead
<1>2. /\ DOMAIN u = UiParts /\ u.sent = s.sent /\ u.leaf = s.leaf /\ u.list = s.list
      /\ u.listDirty = TRUE /\ u.wantLeaf = s.wantLeaf /\ u.wantBranch = s.wantBranch
      /\ u.guard = s.guard /\ u.post = s.post
  BY DEF Upsert, Shape, UiParts
<1> HIDE DEF u, t
<1>3. CASE r.ok
  BY <1>1, <1>2, <1>3 DEF UiParts, Dirty, Wants, t
<1>4. CASE ~r.ok
  BY <1>1, <1>4 DEF Wants, t
<1>5. QED
  BY <1>3, <1>4

LEMMA PolledGoes ==
  ASSUME NEW s, Shape(s), NEW r, r.what \in {"read", "save", "create", "find"}
  PROVE  LET t == Polled(s, r) IN
         /\ t.list = s.list /\ Wants(s, t) /\ (Dirty(t) => Dirty(s))
         /\ t = s \/ t.listDirty \/ LastRead(t.sent, t.leaf)
         /\ r.what # "read" => Goes(s, t)
         /\ r.what = "read" /\ ~r.ok => t = s
         /\ r.what = "read" /\ r.ok => /\ t.listDirty /\ t.leaf = s.leaf /\ t.sent = s.sent
                                       /\ t.form.entry = r.dn /\ ~Dirty(t)
         /\ (r.what = "find" => r.id # s.latest) /\ Dirty(t) => t.ver = s.ver
<1> DEFINE t == Polled(s, r)
<1>1. Goes(s, s) /\ Wants(s, s)
  BY StillGoes DEF Still, Wants
<1>2. CASE r.what = "read"
  <2>1. t = OnRead(s, r)
    BY <1>2 DEF Polled
  <2> HIDE DEF t
  <2>2. /\ t.list = s.list /\ Wants(s, t) /\ (~r.ok => t = s)
        /\ r.ok => /\ t.listDirty /\ t.leaf = s.leaf /\ t.sent = s.sent
                   /\ t.form.entry = r.dn /\ ~Dirty(t)
    BY <2>1, ReadGoes
  <2>3. QED
    BY <1>2, <2>2 DEF t
<1>3. CASE r.what = "find"
  <2>1. t = OnFind(s, r)
    BY <1>3 DEF Polled
  <2> HIDE DEF t
  <2>2. Goes(s, t) /\ Wants(s, t) /\ (t = s \/ (r.id = s.latest /\ t.listDirty))
    BY <2>1, FindGoes
  <2>3. QED
    BY <1>3, <2>2 DEF t, Goes
<1>4. CASE r.what \in {"save", "create"}
  <2>1. t \in {OnSaved(s, r), OnCreated(s, r)}
    BY <1>4 DEF Polled
  <2> HIDE DEF t
  <2>2. \/ t = s
        \/ Goes(s, t) /\ Wants(s, t) /\ LastRead(t.sent, t.leaf) /\ t.ver = s.ver
    BY <2>1, SavedGoes
  <2>3. QED
    BY <1>1, <1>4, <2>2 DEF t, Goes
<1>5. QED
  BY <1>2, <1>3, <1>4

\* The entries the last read of which failed, after answer r.
Missing(M, r) ==
  IF r.what = "read" THEN IF r.ok THEN M \ {r.dn} ELSE M \cup {r.dn} ELSE M

LEMMA AnswerTaken ==
  ASSUME NEW s, NEW J, NEW A, IsQueue(A), A # <<>>, NEW d
  PROVE  /\ Awaited(s, J, A, d) => \/ Awaited(s, J, Tail(A), d)
                                   \/ /\ Head(A).what = "read" /\ Head(A).dn = d
                                      /\ NoRead(s.sent) /\ NoRead(J) /\ NoRead(Tail(A))
         /\ NoRead(A) => Head(A).what # "read" /\ NoRead(Tail(A))
<1> DEFINE r == Head(A)
           B == Tail(A)
<1>1. /\ NoRead(A) <=> r.what # "read" /\ NoRead(B)
      /\ LastRead(A, d) <=> LastRead(B, d) \/ (NoRead(B) /\ r.what = "read" /\ r.dn = d)
  BY ReadsOfTail
<1> HIDE DEF r, B
<1>2. /\ Awaited(s, J, A, d) => \/ Awaited(s, J, B, d)
                                \/ /\ r.what = "read" /\ r.dn = d
                                   /\ NoRead(s.sent) /\ NoRead(J) /\ NoRead(B)
      /\ NoRead(A) => r.what # "read" /\ NoRead(B)
  BY <1>1 DEF Awaited
<1>3. QED
  BY <1>2 DEF r, B

LEMMA PolledPlaces ==
  ASSUME NEW s, Shape(s), NEW J, NEW A, IsQueue(A), A # <<>>, NEW M,
         Head(A).what \in {"read", "save", "create", "find"}
  PROVE  LET r == Head(A)
             t == Polled(s, r)
             B == Tail(A)
             N == Missing(M, r)
         IN  /\ Followed(s, J, A, M) => Followed(t, J, B, N)
             /\ Moving(s, J, A, M) => Moving(t, J, B, N)
             /\ Right(s) => Moving(t, J, B, N) \/ Right(t)
             /\ AtRest(s, J, A, M) => AtRest(t, J, B, N)
             /\ Led(s, J, A, M) => Led(t, J, B, N)
             /\ (r.what = "find" => r.id # s.latest) /\ Lost(s, J, A, M) => Lost(t, J, B, N)
<1> DEFINE r == Head(A)
           t == Polled(s, r)
           B == Tail(A)
           N == Missing(M, r)
<1>1. \A d : /\ Awaited(s, J, A, d) => \/ Awaited(s, J, B, d)
                                       \/ /\ r.what = "read" /\ r.dn = d
                                          /\ NoRead(s.sent) /\ NoRead(J) /\ NoRead(B)
             /\ NoRead(A) => r.what # "read" /\ NoRead(B)
  BY AnswerTaken
<1>2. /\ t.list = s.list /\ Wants(s, t)
      /\ t = s \/ t.listDirty \/ LastRead(t.sent, t.leaf)
      /\ r.what # "read" => Goes(s, t)
      /\ r.what = "read" /\ ~r.ok => t = s
      /\ r.what = "read" /\ r.ok => /\ t.listDirty /\ t.leaf = s.leaf /\ t.sent = s.sent
                                    /\ t.form.entry = r.dn /\ ~Dirty(t)
      /\ (r.what = "find" => r.id # s.latest) /\ Dirty(t) => t.ver = s.ver
  BY PolledGoes
<1>3. N = IF r.what = "read" THEN IF r.ok THEN M \ {r.dn} ELSE M \cup {r.dn} ELSE M
  BY DEF Missing
<1> HIDE DEF r, t, B, N
<1>4. CASE r.what # "read"
  <2>1. N = M /\ Goes(s, t)
    BY <1>2, <1>3, <1>4
  <2>2. \A d : Awaited(s, J, A, d) => Awaited(s, J, B, d)
    BY <1>1, <1>4
  <2>3. Followed(s, J, A, M) => Followed(s, J, B, M)
    BY <1>1, <2>2 DEF Followed
  <2>4. /\ Moving(s, J, A, M) => Moving(s, J, B, M)
        /\ Lost(s, J, A, M) => Lost(s, J, B, M)
    BY <2>2 DEF Moving, Lost
  <2>5. AtRest(s, J, A, M) => AtRest(s, J, B, M)
    BY <2>4 DEF AtRest
  <2>6. /\ Followed(s, J, B, M) => Followed(t, J, B, M)
        /\ Moving(s, J, B, M) => Moving(t, J, B, M)
        /\ Right(s) => Moving(t, J, B, M) \/ Right(t)
        /\ t.ver = s.ver /\ Lost(s, J, B, M) => Lost(t, J, B, M)
    BY <2>1, GoesKeeps
  <2>7. AtRest(s, J, B, M) => AtRest(t, J, B, M)
    BY <2>1, RestsOn
  <2>8. ASSUME s.wantLeaf # NoDN, s.wantLeaf \in ToSet(Shown(s)) PROVE Led(t, J, B, M)
    BY <1>2, <2>8 DEF Led, Wants, Shown
  <2>9. (r.what = "find" => r.id # s.latest) /\ Lost(s, J, A, M) => Lost(t, J, B, M)
    BY <1>2, <2>4, <2>6 DEF Lost
  <2>10. Led(s, J, A, M) => Led(t, J, B, M)
    BY <2>5, <2>7, <2>8 DEF Led
  <2>11. QED
    BY <2>1, <2>3, <2>4, <2>5, <2>6, <2>7, <2>9, <2>10 DEF r, t, B, N
<1>5. CASE r.what = "read" /\ ~r.ok
  <2>1. t = s /\ N = M \cup {r.dn} /\ ~NoRead(A)
    BY <1>1, <1>2, <1>3, <1>5
  <2>2. \A d : Awaited(s, J, A, d) => Awaited(s, J, B, d) \/ d \in N
    BY <1>1, <2>1
  <2>3. Followed(s, J, A, M) => Followed(s, J, B, N)
    BY <1>1, <2>1 DEF Followed
  <2>4. /\ Moving(s, J, A, M) => Moving(s, J, B, N)
        /\ Lost(s, J, A, M) => Lost(s, J, B, N)
    BY <2>1, <2>2 DEF Moving, Lost
  <2>5. /\ AtRest(s, J, A, M) => AtRest(s, J, B, N)
        /\ Led(s, J, A, M) => Led(s, J, B, N)
    BY <2>4 DEF AtRest, Led
  <2>6. QED
    BY <2>1, <2>3, <2>4, <2>5 DEF r, t, B, N
<1>6. CASE r.what = "read" /\ r.ok
  <2>1. Moving(t, J, B, N) /\ Lost(t, J, B, N)
    BY <1>2, <1>6 DEF Moving, Lost
  <2>2. AtRest(t, J, B, N) /\ Led(t, J, B, N)
    BY <2>1 DEF AtRest, Led
  <2>3. Followed(s, J, A, M) => Followed(t, J, B, N)
    <3>1. \A d : Awaited(s, J, B, d) => Awaited(t, J, B, d)
      BY <1>2, <1>6 DEF Awaited
    <3>2. QED
      BY <1>1, <1>2, <1>6, <3>1 DEF Followed
  <2>4. QED
    BY <2>1, <2>2, <2>3 DEF r, t, B, N
<1>7. QED
  BY <1>4, <1>5, <1>6

(***************************************************************************)
(* After the answer: the selections, and the tree.                         *)
(***************************************************************************)
Chosen(p) == RefreshTree(ReconcileBranch(ReconcileSelection(p)))

LEMMA ChosenGoes ==
  ASSUME NEW p, UiTyped(p)
  PROVE  LET t == Chosen(p) IN
         /\ Goes(p, t) /\ t.ver = p.ver /\ t.nav = p.nav /\ t.wantLeaf = NoDN /\ t.wantBranch = NoDN
         /\ \/ LastRead(t.sent, t.leaf)
            \/ t.leaf = NoDN /\ t.listDirty
            \/ p.wantLeaf \in {NoDN, p.leaf}
            \/ Dirty(p) /\ (p.wantBranch = NoDN => t.guard.kind = "leaf" /\ t.post)
         /\ t.guard = p.guard \/ t.guard.kind \in {"leaf", "branch"}
         /\ p.wantBranch = NoDN => t.guard = p.guard \/ t.guard.kind = "leaf"
         /\ p.wantBranch = NoDN /\ (p.wantLeaf # NoDN => ~Dirty(p)) => t.post = p.post
         /\ t.post = p.post \/ t.guard.kind \in {"leaf", "branch"}
<1> DEFINE a == ReconcileSelection(p)
           b == ReconcileBranch(a)
           t == RefreshTree(b)
<1>1. /\ Goes(p, a) /\ a.ver = p.ver /\ a.nav = p.nav /\ a.wantLeaf = NoDN /\ a.wantBranch = p.wantBranch
      /\ \/ LastRead(a.sent, a.leaf) /\ a.guard = p.guard /\ a.post = p.post
         \/ Still(p, a) /\ p.wantLeaf \in {NoDN, p.leaf} /\ a.guard = p.guard /\ a.post = p.post
         \/ Still(p, a) /\ Dirty(p) /\ p.wantLeaf # NoDN /\ a.guard.kind = "leaf" /\ a.post
  BY SelectionGoes DEF UiTyped
<1>2. Shape(a)
  BY SelectionKeeps DEF Keeps, UiTyped
<1>3. Shape(b)
  BY SelectionKeeps, BranchKeeps DEF Keeps, UiTyped
<1> HIDE DEF a
<1>4. /\ Goes(a, b) /\ b.ver = a.ver /\ b.nav = a.nav /\ b.wantLeaf = a.wantLeaf /\ b.wantBranch = NoDN
      /\ \/ b.guard = a.guard /\ b.post = a.post
         \/ Dirty(a) /\ a.wantBranch # NoDN /\ b.guard.kind = "branch" /\ b.post
  BY <1>2, BranchGoes
<1> HIDE DEF b
<1>5. Goes(b, t) /\ Wants(b, t) /\ t.ver = b.ver /\ t.nav = b.nav
  BY <1>3, TreeGoes
<1> HIDE DEF t
<1>6. Goes(p, t) /\ Goes(a, t)
  BY <1>1, <1>4, <1>5, GoesOn
<1>7. t.ver = p.ver /\ t.nav = p.nav /\ t.wantLeaf = NoDN /\ t.wantBranch = NoDN
  BY <1>1, <1>4, <1>5 DEF Wants
<1>8. LastRead(a.sent, a.leaf) => LastRead(t.sent, t.leaf) \/ (t.leaf = NoDN /\ t.listDirty)
  BY <1>6 DEF Goes, Quieter
<1>9. \/ LastRead(t.sent, t.leaf)
      \/ t.leaf = NoDN /\ t.listDirty
      \/ p.wantLeaf \in {NoDN, p.leaf}
      \/ Dirty(p) /\ (p.wantBranch = NoDN => t.guard.kind = "leaf" /\ t.post)
  BY <1>1, <1>4, <1>5, <1>8 DEF Wants
<1>10. /\ t.guard = p.guard \/ t.guard.kind \in {"leaf", "branch"}
       /\ p.wantBranch = NoDN => t.guard = p.guard \/ t.guard.kind = "leaf"
       /\ p.wantBranch = NoDN /\ (p.wantLeaf # NoDN => ~Dirty(p)) => t.post = p.post
       /\ t.post = p.post \/ t.guard.kind \in {"leaf", "branch"}
  BY <1>1, <1>4, <1>5 DEF Wants
<1>11. QED
  BY <1>6, <1>7, <1>9, <1>10 DEF Chosen, a, b, t

\* What was asked for has been seen to: at rest, or told the operator.
LEMMA ChosenRests ==
  ASSUME NEW p, UiTyped(p), NEW J, NEW A, NEW M, Led(p, J, A, M)
  PROVE  AtRest(Chosen(p), J, A, M)
<1> DEFINE t == Chosen(p)
<1>1. /\ Goes(p, t)
      /\ \/ LastRead(t.sent, t.leaf)
         \/ t.leaf = NoDN /\ t.listDirty
         \/ p.wantLeaf \in {NoDN, p.leaf}
         \/ Dirty(p)
  BY ChosenGoes
<1> HIDE DEF t
<1>2. AtRest(p, J, A, M) => AtRest(t, J, A, M)
  BY <1>1, RestsOn
<1>3. LastRead(t.sent, t.leaf) \/ (t.leaf = NoDN /\ t.listDirty) => AtRest(t, J, A, M)
  BY DEF AtRest, Moving, Awaited
<1>4. CASE p.wantLeaf # NoDN /\ p.wantLeaf \in ToSet(Shown(p))
  BY <1>1, <1>2, <1>3, <1>4 DEF AtRest, t
<1>5. QED
  BY <1>2, <1>4 DEF Led, t

\* The highlight, moved by the operator, is asked about or the open entry's.
LEMMA ChosenPoints ==
  ASSUME NEW p, UiTyped(p), NEW J, NEW A, NEW M,
         p.wantBranch = NoDN, p.wantLeaf # NoDN, Shown(p)[p.list.row] = p.wantLeaf
  PROVE  LET t == Chosen(p) IN
         Moving(t, J, A, M) \/ Right(t) \/ (t.guard.kind = "leaf" /\ t.post)
<1> DEFINE t == Chosen(p)
<1>1. /\ Goes(p, t)
      /\ \/ LastRead(t.sent, t.leaf)
         \/ t.leaf = NoDN /\ t.listDirty
         \/ p.wantLeaf \in {NoDN, p.leaf}
         \/ Dirty(p) /\ (p.wantBranch = NoDN => t.guard.kind = "leaf" /\ t.post)
  BY ChosenGoes
<1> HIDE DEF t
<1>2. p.wantLeaf = p.leaf => Right(p)
  BY DEF Right
<1>3. Right(p) => Moving(t, J, A, M) \/ Right(t)
  BY <1>1, GoesKeeps
<1>4. LastRead(t.sent, t.leaf) \/ (t.leaf = NoDN /\ t.listDirty) => Moving(t, J, A, M)
  BY DEF Moving, Awaited
<1>5. QED
  BY <1>1, <1>2, <1>3, <1>4 DEF t

(***************************************************************************)
(* A handler ends.                                                         *)
(***************************************************************************)
Ended(s) == [s EXCEPT !.sent = <<>>, !.post = FALSE]

LEMMA EndPlaces ==
  ASSUME NEW s, Shape(s), NEW J, IsQueue(J), NEW A, NEW M
  PROVE  LET t == Ended(s)
             K == J \o s.sent
         IN  /\ Followed(s, J, A, M) => Followed(t, K, A, M)
             /\ Moving(s, J, A, M) <=> Moving(t, K, A, M)
             /\ Right(s) <=> Right(t)
             /\ Led(s, J, A, M) => Led(t, K, A, M)
             /\ Lost(s, J, A, M) => Lost(t, K, A, M)
<1> DEFINE t == Ended(s)
           K == J \o s.sent
<1>1. /\ NoRead(K) <=> NoRead(J) /\ NoRead(s.sent)
      /\ \A d : LastRead(K, d) <=> LastRead(s.sent, d) \/ (NoRead(s.sent) /\ LastRead(J, d))
  BY ReadsOfConcat DEF Shape
<1>2. /\ t.sent = <<>> /\ t.leaf = s.leaf /\ t.form = s.form /\ t.ver = s.ver
      /\ t.branch = s.branch /\ t.listDirty = s.listDirty /\ t.list = s.list
      /\ t.wantLeaf = s.wantLeaf
  BY DEF Ended, Shape, UiParts
<1> HIDE DEF K, t
<1>3. \A d : Awaited(s, J, A, d) <=> Awaited(t, K, A, d)
  BY <1>1, <1>2, ReadsOfNone DEF Awaited
<1>4. Followed(s, J, A, M) => Followed(t, K, A, M)
  BY <1>1, <1>2, <1>3, ReadsOfNone DEF Followed
<1>5. /\ Moving(s, J, A, M) <=> Moving(t, K, A, M)
      /\ Lost(s, J, A, M) => Lost(t, K, A, M)
  BY <1>2, <1>3 DEF Moving, Lost, Dirty
<1>6. Right(s) <=> Right(t)
  BY <1>2 DEF Right, Shown
<1>7. Led(s, J, A, M) => Led(t, K, A, M)
  BY <1>2, <1>5 DEF Led, AtRest, Dirty, Held, Shown
<1>8. QED
  BY <1>4, <1>5, <1>6, <1>7 DEF t, K

LEMMA ListPlaces ==
  ASSUME NEW t, UiTyped(t), NEW J, NEW A, NEW M,
         t.wantLeaf = NoDN, t.wantBranch = NoDN, AtRest(t, J, A, M)
  PROVE  LET u == RefreshList(t) IN
         /\ Followed(t, J, A, M) => Followed(u, J, A, M)
         /\ Led(u, J, A, M)
         /\ Moving(t, J, A, M) \/ Right(t) => Moving(u, J, A, M) \/ Right(u)
         /\ Lost(t, J, A, M) => Lost(u, J, A, M)
         /\ u.wantBranch = NoDN /\ (u.wantLeaf # NoDN => ~Dirty(u))
         /\ u.guard = t.guard /\ u.post = t.post /\ u.latest = t.latest /\ u.nav = t.nav
<1> DEFINE u == Repopulate(t)
<1>1. /\ Right(u) /\ Led(u, J, A, M)
      /\ u.sent = t.sent /\ u.leaf = t.leaf /\ u.form = t.form /\ u.nav = t.nav
      /\ u.ver = t.ver /\ u.branch = t.branch /\ u.latest = t.latest
      /\ u.wantBranch = t.wantBranch /\ u.guard = t.guard /\ u.post = t.post
      /\ u.wantLeaf = t.wantLeaf \/ ~Dirty(t)
  BY RepopulatePlaces
<1>2. RefreshList(t) = IF t.listDirty THEN u ELSE t
  BY DEF RefreshList
<1> HIDE DEF u
<1>3. \A d : Awaited(u, J, A, d) <=> Awaited(t, J, A, d)
  BY <1>1 DEF Awaited
<1>4. /\ Followed(t, J, A, M) => Followed(u, J, A, M)
      /\ Lost(t, J, A, M) => Lost(u, J, A, M)
  BY <1>1, <1>3 DEF Followed, Lost, Dirty
<1>5. u.wantLeaf # NoDN => ~Dirty(u)
  BY <1>1 DEF Dirty
<1>6. Led(t, J, A, M)
  BY DEF Led
<1>7. QED
  BY <1>1, <1>2, <1>4, <1>5, <1>6

LEMMA PolledLatest ==
  ASSUME NEW s, Shape(s), NEW r
  PROVE  Polled(s, r).latest = s.latest \/ r.what \notin {"read", "save", "create", "find"}
<1>1. Upsert(s, r.dn, r.ver).latest = s.latest /\ DOMAIN Upsert(s, r.dn, r.ver) = UiParts
  BY DEF Upsert, Shape, UiParts
<1>2. OnRead(s, r).latest = s.latest
  BY <1>1 DEF OnRead, UiParts
<1>3. UpsertHits(s, r).latest = s.latest /\ DOMAIN UpsertHits(s, r) = UiParts
  BY DEF UpsertHits, Shape, UiParts
<1>4. OnFind(s, r).latest = s.latest
  BY <1>3 DEF OnFind, Shape, UiParts
<1>5. OnSaved(s, r).latest = s.latest /\ OnCreated(s, r).latest = s.latest
  BY DEF OnSaved, OnCreated, Reread, Shape, UiParts
<1>6. QED
  BY <1>2, <1>4, <1>5 DEF Polled

LEMMA ChosenLatest ==
  ASSUME NEW p, UiTyped(p)
  PROVE  Chosen(p).latest \in {p.latest, 0}
<1> DEFINE a == ReconcileSelection(p)
           b == ReconcileBranch(a)
           t == RefreshTree(b)
<1>1. Moves(p, a)
  BY SelectionMoves DEF UiTyped
<1> HIDE DEF a
<1>2. Moves(a, b)
  BY <1>1, BranchMoves DEF Moves
<1> HIDE DEF b
<1>3. Moves(b, t)
  BY <1>2, TreeMoves DEF Moves
<1> HIDE DEF t
<1>4. Moves(p, t)
  BY <1>1, <1>2, <1>3, MovesOn
<1>5. QED
  BY <1>4 DEF Moves, SameFind, FindLeft, Chosen, a, b, t

LEMMA StepPlaces ==
  ASSUME NavInv, NEW s, Shape(s), Step(s), NEW A, NEW M
  PROVE  /\ Followed(s, jobs, A, M) => Followed(ui', jobs', A, M)
         /\ Moving(s, jobs, A, M) <=> Moving(ui', jobs', A, M)
         /\ Right(s) <=> Right(ui')
         /\ Led(s, jobs, A, M) => Led(ui', jobs', A, M)
         /\ Lost(s, jobs, A, M) => Lost(ui', jobs', A, M)
         /\ ui'.wantLeaf = s.wantLeaf /\ ui'.wantBranch = s.wantBranch
         /\ ui'.guard = s.guard /\ ui'.nav = s.nav /\ ui'.latest = s.latest
         /\ Dirty(ui') <=> Dirty(s)
         /\ ui'.post = FALSE /\ posted' = (posted \/ s.post)
<1>1. ui' = Ended(s) /\ jobs' = jobs \o s.sent /\ posted' = (posted \/ s.post)
  BY DEF Step, Ended
<1>2. IsQueue(jobs)
  BY DEF NavInv
<1>3. /\ ui'.wantLeaf = s.wantLeaf /\ ui'.wantBranch = s.wantBranch
      /\ ui'.guard = s.guard /\ ui'.nav = s.nav /\ ui'.latest = s.latest
      /\ ui'.form = s.form /\ ui'.post = FALSE
  BY <1>1 DEF Ended, Shape, UiParts
<1>4. /\ Followed(s, jobs, A, M) => Followed(Ended(s), jobs \o s.sent, A, M)
      /\ Moving(s, jobs, A, M) <=> Moving(Ended(s), jobs \o s.sent, A, M)
      /\ Right(s) <=> Right(Ended(s))
      /\ Led(s, jobs, A, M) => Led(Ended(s), jobs \o s.sent, A, M)
      /\ Lost(s, jobs, A, M) => Lost(Ended(s), jobs \o s.sent, A, M)
  BY <1>2, EndPlaces
<1>5. QED
  BY <1>1, <1>3, <1>4 DEF Dirty

LEMMA TickPlaces ==
  ASSUME NavInv, NavTyped, PlaceInv, Tick
  PROVE  PlaceInv'
<1> DEFINE r == Head(resps)
           p == IF resps = <<>> THEN ui ELSE Polled(ui, r)
           t == Chosen(p)
           u == RefreshList(t)
           J == jobs
           A == resps'
           M == missed'
<1>1. /\ Step(u) /\ UNCHANGED <<dir, dialog>>
      /\ A = IF resps = <<>> THEN <<>> ELSE Tail(resps)
      /\ M = IF resps = <<>> THEN missed ELSE Missing(missed, r)
  BY DEF Tick, Chosen, Missing
<1>2. Shape(ui) /\ UiTyped(ui) /\ IsQueue(resps) /\ ui.post = FALSE
  BY DEF NavTyped, UiTyped, NavInv, PlaceInv, Prompts
<1>3. /\ p.list = ui.list /\ p.wantLeaf = ui.wantLeaf /\ p.wantBranch = ui.wantBranch
      /\ p.guard = ui.guard /\ p.post = FALSE /\ (Dirty(p) => Dirty(ui))
      /\ p = ui \/ p.listDirty \/ LastRead(p.sent, p.leaf)
      /\ p.latest = ui.latest /\ UiTyped(p)
      /\ Followed(p, J, A, M) /\ Led(p, J, A, M)
      /\ Moving(ui, jobs, resps, missed) => Moving(p, J, A, M)
      /\ Right(ui) => Moving(p, J, A, M) \/ Right(p)
      /\ ui.latest = 0 /\ Lost(ui, jobs, resps, missed) => Lost(p, J, A, M)
  <2>1. CASE resps = <<>>
    BY <1>1, <1>2, <2>1 DEF PlaceInv
  <2>2. CASE resps # <<>>
    <3>1. r \in ToSet(resps)
      BY <1>2, <2>2, QueueTail
    <3>2. /\ r.what \in {"read", "save", "create", "find"} /\ AnswerTyped(r)
          /\ r.what = "find" => /\ r.id \in 1..ui.lastId
                                /\ \A d \in r.hits : Parent[d] = r.ask.branch
      BY <3>1 DEF NavTyped, AnswerTyped, NavInv, FindsOK, Answers, Asked
    <3>3. ui.latest = 0 => (r.what = "find" => r.id # ui.latest)
      BY <3>2 DEF NavInv, FindsOK
    <3> HIDE DEF r
    <3>4. UiTyped(Polled(ui, r))
      BY <1>2, <3>2, PolledCarries DEF Carries
    <3>5. /\ Polled(ui, r).list = ui.list /\ Wants(ui, Polled(ui, r))
          /\ Dirty(Polled(ui, r)) => Dirty(ui)
          /\ \/ Polled(ui, r) = ui \/ Polled(ui, r).listDirty
             \/ LastRead(Polled(ui, r).sent, Polled(ui, r).leaf)
      BY <1>2, <3>2, PolledGoes
    <3>6. Polled(ui, r).latest = ui.latest
      BY <1>2, <3>2, PolledLatest
    <3>7. /\ Followed(ui, J, resps, missed) => Followed(Polled(ui, r), J, Tail(resps), Missing(missed, r))
          /\ Moving(ui, J, resps, missed) => Moving(Polled(ui, r), J, Tail(resps), Missing(missed, r))
          /\ Right(ui) => \/ Moving(Polled(ui, r), J, Tail(resps), Missing(missed, r))
                          \/ Right(Polled(ui, r))
          /\ Led(ui, J, resps, missed) => Led(Polled(ui, r), J, Tail(resps), Missing(missed, r))
          /\ (r.what = "find" => r.id # ui.latest) /\ Lost(ui, J, resps, missed)
               => Lost(Polled(ui, r), J, Tail(resps), Missing(missed, r))
      BY <1>2, <2>2, <3>2, PolledPlaces DEF r
    <3>8. p = Polled(ui, r) /\ A = Tail(resps) /\ M = Missing(missed, r)
      BY <1>1, <2>2
    <3> HIDE DEF p, A, M
    <3>9. QED
      BY <1>2, <3>3, <3>4, <3>5, <3>6, <3>7, <3>8 DEF PlaceInv, Wants
  <2>3. QED
    BY <2>1, <2>2
<1> HIDE DEF p, r
<1>4. /\ Goes(p, t) /\ t.ver = p.ver /\ t.nav = p.nav /\ t.wantLeaf = NoDN /\ t.wantBranch = NoDN
      /\ t.guard = p.guard \/ t.guard.kind \in {"leaf", "branch"}
      /\ p.wantBranch = NoDN => t.guard = p.guard \/ t.guard.kind = "leaf"
      /\ p.wantBranch = NoDN /\ (p.wantLeaf # NoDN => ~Dirty(p)) => t.post = p.post
      /\ t.post = p.post \/ t.guard.kind \in {"leaf", "branch"}
  BY <1>3, ChosenGoes
<1>5. UiTyped(t) /\ t.latest \in {p.latest, 0}
  <2>1. UiTyped(ReconcileBranch(ReconcileSelection(p)))
    BY <1>3, SelectionKeeps, BranchKeeps DEF Keeps
  <2>2. QED
    BY <1>3, <2>1, RefreshTreeKeeps, ChosenLatest DEF Keeps, Chosen
<1>6. AtRest(t, J, A, M)
  BY <1>3, ChosenRests
<1>7. /\ Followed(t, J, A, M)
      /\ Moving(p, J, A, M) => Moving(t, J, A, M)
      /\ Right(p) => Moving(t, J, A, M) \/ Right(t)
      /\ Lost(p, J, A, M) => Lost(t, J, A, M)
  BY <1>3, <1>4, GoesKeeps
<1>8. p.wantBranch = NoDN /\ p.wantLeaf # NoDN /\ Shown(p)[p.list.row] = p.wantLeaf =>
        Moving(t, J, A, M) \/ Right(t) \/ (t.guard.kind = "leaf" /\ t.post)
  BY <1>3, ChosenPoints
<1> HIDE DEF t
<1>9. /\ Followed(u, J, A, M) /\ Led(u, J, A, M)
      /\ Moving(t, J, A, M) \/ Right(t) => Moving(u, J, A, M) \/ Right(u)
      /\ Lost(t, J, A, M) => Lost(u, J, A, M)
      /\ u.wantBranch = NoDN /\ (u.wantLeaf # NoDN => ~Dirty(u))
      /\ u.guard = t.guard /\ u.post = t.post /\ u.latest = t.latest /\ u.nav = t.nav
  BY <1>4, <1>5, <1>6, <1>7, ListPlaces
<1>10. Shape(u)
  BY <1>5, RepopulateKeeps DEF Keeps, UiTyped
<1> HIDE DEF u
<1>11. /\ Followed(ui', jobs', A, M) /\ Led(ui', jobs', A, M)
       /\ Moving(u, J, A, M) \/ Right(u) => Moving(ui', jobs', A, M) \/ Right(ui')
       /\ Lost(u, J, A, M) => Lost(ui', jobs', A, M)
       /\ ui'.wantBranch = NoDN /\ (ui'.wantLeaf # NoDN => ~Dirty(ui'))
       /\ ui'.guard = t.guard /\ ui'.nav = t.nav /\ ui'.latest = t.latest
       /\ ui'.post = FALSE /\ posted' = (posted \/ t.post)
  BY <1>1, <1>9, <1>10, StepPlaces
<1> DEFINE Settled == Moving(ui', jobs', A, M) \/ Right(ui')
<1>12. Moving(ui, jobs, resps, missed) \/ Right(ui) => Settled
  BY <1>3, <1>7, <1>9, <1>11
<1>13. Prompts'
  <2>1. dialog.kind = "guard" => ~posted'
    <3> SUFFICES ASSUME dialog.kind = "guard" PROVE ~posted'
      OBVIOUS
    <3>1. ~posted /\ ui.wantBranch = NoDN /\ (ui.wantLeaf # NoDN => ~Dirty(ui))
      BY DEF PlaceInv, Prompts
    <3>2. t.post = FALSE
      BY <1>3, <1>4, <3>1
    <3>3. QED
      BY <1>11, <3>1, <3>2
  <2>2. dialog = NoDialog => ui'.guard.kind # "vanished"
    BY <1>3, <1>4, <1>11 DEF PlaceInv, Prompts
  <2>3. ASSUME AsksAboutNothing' PROVE AsksAboutNothing
    BY <1>1, <1>3, <1>4, <1>11, <2>3 DEF AsksAboutNothing
  <2>4. ASSUME AsksAboutNothing'
        PROVE  ui'.latest = 0 /\ Settled /\ Lost(ui', jobs', A, M)
    <3>1. /\ ui.latest = 0 /\ Lost(ui, jobs, resps, missed)
          /\ Moving(ui, jobs, resps, missed) \/ Right(ui)
      BY <2>3, <2>4 DEF PlaceInv, Prompts
    <3>2. QED
      BY <1>3, <1>5, <1>7, <1>9, <1>11, <1>12, <3>1
  <2>5. QED
    BY <1>1, <1>11, <2>1, <2>2, <2>4 DEF Prompts
<1>14. Pointing'
  <2>1. CASE Moving(ui, jobs, resps, missed) \/ Right(ui)
    BY <1>12, <2>1 DEF Pointing
  <2>2. CASE ui.nav # NoDN
    <3>1. CASE p = ui
      BY <1>4, <1>11, <2>2, <3>1 DEF Pointing
    <3>2. CASE p.listDirty \/ LastRead(p.sent, p.leaf)
      <4>1. Moving(p, J, A, M)
        BY <3>2 DEF Moving, Awaited
      <4>2. QED
        BY <1>7, <1>9, <1>11, <4>1 DEF Pointing
    <3>3. QED
      BY <1>3, <3>1, <3>2
  <2>3. CASE AsksToMove
    <3>1. p.wantBranch = NoDN /\ p.wantLeaf # NoDN /\ Shown(p)[p.list.row] = p.wantLeaf
      BY <1>3, <2>3 DEF AsksToMove, Shown
    <3>2. CASE Moving(t, J, A, M) \/ Right(t)
      BY <1>9, <1>11, <3>2 DEF Pointing
    <3>3. CASE t.guard.kind = "leaf" /\ t.post
      <4>1. AsksAboutLeaf'
        BY <1>1, <1>11, <2>3, <3>3 DEF AsksToMove, Idle, AsksAboutLeaf
      <4>2. QED
        BY <4>1 DEF Pointing
    <3>4. QED
      BY <1>8, <3>1, <3>2, <3>3
  <2>4. CASE AsksAboutLeaf
    <3>1. posted => ui.wantBranch = NoDN
      BY DEF PlaceInv, Prompts
    <3>2. AsksAboutLeaf'
      BY <1>1, <1>3, <1>4, <1>11, <2>4, <3>1 DEF AsksAboutLeaf
    <3>3. QED
      BY <3>2 DEF Pointing
  <2>5. QED
    BY <2>1, <2>2, <2>3, <2>4 DEF PlaceInv, Pointing
<1>15. QED
  BY <1>11, <1>13, <1>14 DEF PlaceInv

(***************************************************************************)
(* The operator's steps.                                                   *)
(***************************************************************************)
\* A step that sends nothing and leaves the place to what it was.
LEMMA SamePlaces ==
  ASSUME NavInv, PlaceInv, UNCHANGED <<jobs, resps, missed>>, Goes(ui, ui'), Still(ui, ui')
  PROVE  /\ Followed(ui', jobs', resps', missed')
         /\ AtRest(ui, jobs, resps, missed) => AtRest(ui', jobs', resps', missed')
         /\ Moving(ui, jobs, resps, missed) \/ Right(ui)
              => Moving(ui', jobs', resps', missed') \/ Right(ui')
<1> DEFINE t == ui'
<1>1. /\ Followed(ui, jobs, resps, missed) => Followed(t, jobs, resps, missed)
      /\ Moving(ui, jobs, resps, missed) => Moving(t, jobs, resps, missed)
      /\ Right(ui) => Moving(t, jobs, resps, missed) \/ Right(t)
  BY GoesKeeps
<1>2. AtRest(ui, jobs, resps, missed) => AtRest(t, jobs, resps, missed)
  BY RestsOn
<1>3. QED
  BY <1>1, <1>2 DEF PlaceInv

LEMMA RowPlaces ==
  ASSUME NavInv, NavTyped, PlaceInv, NEW i, MoveRow(i)
  PROVE  PlaceInv'
<1> DEFINE rows == LeafRows(ui)
           w    == IF i \in DOMAIN rows THEN rows[i].dn ELSE ui.wantLeaf
<1>1. /\ Idle /\ ui.wantBranch = NoDN /\ i \in DOMAIN ui.list.rows
      /\ ui' = [ui EXCEPT !.list.row = i, !.wantLeaf = w]
      /\ UNCHANGED <<jobs, resps, posted, dialog, missed>>
  BY DEF MoveRow
<1>2. DOMAIN ui = UiParts /\ DOMAIN ui.list = {"rows", "row"} /\ UiTyped(ui)
  BY DEF NavTyped, UiTyped, Shape, NavInv, ListOK
<1> HIDE DEF w
<1>3. /\ ui'.sent = ui.sent /\ ui'.leaf = ui.leaf /\ ui'.form = ui.form /\ ui'.nav = ui.nav
      /\ ui'.ver = ui.ver /\ ui'.branch = ui.branch /\ ui'.latest = ui.latest
      /\ ui'.listDirty = ui.listDirty /\ ui'.wantLeaf = w /\ ui'.wantBranch = NoDN
      /\ ui'.guard = ui.guard /\ ui'.post = ui.post
      /\ ui'.list.rows = ui.list.rows /\ ui'.list.row = i
  BY <1>1, <1>2 DEF UiParts
<1>4. Shown(ui') = Shown(ui)
  BY <1>3 DEF Shown
<1>5. \A d : Awaited(ui', jobs', resps', d) <=> Awaited(ui, jobs, resps, d)
  BY <1>1, <1>3 DEF Awaited
<1>6. Followed(ui', jobs', resps', missed')
  BY <1>1, <1>3, <1>5 DEF PlaceInv, Followed
<1>7. Moving(ui, jobs, resps, missed) <=> Moving(ui', jobs', resps', missed')
  BY <1>1, <1>3, <1>5 DEF Moving
<1>8. dialog = NoDialog /\ ~posted /\ dialog.kind = "none"
  BY <1>1 DEF Idle, NoDialog
<1>9. Prompts'
  BY <1>1, <1>3, <1>8 DEF PlaceInv, Prompts, AsksAboutNothing, NoDialog
<1>10. CASE Moving(ui, jobs, resps, missed)
  BY <1>6, <1>7, <1>9, <1>10 DEF PlaceInv, Led, AtRest, Pointing
<1>11. CASE ~Moving(ui, jobs, resps, missed)
  <2>1. ui.list.rows = rows
    BY <1>11 DEF Moving, NavInv, ListOK
  <2>2. /\ i \in DOMAIN rows /\ RowDns(rows) \in Seq(DNs) /\ DOMAIN RowDns(rows) = DOMAIN rows
        /\ rows[i].dn = RowDns(rows)[i]
    BY <1>1, <1>2, <2>1, RowsTyped
  <2>3. Shown(ui') = RowDns(rows)
    BY <1>4, <2>1 DEF Shown
  <2> HIDE DEF rows
  <2>4. w = Shown(ui')[i] /\ i \in DOMAIN Shown(ui')
    BY <2>2, <2>3 DEF w
  <2>5. w \in ToSet(Shown(ui'))
    BY <2>4 DEF ToSet
  <2>6. w \in DNs
    BY <2>2, <2>3, <2>4
  <2>7. w # NoDN
    BY <2>6, NavigationAssumption
  <2>8. Led(ui', jobs', resps', missed')
    BY <1>3, <2>5, <2>7 DEF Led
  <2>9. AsksToMove'
    BY <1>1, <1>3, <2>4, <2>7 DEF AsksToMove, Idle
  <2>10. QED
    BY <1>6, <1>9, <2>8, <2>9 DEF PlaceInv, Pointing
<1>12. QED
  BY <1>10, <1>11

LEMMA MoveBranchPlaces ==
  ASSUME NavInv, NavTyped, PlaceInv, NEW i, MoveBranch(i)
  PROVE  PlaceInv'
<1>1. PICK d \in DNs :
        /\ Idle /\ ui.wantLeaf = NoDN
        /\ ui' = [ui EXCEPT !.tree.row = i, !.wantBranch = d]
        /\ UNCHANGED <<jobs, resps, posted, dialog, missed>>
  BY DEF MoveBranch
<1>2. /\ ui'.sent = ui.sent /\ ui'.leaf = ui.leaf /\ ui'.form = ui.form /\ ui'.nav = ui.nav
      /\ ui'.ver = ui.ver /\ ui'.branch = ui.branch /\ ui'.latest = ui.latest
      /\ ui'.listDirty = ui.listDirty /\ ui'.wantLeaf = ui.wantLeaf
      /\ ui'.guard = ui.guard /\ ui'.post = ui.post /\ ui'.list = ui.list
  BY <1>1 DEF NavTyped, UiTyped, Shape, UiParts
<1>3. Goes(ui, ui') /\ Still(ui, ui')
  BY <1>2, StillGoes DEF Still
<1>4. /\ Followed(ui', jobs', resps', missed')
      /\ AtRest(ui, jobs, resps, missed) => AtRest(ui', jobs', resps', missed')
      /\ Moving(ui, jobs, resps, missed) \/ Right(ui)
           => Moving(ui', jobs', resps', missed') \/ Right(ui')
  BY <1>1, <1>3, SamePlaces
<1>5. dialog = NoDialog /\ ~posted /\ dialog.kind = "none"
  BY <1>1 DEF Idle, NoDialog
<1>6. Prompts'
  BY <1>1, <1>2, <1>5 DEF PlaceInv, Prompts, AsksAboutNothing, NoDialog
<1>7. Led(ui', jobs', resps', missed')
  BY <1>1, <1>4 DEF PlaceInv, Led
<1>8. Pointing'
  BY <1>1, <1>2, <1>4, <1>5 DEF PlaceInv, Pointing, AsksToMove, AsksAboutLeaf
<1>9. QED
  BY <1>4, <1>6, <1>7, <1>8 DEF PlaceInv

LEMMA EditPlaces ==
  ASSUME NavInv, NavTyped, PlaceInv, EditForm
  PROVE  PlaceInv'
<1>1. /\ Idle /\ ui' = [ui EXCEPT !.form.dirty = TRUE] /\ ui.form # NoForm
      /\ UNCHANGED <<jobs, resps, posted, dialog, missed>>
  BY DEF EditForm
<1>2. ui.form \in [entry : DNs, dirty : BOOLEAN] /\ DOMAIN ui = UiParts
  BY <1>1 DEF NavTyped, UiTyped, Shape, Forms
<1>3. /\ ui'.sent = ui.sent /\ ui'.leaf = ui.leaf /\ ui'.nav = ui.nav
      /\ ui'.form = [ui.form EXCEPT !.dirty = TRUE]
      /\ ui'.latest = ui.latest /\ ui'.listDirty = ui.listDirty
      /\ ui'.wantLeaf = ui.wantLeaf /\ ui'.wantBranch = ui.wantBranch
      /\ ui'.guard = ui.guard /\ ui'.post = ui.post /\ ui'.list = ui.list
  BY <1>1, <1>2 DEF UiParts
<1>4. Dirty(ui') /\ ui'.form.entry = ui.form.entry
  BY <1>2, <1>3 DEF Dirty
<1> DEFINE t == ui'
<1>5. /\ t.sent = ui.sent /\ t.leaf = ui.leaf /\ t.listDirty = ui.listDirty
       /\ t.form.entry = ui.form.entry
  BY <1>3, <1>4
<1>6. \A d : Awaited(t, jobs, resps, d) <=> Awaited(ui, jobs, resps, d)
  BY <1>5 DEF Awaited
<1>7. jobs' = jobs /\ resps' = resps /\ missed' = missed
  BY <1>1
<1> HIDE DEF t
<1>8. Followed(ui, jobs, resps, missed)
  BY DEF PlaceInv
<1>9. Followed(t, jobs, resps, missed)
  BY <1>5, <1>6, <1>8 DEF Followed
<1>10. Followed(ui', jobs', resps', missed')
  BY <1>7, <1>9 DEF t
<1>11. Moving(ui, jobs, resps, missed) <=> Moving(t, jobs, resps, missed)
  BY <1>5, <1>6 DEF Moving
<1>12. Moving(ui, jobs, resps, missed) <=> Moving(ui', jobs', resps', missed')
  BY <1>7, <1>11 DEF t
<1>13. Right(ui) <=> Right(ui')
  BY <1>3 DEF Right, Shown
<1>14. dialog = NoDialog /\ ~posted /\ dialog.kind = "none"
  BY <1>1 DEF Idle, NoDialog
<1>15. Prompts'
  BY <1>1, <1>3, <1>14 DEF PlaceInv, Prompts, AsksAboutNothing, NoDialog
<1>16. Led(ui', jobs', resps', missed')
  BY <1>4 DEF Led, AtRest
<1>17. AsksToMove => AsksToMove'
  BY <1>1, <1>3 DEF AsksToMove, Idle, Shown
<1>18. Pointing'
  BY <1>3, <1>12, <1>13, <1>14, <1>17 DEF PlaceInv, Pointing, AsksAboutLeaf
<1>19. QED
  BY <1>10, <1>15, <1>16, <1>18 DEF PlaceInv

LEMMA FindPlaces ==
  ASSUME NavInv, NavTyped, PlaceInv, NEW q, TypeFind(q)
  PROVE  PlaceInv'
<1> DEFINE t == SetLeafSearch(ui, q)
           u == Repopulate(t)
           j == FindJob(ui, q)
<1>1. Idle /\ Step(u) /\ UNCHANGED <<resps, dialog, missed>>
  BY DEF TypeFind
<1>2. Shape(ui) /\ UiTyped(ui)
  BY DEF NavTyped, UiTyped
<1>3. UiTyped(t)
  BY <1>2, TypedFindKeeps DEF Keeps
<1>4. j.what # "read"
  BY DEF FindJob
<1>5. /\ t.sent \in {ui.sent, Append(ui.sent, j)} /\ t.leaf = ui.leaf /\ t.form = ui.form
      /\ t.guard = ui.guard /\ t.post = ui.post
  BY <1>2 DEF SetLeafSearch, Shape, UiParts
<1> HIDE DEF t, j
<1>6. Quieter(ui, t)
  <2>1. CASE t.sent = ui.sent
    BY <2>1 DEF Quieter
  <2>2. CASE t.sent = Append(ui.sent, j)
    <3>1. IsQueue(ui.sent)
      BY <1>2 DEF Shape
    <3>2. /\ NoRead(ui.sent) => NoRead(Append(ui.sent, j))
          /\ \A d : LastRead(ui.sent, d) => LastRead(Append(ui.sent, j), d)
      BY <1>4, <3>1, ReadsOfAppend
    <3>3. QED
      BY <2>2, <3>2 DEF Quieter
  <2>3. QED
    BY <1>5, <2>1, <2>2
<1>7. /\ Right(u) /\ Led(u, jobs, resps, missed)
      /\ u.sent = t.sent /\ u.leaf = t.leaf /\ u.form = t.form
      /\ u.guard = t.guard /\ u.post = t.post
  BY <1>3, RepopulatePlaces
<1>8. Shape(u)
  BY <1>3, RepopulateKeeps DEF Keeps, UiTyped
<1> HIDE DEF u
<1>9. Quieter(ui, u)
  BY <1>6, <1>7 DEF Quieter
<1>10. \A d : Awaited(ui, jobs, resps, d) => Awaited(u, jobs, resps, d)
  BY <1>9, AwaitedOn
<1>11. Followed(u, jobs, resps, missed)
  BY <1>5, <1>7, <1>9, <1>10 DEF PlaceInv, Followed, Quieter
<1>12. /\ Followed(ui', jobs', resps, missed) /\ Led(ui', jobs', resps, missed) /\ Right(ui')
       /\ ui'.guard = ui.guard /\ ui'.post = FALSE /\ posted' = (posted \/ ui.post)
  BY <1>1, <1>5, <1>7, <1>8, <1>11, StepPlaces
<1>13. dialog = NoDialog /\ ~posted' /\ dialog.kind = "none" /\ ui.guard.kind # "vanished"
  BY <1>1, <1>12 DEF Idle, NoDialog, PlaceInv, Prompts
<1>14. Prompts'
  BY <1>1, <1>12, <1>13 DEF Prompts, AsksAboutNothing, NoDialog
<1>15. QED
  BY <1>1, <1>12, <1>14 DEF PlaceInv, Pointing

LEMMA AdoptGoes ==
  ASSUME NEW s, Shape(s), NEW known
  PROVE  LET t == AdoptStructure(s, known) IN
         /\ Goes(s, t) /\ t.listDirty /\ t.latest = 0 /\ t.post = s.post
         /\ t.guard = s.guard \/ t.ver[t.leaf] = 0
<1> DEFINE n == [s EXCEPT !.ver = known, !.kids = ChildrenIn(known)]
           b == IF known[s.branch] = 0 THEN [n EXCEPT !.branch = Base] ELSE n
           v == NoteEntryVanished(b)
           f == IF s.leaf # NoDN /\ known[s.leaf] = 0 THEN v ELSE b
           t == [f EXCEPT !.query = Empty, !.hits = NoHits, !.latest = 0,
                          !.listDirty = TRUE, !.treeDirty = TRUE]
<1>1. AdoptStructure(s, known) = t
  BY DEF AdoptStructure
<1>2. /\ DOMAIN b = UiParts /\ b.sent = s.sent /\ b.leaf = s.leaf /\ b.form = s.form
      /\ b.list = s.list /\ b.guard = s.guard /\ b.post = s.post /\ b.ver = known
  BY DEF Shape, UiParts
<1> HIDE DEF b
<1>3. /\ DOMAIN v = UiParts /\ v.sent = s.sent /\ v.list = s.list /\ v.post = s.post
      /\ v.ver = known
      /\ \/ v.leaf = NoDN /\ v.form = NoForm /\ v.guard = s.guard
         \/ v.leaf = s.leaf /\ v.form = s.form
  BY <1>2 DEF NoteEntryVanished, UiParts
<1> HIDE DEF v
<1>4. /\ DOMAIN f = UiParts /\ f.sent = s.sent /\ f.list = s.list /\ f.post = s.post
      /\ f.ver = known
      /\ \/ f.leaf = NoDN /\ f.form = NoForm
         \/ f.leaf = s.leaf /\ f.form = s.form
      /\ f.guard = s.guard \/ known[f.leaf] = 0
  BY <1>2, <1>3
<1> HIDE DEF f
<1>5. /\ t.sent = f.sent /\ t.list = f.list /\ t.post = f.post /\ t.ver = f.ver
      /\ t.leaf = f.leaf /\ t.form = f.form /\ t.guard = f.guard
      /\ t.listDirty /\ t.latest = 0
  BY <1>4 DEF UiParts
<1> HIDE DEF t
<1>6. ~NoForm.dirty
  BY DEF NoForm
<1>7. Goes(s, t)
  BY <1>4, <1>5, <1>6 DEF Goes, Quieter, Dirty
<1>8. QED
  BY <1>1, <1>4, <1>5, <1>7

LEMMA ReloadPlaces ==
  ASSUME NavInv, NavTyped, PlaceInv, Reload
  PROVE  PlaceInv'
<1> DEFINE t == ui'
<1>1. /\ Idle /\ ui' = AdoptStructure(ui, dir) /\ UNCHANGED <<jobs, resps, posted, missed>>
      /\ dialog' = IF ui'.guard.kind = "vanished" THEN [kind |-> "vanished", target |-> ui'.guard]
                   ELSE NoDialog
  BY DEF Reload, LoadStructure
<1>2. /\ Goes(ui, t) /\ t.listDirty /\ t.latest = 0 /\ t.post = ui.post
      /\ t.guard = ui.guard \/ t.ver[t.leaf] = 0
  BY <1>1, AdoptGoes DEF NavTyped, UiTyped
<1>3. Followed(t, jobs, resps, missed)
  BY <1>2, GoesKeeps DEF PlaceInv
<1>4. Moving(t, jobs, resps, missed)
  BY <1>2 DEF Moving
<1>5. ~posted /\ dialog = NoDialog /\ ui.guard.kind # "vanished" /\ ui.post = FALSE
  BY <1>1 DEF Idle, PlaceInv, Prompts
<1>6. t.guard.kind = "vanished" => Lost(t, jobs, resps, missed)
  BY <1>2, <1>5 DEF Lost
<1>7. /\ dialog' = NoDialog => t.guard.kind # "vanished"
      /\ dialog'.kind = "vanished" => t.guard.kind = "vanished"
      /\ dialog'.kind # "guard" /\ (dialog' # NoDialog => dialog'.kind = "vanished")
  BY <1>1 DEF NoDialog
<1>8. Prompts'
  BY <1>1, <1>2, <1>4, <1>5, <1>6, <1>7 DEF Prompts, AsksAboutNothing
<1>9. QED
  BY <1>1, <1>3, <1>4, <1>8 DEF PlaceInv, Pointing, Led, AtRest

LEMMA RunGuardPlaces ==
  ASSUME NavInv, NavTyped, PlaceInv, RunGuard
  PROVE  PlaceInv'
<1>1. /\ dialog = NoDialog /\ posted /\ ~posted'
      /\ dialog' = [kind |-> "guard", target |-> ui.guard]
      /\ UNCHANGED <<jobs, resps, ui, missed>>
  BY DEF RunGuard
<1>2. dialog' # NoDialog /\ dialog'.kind = "guard" /\ dialog'.target = ui.guard
  BY <1>1 DEF NoDialog
<1>3. AsksAboutNothing' => AsksAboutNothing
  BY <1>1, <1>2 DEF AsksAboutNothing
<1>4. Prompts'
  BY <1>1, <1>2, <1>3 DEF PlaceInv, Prompts
<1>5. dialog.kind = "none"
  BY <1>1 DEF NoDialog
<1>6. Pointing'
  BY <1>1, <1>2, <1>5 DEF PlaceInv, Pointing, AsksToMove, AsksAboutLeaf, Idle
<1>7. QED
  BY <1>1, <1>4, <1>6 DEF PlaceInv

(***************************************************************************)
(* What is chosen in a dialog.                                             *)
(***************************************************************************)
LEMMA LedOn ==
  ASSUME NEW s, NEW t, Goes(s, t), t.wantLeaf = s.wantLeaf, NEW J, NEW A, NEW M, Led(s, J, A, M)
  PROVE  Led(t, J, A, M)
<1>1. t.list = s.list
  BY DEF Goes
<1>2. QED
  BY <1>1, RestsOn DEF Led, Shown

LEMMA DecidedPlaces ==
  ASSUME NavInv, NavTyped, PlaceInv, dialog.kind \in {"guard", "vanished"},
         NEW s, Shape(s), Decided(s), s.post = FALSE,
         s.wantLeaf = ui.wantLeaf, s.wantBranch = ui.wantBranch,
         Dirty(s) => Dirty(ui), s.latest \in {ui.latest, 0},
         Followed(s, jobs, resps, missed), Led(s, jobs, resps, missed),
         Moving(s, jobs, resps, missed) \/ Right(s) \/ s.nav # NoDN,
         dialog.kind = "vanished" => /\ Moving(s, jobs, resps, missed) \/ Right(s)
                                     /\ Lost(s, jobs, resps, missed)
  PROVE  PlaceInv'
<1> DEFINE t == [s EXCEPT !.guard = NoTarget]
<1>1. Step(t) /\ dialog' = NoDialog /\ UNCHANGED <<resps, missed>>
  BY DEF Decided
<1>2. /\ DOMAIN t = UiParts /\ t.sent = s.sent /\ t.leaf = s.leaf /\ t.form = s.form
      /\ t.ver = s.ver /\ t.branch = s.branch /\ t.nav = s.nav /\ t.latest = s.latest
      /\ t.wantLeaf = s.wantLeaf /\ t.wantBranch = s.wantBranch /\ t.guard = NoTarget
      /\ t.listDirty = s.listDirty /\ t.list = s.list /\ t.post = s.post
  BY DEF Shape, UiParts
<1> HIDE DEF t
<1>3. Still(s, t) /\ Shape(t)
  BY <1>2 DEF Still, Shape
<1>4. Goes(s, t)
  BY <1>2, <1>3, StillGoes
<1>5. /\ Followed(t, jobs, resps, missed) /\ Led(t, jobs, resps, missed)
      /\ Moving(s, jobs, resps, missed) \/ Right(s) => Moving(t, jobs, resps, missed) \/ Right(t)
      /\ Lost(s, jobs, resps, missed) => Lost(t, jobs, resps, missed)
  BY <1>2, <1>4, GoesKeeps, LedOn
<1>6. Dirty(t) <=> Dirty(s)
  BY <1>2 DEF Dirty
<1>7. /\ Followed(ui', jobs', resps, missed) /\ Led(ui', jobs', resps, missed)
      /\ Moving(t, jobs, resps, missed) \/ Right(t)
           => Moving(ui', jobs', resps, missed) \/ Right(ui')
      /\ Lost(t, jobs, resps, missed) => Lost(ui', jobs', resps, missed)
      /\ ui'.wantLeaf = ui.wantLeaf /\ ui'.wantBranch = ui.wantBranch
      /\ ui'.guard = NoTarget /\ ui'.nav = s.nav /\ ui'.latest \in {ui.latest, 0}
      /\ (Dirty(ui') => Dirty(ui)) /\ ui'.post = FALSE /\ (posted' <=> posted)
  <2>1. /\ Followed(t, jobs, resps, missed) => Followed(ui', jobs', resps, missed)
        /\ Moving(t, jobs, resps, missed) <=> Moving(ui', jobs', resps, missed)
        /\ Right(t) <=> Right(ui')
        /\ Led(t, jobs, resps, missed) => Led(ui', jobs', resps, missed)
        /\ Lost(t, jobs, resps, missed) => Lost(ui', jobs', resps, missed)
        /\ ui'.wantLeaf = t.wantLeaf /\ ui'.wantBranch = t.wantBranch
        /\ ui'.guard = t.guard /\ ui'.nav = t.nav /\ ui'.latest = t.latest
        /\ Dirty(ui') <=> Dirty(t)
        /\ ui'.post = FALSE /\ posted' = (posted \/ t.post)
    BY <1>1, <1>3, StepPlaces
  <2>2. posted' <=> posted
    BY <1>2, <2>1
  <2>3. QED
    BY <1>2, <1>5, <1>6, <2>1, <2>2
<1>8. dialog'.kind = "none" /\ ui'.guard.kind = "none"
  BY <1>1, <1>7 DEF NoDialog, NoTarget
<1>9. ASSUME posted PROVE dialog.kind = "vanished" /\ AsksAboutNothing
  BY <1>9 DEF PlaceInv, Prompts, AsksAboutNothing
<1>10. AsksAboutNothing' => posted
  BY <1>7, <1>8 DEF AsksAboutNothing
<1>11. Prompts'
  <2>1. posted => ui.wantBranch = NoDN /\ (ui.wantLeaf # NoDN => ~Dirty(ui)) /\ ui.latest = 0
    BY <1>9 DEF PlaceInv, Prompts
  <2>2. posted => /\ Moving(ui', jobs', resps, missed) \/ Right(ui')
                  /\ Lost(ui', jobs', resps, missed)
    BY <1>5, <1>7, <1>9
  <2>3. QED
    BY <1>1, <1>7, <1>8, <1>10, <2>1, <2>2 DEF Prompts
<1>12. Pointing'
  BY <1>1, <1>5, <1>7 DEF Pointing
<1>13. QED
  BY <1>1, <1>7, <1>11, <1>12 DEF PlaceInv

\* A choice that only asks, or has the list rebuilt, and leaves the rest.
LEMMA GoingPlaces ==
  ASSUME NavInv, NavTyped, PlaceInv, dialog.kind \in {"guard", "vanished"},
         NEW s, Shape(s), Decided(s), Goes(ui, s), Wants(ui, s), s.ver = ui.ver,
         s.latest \in {ui.latest, 0},
         Moving(ui, jobs, resps, missed) \/ Right(ui)
           \/ s.nav # NoDN \/ Moving(s, jobs, resps, missed)
  PROVE  PlaceInv'
<1>1. /\ s.wantLeaf = ui.wantLeaf /\ s.wantBranch = ui.wantBranch /\ s.post = FALSE
      /\ Dirty(s) => Dirty(ui)
  BY DEF Wants, PlaceInv, Prompts, Goes
<1>2. /\ Followed(s, jobs, resps, missed)
      /\ Moving(ui, jobs, resps, missed) \/ Right(ui) => Moving(s, jobs, resps, missed) \/ Right(s)
      /\ Lost(ui, jobs, resps, missed) => Lost(s, jobs, resps, missed)
  BY GoesKeeps DEF PlaceInv
<1>3. Led(s, jobs, resps, missed)
  BY <1>1, LedOn DEF PlaceInv
<1>4. dialog.kind = "vanished" => /\ Moving(ui, jobs, resps, missed) \/ Right(ui)
                                  /\ Lost(ui, jobs, resps, missed)
  BY DEF PlaceInv, Prompts, AsksAboutNothing
<1>5. Moving(s, jobs, resps, missed) \/ Right(s) \/ s.nav # NoDN
  BY <1>2
<1>6. dialog.kind = "vanished" => /\ Moving(s, jobs, resps, missed) \/ Right(s)
                                  /\ Lost(s, jobs, resps, missed)
  BY <1>2, <1>4
<1>7. QED
  BY <1>1, <1>2, <1>3, <1>5, <1>6, DecidedPlaces

\* Where the place may be while a dialog asks.
LEMMA Asking ==
  ASSUME NavTyped, PlaceInv
  PROVE  /\ dialog.kind = "vanished" \/ (dialog.kind = "guard" /\ dialog.target.kind \notin {"leaf", "branch"})
              => /\ ui.latest = 0
                 /\ Moving(ui, jobs, resps, missed) \/ Right(ui)
                 /\ Lost(ui, jobs, resps, missed)
         /\ dialog.kind = "guard" /\ dialog.target.kind # "leaf"
              => Moving(ui, jobs, resps, missed) \/ Right(ui) \/ ui.nav # NoDN
<1>1. dialog = NoDialog => dialog.kind = "none"
  BY DEF NoDialog
<1>2. QED
  BY <1>1 DEF PlaceInv, Prompts, Pointing, AsksAboutNothing, AsksAboutLeaf, AsksToMove, Idle

\* A request that is not a read joins what is sent.
LEMMA SentGoes ==
  ASSUME NEW s, Shape(s), NEW x, x.what # "read", NEW n
  PROVE  LET t == [s EXCEPT !.nav = n, !.sent = Append(@, x)] IN
         /\ Shape(t) /\ Goes(s, t) /\ Wants(s, t)
         /\ t.ver = s.ver /\ t.nav = n /\ t.latest = s.latest
<1> DEFINE t == [s EXCEPT !.nav = n, !.sent = Append(@, x)]
<1>1. /\ DOMAIN t = UiParts /\ t.sent = Append(s.sent, x) /\ t.leaf = s.leaf /\ t.form = s.form
      /\ t.ver = s.ver /\ t.branch = s.branch /\ t.nav = n /\ t.latest = s.latest
      /\ t.wantLeaf = s.wantLeaf /\ t.wantBranch = s.wantBranch /\ t.guard = s.guard
      /\ t.listDirty = s.listDirty /\ t.list = s.list /\ t.post = s.post
  BY DEF Shape, UiParts
<1> HIDE DEF t
<1>2. IsQueue(s.sent)
  BY DEF Shape
<1>3. /\ NoRead(s.sent) => NoRead(Append(s.sent, x))
      /\ \A d : LastRead(s.sent, d) => LastRead(Append(s.sent, x), d)
  BY <1>2, ReadsOfAppend
<1>4. Quieter(s, t)
  BY <1>1, <1>3 DEF Quieter
<1>5. Goes(s, t) /\ Wants(s, t)
  BY <1>1, <1>4 DEF Goes, Still, Wants, Dirty
<1>6. IsQueue(t.sent)
  BY <1>1, <1>2, QueueAppend
<1>7. QED
  BY <1>1, <1>5, <1>6 DEF Shape, t

LEMMA SavePlaces ==
  ASSUME NavInv, NavTyped, PlaceInv, GuardSave
  PROVE  PlaceInv'
<1> DEFINE to == dialog.target
           n  == IF to.kind = "leaf" THEN to.dn ELSE NoDN
           x  == [what |-> "save", dn |-> ui.form.entry]
           s  == [ui EXCEPT !.nav = n, !.sent = Append(@, x)]
           c  == CommitBranch(s, to.dn)
<1>1. /\ Decided(IF to.kind = "branch" THEN c ELSE s)
      /\ dialog.kind = "guard"
  BY DEF GuardSave
<1>2. x.what # "read"
  OBVIOUS
<1>3. to.kind = "leaf" => n # NoDN
  BY <1>1, DialogFacts, NavigationAssumption
<1>4. to.kind \notin {"leaf", "branch"} => Moving(ui, jobs, resps, missed) \/ Right(ui)
  BY <1>1, Asking
<1> HIDE DEF x, n, to
<1>5. Shape(ui)
  BY DEF NavInv
<1>6. /\ Shape(s) /\ Goes(ui, s) /\ Wants(ui, s)
      /\ s.ver = ui.ver /\ s.nav = n /\ s.latest = ui.latest
  BY <1>2, <1>5, SentGoes
<1> HIDE DEF s
<1>7. /\ Goes(s, c) /\ Wants(s, c) /\ c.ver = s.ver /\ c.listDirty /\ c.latest = 0
  BY <1>6, CommitGoes
<1>8. Shape(c)
  BY <1>6 DEF CommitBranch, Shape, UiParts
<1> HIDE DEF c
<1>9. CASE to.kind = "branch"
  <2>1. Goes(ui, c)
    BY <1>6, <1>7, GoesOn
  <2>2. Wants(ui, c) /\ c.ver = ui.ver
    BY <1>6, <1>7 DEF Wants
  <2>3. Moving(c, jobs, resps, missed)
    BY <1>7 DEF Moving
  <2>4. Decided(c)
    BY <1>1, <1>9
  <2>5. QED
    BY <1>1, <1>7, <1>8, <2>1, <2>2, <2>3, <2>4, GoingPlaces
<1>10. CASE to.kind # "branch"
  <2>1. Decided(s)
    BY <1>1, <1>10
  <2>2. Moving(ui, jobs, resps, missed) \/ Right(ui) \/ s.nav # NoDN
    BY <1>3, <1>4, <1>6, <1>10
  <2>3. QED
    BY <1>1, <1>6, <2>1, <2>2, GoingPlaces
<1>11. QED
  BY <1>9, <1>10

LEMMA StaysPlaces ==
  ASSUME NavInv, NavTyped, PlaceInv,
         GuardSaveCancelled \/ GuardStay \/ VanishedKeep \/ VanishedDiscard
  PROVE  PlaceInv'
<1> DEFINE a == [ui EXCEPT !.treeDirty = TRUE]
           b == [ui EXCEPT !.listDirty = TRUE, !.nav = NoDN]
           c == [ui EXCEPT !.listDirty = TRUE]
           d == [ui EXCEPT !.form = NoForm, !.leaf = NoDN, !.listDirty = TRUE]
           asked == dialog.kind \in {"guard", "vanished"}
           okay  == Moving(ui, jobs, resps, missed) \/ Right(ui)
<1>1. /\ asked
      /\ \/ Decided(a) /\ dialog.kind = "guard" /\ dialog.target.kind = "branch"
         \/ Decided(b)
         \/ Decided(c)
         \/ Decided(ui) /\ dialog.kind = "vanished"
         \/ Decided(d)
  BY DEF GuardSaveCancelled, GuardStay, VanishedKeep, VanishedDiscard
<1>2. Shape(ui)
  BY DEF NavInv
<1>3. /\ Shape(a) /\ a.sent = ui.sent /\ a.list = ui.list /\ Still(ui, a) /\ Wants(ui, a)
      /\ a.latest = ui.latest /\ a.nav = ui.nav /\ a.ver = ui.ver
  BY <1>2 DEF Shape, UiParts, Still, Wants
<1>4. /\ Shape(b) /\ b.sent = ui.sent /\ b.list = ui.list /\ b.leaf = ui.leaf /\ b.form = ui.form
      /\ b.listDirty /\ Wants(ui, b) /\ b.latest = ui.latest /\ b.ver = ui.ver
  BY <1>2 DEF Shape, UiParts, Wants
<1>5. /\ Shape(c) /\ c.sent = ui.sent /\ c.list = ui.list /\ c.leaf = ui.leaf /\ c.form = ui.form
      /\ c.listDirty /\ Wants(ui, c) /\ c.latest = ui.latest /\ c.ver = ui.ver
  BY <1>2 DEF Shape, UiParts, Wants
<1>6. /\ Shape(d) /\ d.list = ui.list /\ d.leaf = NoDN /\ d.form = NoForm
      /\ d.listDirty /\ Wants(ui, d) /\ d.latest = ui.latest /\ d.ver = ui.ver
  BY <1>2 DEF Shape, UiParts, Wants
<1> HIDE DEF a, b, c, d, asked
<1>7. CASE Decided(a) /\ dialog.kind = "guard" /\ dialog.target.kind = "branch"
  <2>1. okay \/ a.nav # NoDN
    BY <1>3, <1>7, Asking
  <2>2. Goes(ui, a)
    BY <1>3, StillGoes
  <2>3. QED
    BY <1>3, <1>7, <2>1, <2>2, GoingPlaces
<1>8. CASE Decided(b)
  <2>1. Goes(ui, b)
    BY <1>4 DEF Goes, Quieter, Dirty
  <2>2. Moving(b, jobs, resps, missed)
    BY <1>4 DEF Moving
  <2>3. QED
    BY <1>1, <1>4, <1>8, <2>1, <2>2, GoingPlaces DEF asked
<1>9. CASE Decided(c)
  <2>1. Goes(ui, c)
    BY <1>5 DEF Goes, Quieter, Dirty
  <2>2. Moving(c, jobs, resps, missed)
    BY <1>5 DEF Moving
  <2>3. QED
    BY <1>1, <1>5, <1>9, <2>1, <2>2, GoingPlaces DEF asked
<1>10. CASE Decided(ui) /\ dialog.kind = "vanished"
  <2>1. Goes(ui, ui) /\ Wants(ui, ui)
    BY StillGoes DEF Still, Wants
  <2>2. okay
    BY <1>10, Asking
  <2>3. QED
    BY <1>2, <1>10, <2>1, <2>2, GoingPlaces
<1>11. CASE Decided(d)
  <2>1. ~NoForm.dirty
    BY DEF NoForm
  <2>2. Goes(ui, d)
    BY <1>6, <2>1 DEF Goes, Dirty
  <2>3. Moving(d, jobs, resps, missed)
    BY <1>6 DEF Moving
  <2>4. QED
    BY <1>1, <1>6, <1>11, <2>2, <2>3, GoingPlaces DEF asked
<1>12. QED
  BY <1>1, <1>7, <1>8, <1>9, <1>10, <1>11

LEMMA RecreatePlaces ==
  ASSUME NavInv, NavTyped, PlaceInv, VanishedRecreate
  PROVE  PlaceInv'
<1> DEFINE x == [what |-> "create", dn |-> dialog.target.dn]
           s == [ui EXCEPT !.sent = Append(@, x)]
<1>1. Decided(s) /\ dialog.kind = "vanished"
  BY DEF VanishedRecreate
<1>2. x.what # "read"
  OBVIOUS
<1> HIDE DEF x
<1>3. Shape(ui)
  BY DEF NavInv
<1> DEFINE u == [ui EXCEPT !.nav = ui.nav, !.sent = Append(@, x)]
<1>4. s = u
  BY <1>3 DEF Shape, UiParts
<1>5. /\ Shape(u) /\ Goes(ui, u) /\ Wants(ui, u)
      /\ u.ver = ui.ver /\ u.latest = ui.latest
  BY <1>2, <1>3, SentGoes
<1> HIDE DEF s, u
<1>6. Moving(ui, jobs, resps, missed) \/ Right(ui)
  BY <1>1, Asking
<1>7. QED
  BY <1>1, <1>4, <1>5, <1>6, GoingPlaces

\* The edits given up: the entry asked for is read, the container gone to, or
\* the form stays without them.
LEMMA DiscardPlaces ==
  ASSUME NavInv, NavTyped, PlaceInv, GuardDiscard
  PROVE  PlaceInv'
<1> DEFINE s  == [ui EXCEPT !.form.dirty = FALSE]
           to == dialog.target
           r  == Reread(s, to.dn)
           c  == CommitBranch(s, to.dn)
<1>1. /\ \/ to.kind = "leaf" /\ Decided(r)
         \/ to.kind = "branch" /\ Decided(c)
         \/ to.kind \notin {"leaf", "branch"} /\ Decided(s)
      /\ dialog.kind = "guard"
  BY DEF GuardDiscard
<1>2. Shape(ui) /\ ui.form \in Forms /\ ui.post = FALSE
  BY DEF NavTyped, UiTyped, PlaceInv, Prompts
<1>3. /\ Shape(s) /\ s.sent = ui.sent /\ s.leaf = ui.leaf /\ s.list = ui.list
      /\ s.ver = ui.ver /\ s.branch = ui.branch /\ s.latest = ui.latest
      /\ s.listDirty = ui.listDirty /\ Wants(ui, s) /\ s.post = FALSE
      /\ s.wantLeaf = ui.wantLeaf /\ s.wantBranch = ui.wantBranch
      /\ s.form = [ui.form EXCEPT !.dirty = FALSE]
  BY <1>2 DEF Shape, UiParts, Wants
<1> HIDE DEF s
<1>4. s.form.entry = ui.form.entry /\ ~Dirty(s)
  BY <1>2, <1>3 DEF Forms, NoForm, Dirty
<1>5. \A d : Awaited(s, jobs, resps, d) <=> Awaited(ui, jobs, resps, d)
  BY <1>3 DEF Awaited
<1>6. Followed(s, jobs, resps, missed)
  BY <1>3, <1>4, <1>5 DEF PlaceInv, Followed
<1>7. Goes(s, r) /\ Wants(s, r) /\ LastRead(r.sent, r.leaf) /\ r.ver = s.ver
  BY <1>3, RereadGoes
<1>8. Goes(s, c) /\ Wants(s, c) /\ c.listDirty /\ c.latest = 0
  BY <1>3, CommitGoes
<1>9. Shape(c)
  BY <1>3 DEF CommitBranch, Shape, UiParts
<1>10. Shape(r) /\ r.latest = s.latest
  <2>1. IsQueue(Append(s.sent, [what |-> "read", dn |-> to.dn]))
    BY <1>3, QueueAppend DEF Shape
  <2>2. QED
    BY <1>3, <2>1 DEF Reread, Shape, UiParts
<1> HIDE DEF r, c, to
<1>11. CASE to.kind = "leaf" /\ Decided(r)
  <2>1. Followed(r, jobs, resps, missed) /\ (Dirty(r) => Dirty(ui))
    BY <1>4, <1>6, <1>7, GoesKeeps DEF Goes
  <2>2. Moving(r, jobs, resps, missed)
    BY <1>7 DEF Moving, Awaited
  <2>3. Led(r, jobs, resps, missed)
    BY <2>2 DEF Led, AtRest
  <2>4. r.wantLeaf = ui.wantLeaf /\ r.wantBranch = ui.wantBranch /\ r.post = FALSE
    BY <1>3, <1>7 DEF Wants
  <2>5. r.latest \in {ui.latest, 0}
    BY <1>3, <1>10
  <2>6. dialog.kind # "vanished"
    BY <1>1
  <2>7. QED
    BY <1>1, <1>10, <1>11, <2>1, <2>2, <2>3, <2>4, <2>5, <2>6, DecidedPlaces
<1>12. CASE to.kind = "branch" /\ Decided(c)
  <2>1. Followed(c, jobs, resps, missed) /\ (Dirty(c) => Dirty(ui))
    BY <1>4, <1>6, <1>8, GoesKeeps DEF Goes
  <2>2. Moving(c, jobs, resps, missed)
    BY <1>8 DEF Moving
  <2>3. Led(c, jobs, resps, missed)
    BY <2>2 DEF Led, AtRest
  <2>4. c.wantLeaf = ui.wantLeaf /\ c.wantBranch = ui.wantBranch /\ c.post = FALSE
    BY <1>3, <1>8 DEF Wants
  <2>5. dialog.kind # "vanished"
    BY <1>1
  <2>6. QED
    BY <1>1, <1>8, <1>9, <1>12, <2>1, <2>2, <2>3, <2>4, <2>5, DecidedPlaces
<1>13. CASE to.kind \notin {"leaf", "branch"} /\ Decided(s)
  <2>1. /\ Moving(ui, jobs, resps, missed) \/ Right(ui)
        /\ Lost(ui, jobs, resps, missed)
    BY <1>1, <1>13, Asking DEF to
  <2>2. /\ Moving(ui, jobs, resps, missed) <=> Moving(s, jobs, resps, missed)
        /\ Right(ui) <=> Right(s)
    BY <1>3, <1>5 DEF Moving, Right, Shown
  <2>3. Led(s, jobs, resps, missed)
    <3>1. CASE Dirty(ui)
      <4>1. s.form # NoForm
        BY <1>2, <1>4, <3>1, NavigationAssumption DEF Forms, NoForm, Dirty
      <4>2. Held(s) \/ Moving(ui, jobs, resps, missed)
        BY <1>3, <2>1, <3>1, <4>1 DEF Lost, Held, Moving
      <4>3. QED
        BY <2>2, <4>2 DEF Led, AtRest
    <3>2. CASE ~Dirty(ui)
      <4>1. s.form = ui.form
        <5>1. \A f \in [entry : DNs, dirty : BOOLEAN] : ~f.dirty => [f EXCEPT !.dirty = FALSE] = f
          OBVIOUS
        <5>2. [NoForm EXCEPT !.dirty = FALSE] = NoForm
          <6>1. \A b, f : f \in [entry : {NoDN}, dirty : {b}] => [f EXCEPT !.dirty = b] = f
            OBVIOUS
          <6>2. NoForm \in [entry : {NoDN}, dirty : {FALSE}]
            BY DEF NoForm
          <6>3. QED
            BY <6>1, <6>2
        <5>3. QED
          BY <1>2, <1>3, <3>2, <5>1, <5>2 DEF Forms, Dirty
      <4>2. Still(ui, s)
        BY <1>3, <4>1 DEF Still
      <4>3. Goes(ui, s)
        BY <1>3, <4>2, StillGoes
      <4>4. QED
        BY <1>3, <4>3, LedOn DEF PlaceInv
    <3>3. QED
      BY <3>1, <3>2
  <2>4. dialog.kind # "vanished" /\ s.latest \in {ui.latest, 0}
    BY <1>1, <1>3
  <2>5. QED
    BY <1>1, <1>3, <1>4, <1>6, <1>13, <2>1, <2>2, <2>3, <2>4, DecidedPlaces
<1>14. QED
  BY <1>1, <1>11, <1>12, <1>13

(***************************************************************************)
(* The worker: a read is answered by what was found, in the same order.    *)
(***************************************************************************)
LEMMA WorkPlaces ==
  ASSUME NavInv, PlaceInv, Work
  PROVE  PlaceInv'
<1> DEFINE j == Head(jobs)
           J == Tail(jobs)
<1>1. /\ jobs # <<>> /\ jobs' = J /\ UNCHANGED <<ui, posted, dialog, missed>>
      /\ WorkRead(j) \/ WorkFind(j) \/ WorkSave(j) \/ WorkCreate(j)
  BY DEF Work, WorkRead, WorkFind, WorkSave, WorkCreate, Answer
<1>2. PICK r : /\ resps' = Append(resps, r) /\ r.what = j.what
               /\ j.what = "read" => r.dn = j.dn
  <2>1. CASE WorkRead(j)
    <3>1. j.what = "read"
      BY <2>1 DEF WorkRead
    <3> DEFINE x == [what |-> "read", ok |-> dir[j.dn] # 0, dn |-> j.dn, ver |-> dir[j.dn]]
    <3>2. resps' = Append(resps, x) /\ x.what = "read" /\ x.dn = j.dn
      BY <2>1 DEF WorkRead, Answer
    <3> HIDE DEF x, j
    <3>3. QED
      BY <3>1, <3>2
  <2>2. CASE WorkFind(j)
    <3>1. PICK ok, H : resps' = Append(resps, [what |-> "find", ok |-> ok, id |-> j.id,
                                               ask |-> j, hits |-> H, vers |-> dir])
      BY <2>2 DEF WorkFind, Answer
    <3>2. j.what = "find"
      BY <2>2 DEF WorkFind
    <3> DEFINE x == [what |-> "find", ok |-> ok, id |-> j.id, ask |-> j, hits |-> H, vers |-> dir]
    <3>3. x.what = "find"
      OBVIOUS
    <3> HIDE DEF x, j
    <3>4. QED
      BY <3>1, <3>2, <3>3 DEF x
  <2>3. CASE WorkSave(j)
    <3>1. PICK ok : resps' = Append(resps, [what |-> "save", ok |-> ok, dn |-> j.dn])
      BY <2>3 DEF WorkSave, Answer
    <3>2. j.what = "save"
      BY <2>3 DEF WorkSave
    <3> DEFINE x == [what |-> "save", ok |-> ok, dn |-> j.dn]
    <3>3. x.what = "save"
      OBVIOUS
    <3> HIDE DEF x, j
    <3>4. QED
      BY <3>1, <3>2, <3>3 DEF x
  <2>4. CASE WorkCreate(j)
    <3>1. PICK ok : resps' = Append(resps, [what |-> "create", ok |-> ok, dn |-> j.dn])
      BY <2>4 DEF WorkCreate, Answer
    <3>2. j.what = "create"
      BY <2>4 DEF WorkCreate
    <3> DEFINE x == [what |-> "create", ok |-> ok, dn |-> j.dn]
    <3>3. x.what = "create"
      OBVIOUS
    <3> HIDE DEF x, j
    <3>4. QED
      BY <3>1, <3>2, <3>3 DEF x
  <2>5. QED
    BY <1>1, <2>1, <2>2, <2>3, <2>4
<1> DEFINE A == Append(resps, r)
<1>3. /\ NoRead(jobs) <=> j.what # "read" /\ NoRead(J)
      /\ \A d : LastRead(jobs, d) <=>
                  LastRead(J, d) \/ (NoRead(J) /\ j.what = "read" /\ j.dn = d)
  BY <1>1, ReadsOfTail DEF NavInv
<1>4. /\ NoRead(A) <=> NoRead(resps) /\ r.what # "read"
      /\ \A d : LastRead(A, d) <=>
                  (r.what = "read" /\ r.dn = d) \/ (r.what # "read" /\ LastRead(resps, d))
  BY ReadsOfAppend DEF NavInv
<1> HIDE DEF A, J, j
<1>5. \A d : Awaited(ui, J, A, d) <=> Awaited(ui, jobs, resps, d)
  BY <1>2, <1>3, <1>4 DEF Awaited
<1>6. NoRead(J) /\ NoRead(A) <=> NoRead(jobs) /\ NoRead(resps)
  BY <1>2, <1>3, <1>4
<1>7. Followed(ui, jobs, resps, missed) => Followed(ui, J, A, missed)
  BY <1>5, <1>6 DEF Followed
<1>8. Moving(ui, jobs, resps, missed) <=> Moving(ui, J, A, missed)
  BY <1>5 DEF Moving
<1>9. Led(ui, jobs, resps, missed) => Led(ui, J, A, missed)
  BY <1>8 DEF Led, AtRest
<1>10. Lost(ui, jobs, resps, missed) => Lost(ui, J, A, missed)
  BY <1>5 DEF Lost
<1>11. jobs' = J /\ resps' = A /\ ui' = ui /\ posted' = posted /\ dialog' = dialog /\ missed' = missed
  BY <1>1, <1>2 DEF A
<1>12. AsksAboutNothing' <=> AsksAboutNothing
  BY <1>11 DEF AsksAboutNothing
<1>13. Prompts'
  BY <1>8, <1>10, <1>11, <1>12 DEF PlaceInv, Prompts
<1>14. Pointing'
  BY <1>8, <1>11 DEF PlaceInv, Pointing, AsksToMove, AsksAboutLeaf, Idle
<1>15. QED
  BY <1>7, <1>9, <1>11, <1>13, <1>14 DEF PlaceInv

LEMMA ElsewherePlaces ==
  ASSUME PlaceInv, UNCHANGED <<jobs, resps, ui, posted, dialog, missed>>
  PROVE  PlaceInv'
<1>1. jobs' = jobs /\ resps' = resps /\ ui' = ui /\ posted' = posted /\ dialog' = dialog /\ missed' = missed
  OBVIOUS
<1>2. AsksAboutNothing' <=> AsksAboutNothing
  BY <1>1 DEF AsksAboutNothing
<1>3. Prompts'
  BY <1>1, <1>2 DEF PlaceInv, Prompts
<1>4. Pointing'
  BY <1>1 DEF PlaceInv, Pointing, AsksToMove, AsksAboutLeaf, Idle
<1>5. QED
  BY <1>1, <1>3, <1>4 DEF PlaceInv

LEMMA PlaceStep ==
  ASSUME NavInv, NavTyped, PlaceInv, [Next]_vars
  PROVE  PlaceInv'
<1>1. CASE \E i : MoveRow(i) \/ MoveBranch(i)
  BY <1>1, RowPlaces, MoveBranchPlaces
<1>2. CASE \E q : TypeFind(q)
  BY <1>2, FindPlaces
<1>3. CASE EditForm \/ Reload \/ RunGuard
  BY <1>3, EditPlaces, ReloadPlaces, RunGuardPlaces
<1>4. CASE Decide
  BY <1>4, SavePlaces, StaysPlaces, DiscardPlaces, RecreatePlaces DEF Decide
<1>5. CASE Work \/ Tick
  BY <1>5, WorkPlaces, TickPlaces
<1>6. CASE \E d \in Others : OthersChange(d)
  <2>1. UNCHANGED <<jobs, resps, ui, posted, dialog, missed>>
    BY <1>6 DEF OthersChange
  <2>2. QED
    BY <2>1, ElsewherePlaces
<1>7. CASE UNCHANGED vars
  <2>1. UNCHANGED <<jobs, resps, ui, posted, dialog, missed>>
    BY <1>7 DEF vars
  <2>2. QED
    BY <2>1, ElsewherePlaces
<1>8. QED
  BY <1>1, <1>2, <1>3, <1>4, <1>5, <1>6, <1>7 DEF Next

LEMMA PlaceInit ==
  ASSUME Init
  PROVE  PlaceInv
<1> DEFINE K == ChildrenIn(Initial)
           s == [ver |-> Initial, kids |-> K, branch |-> Base,
                 leaf |-> NoDN, form |-> NoForm, query |-> Empty, hits |-> NoHits,
                 lastId |-> 0, latest |-> 0, wantLeaf |-> NoDN, wantBranch |-> NoDN,
                 guard |-> NoTarget, nav |-> NoDN, listDirty |-> TRUE,
                 treeDirty |-> TRUE, list |-> [rows |-> <<>>, row |-> 0],
                 tree |-> [rows |-> <<>>, row |-> 1], sent |-> <<>>, post |-> FALSE]
           t == RefreshTree(s)
<1>1. /\ ui = RefreshList(t) /\ jobs = <<>> /\ resps = <<>> /\ missed = {}
      /\ dialog = NoDialog /\ posted = FALSE
  BY DEF Init
<1>2. Initial \in [DNs -> Versions] /\ Base \in DNs
  BY NavigationAssumption
<1>3. K \in [DNs -> Seq(DNs)]
  BY <1>2, ChildrenFacts
<1> HIDE DEF K
<1>4. /\ DOMAIN s = UiParts /\ s.sent = <<>> /\ s.leaf = NoDN
      /\ s.ver = Initial /\ s.kids = K /\ s.branch = Base /\ s.nav = NoDN
      /\ s.wantLeaf = NoDN /\ s.wantBranch = NoDN /\ s.form = NoForm
      /\ s.guard = NoTarget /\ s.hits = NoHits /\ s.listDirty /\ s.post = FALSE
  BY DEF UiParts
<1> HIDE DEF s
<1>5. UiTyped(s)
  BY <1>2, <1>3, <1>4, QueueEmpty, PlaceFacts DEF UiTyped, Shape
<1>6. UiTyped(t)
  BY <1>5, RefreshTreeKeeps DEF Keeps
<1>7. t.listDirty /\ t.leaf = NoDN /\ t.guard = NoTarget /\ t.post = FALSE
  BY <1>4 DEF RefreshTree, RebuildTree, UiParts
<1> HIDE DEF t
<1>8. ui = Repopulate(t)
  BY <1>1, <1>7 DEF RefreshList
<1>9. /\ Right(ui) /\ Led(ui, jobs, resps, missed)
      /\ ui.leaf = NoDN /\ ui.guard = NoTarget /\ ui.post = FALSE
  BY <1>6, <1>7, <1>8, RepopulatePlaces
<1>10. Followed(ui, jobs, resps, missed)
  BY <1>9 DEF Followed
<1>11. dialog.kind = "none" /\ ui.guard.kind = "none"
  BY <1>1, <1>9 DEF NoDialog, NoTarget
<1>12. Prompts
  BY <1>1, <1>9, <1>11 DEF Prompts, AsksAboutNothing
<1>13. QED
  BY <1>9, <1>10, <1>12 DEF PlaceInv, Pointing

LEMMA PlaceSettled ==
  ASSUME NavInv, NavTyped, PlaceInv
  PROVE  PlaceIsKept
<1> SUFFICES ASSUME Quiet, ui.leaf \notin missed
             PROVE  /\ ui.leaf # NoDN => ui.form.entry = ui.leaf
                    /\ ui.leaf \in ToSet(Shown(ui)) /\ ui.nav = NoDN => Shown(ui)[ui.list.row] = ui.leaf
                    /\ ~Dirty(ui) /\ ui.leaf \notin ToSet(Shown(ui)) /\ ~IsHeld
                         => ToSet(Shown(ui)) \subseteq {ui.branch}
  BY DEF PlaceIsKept, Shown
<1>1. /\ jobs = <<>> /\ resps = <<>> /\ ui.sent = <<>> /\ Idle
      /\ ui.wantLeaf = NoDN /\ ~ui.listDirty
  BY DEF Quiet, NavInv
<1>2. \A d : ~Awaited(ui, jobs, resps, d)
  BY <1>1, ReadsOfNone DEF Awaited
<1>3. ~Moving(ui, jobs, resps, missed)
  BY <1>1, <1>2 DEF Moving
<1>4. ui.leaf # NoDN => ui.form.entry = ui.leaf
  BY <1>2 DEF PlaceInv, Followed
<1>5. Right(ui) \/ ui.nav # NoDN
  <2>1. ~AsksToMove
    BY <1>1 DEF AsksToMove
  <2>2. ~AsksAboutLeaf
    BY <1>1 DEF AsksAboutLeaf, Idle, NoDialog
  <2>3. QED
    BY <1>3, <2>1, <2>2 DEF PlaceInv, Pointing
<1>6. AtRest(ui, jobs, resps, missed)
  BY <1>1 DEF PlaceInv, Led
<1>7. Held(ui) => IsHeld
  BY DEF Held, IsHeld
<1>8. QED
  BY <1>3, <1>4, <1>5, <1>6, <1>7 DEF AtRest, Right

\* Once nothing is outstanding, the form, the entry that counts as open and the
\* highlight of the list agree, unless that entry could not be read
\* (leaf_highlight_plan, reconcile_selection, OnRead and the guard's choices).
THEOREM PlaceStaysKept == Spec => []PlaceIsKept
<1>1. Init => PlaceInv
  BY PlaceInit
<1>2. NavInv /\ NavTyped /\ PlaceInv /\ [Next]_vars => PlaceInv'
  BY PlaceStep
<1>3. NavInv /\ NavTyped /\ PlaceInv => PlaceIsKept
  BY PlaceSettled
<1>4. Spec => []NavInv
  BY NavInvariant
<1>5. Spec => []NavTyped
  BY NavigationIsTyped
<1>6. QED
  BY <1>1, <1>2, <1>3, <1>4, <1>5, PTL DEF Spec
=============================================================================
