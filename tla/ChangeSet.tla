----------------------------- MODULE ChangeSet -----------------------------
(***************************************************************************)
(* The change set a save is made of (src/form/changeset.rs): the diff of   *)
(* an edited entry against the values it was read with, as a set of LDAP   *)
(* attribute modifications, and what a directory server does with them.    *)
(*                                                                         *)
(* An attribute's values are a SET: the code compares them set-wise, and a *)
(* directory keeps no order.  Only the attributes of Ordered (X-ORDERED,   *)
(* whose values carry an {n} prefix) are replaced as a whole.              *)
(***************************************************************************)

CONSTANTS Attrs,    \* attribute names
          Values,   \* attribute values
          Ordered   \* the X-ORDERED attributes

ASSUME OrderedAssumption == Ordered \subseteq Attrs

(***************************************************************************)
(* An entry's attributes; one without values is not in the entry.          *)
(***************************************************************************)
Content == [Attrs -> SUBSET Values]

Empty == [a \in Attrs |-> {}]

ModOps == [attr : Attrs, kind : {"add", "delete", "replace"}, values : SUBSET Values]

Mod(a, k, vs) == [attr |-> a, kind |-> k, values |-> vs]

IsSingle(vs) == \E v \in vs : vs = {v}

(***************************************************************************)
(* The operations that turn the values `old` of attribute a into `new`.    *)
(***************************************************************************)
WholeMods(a, old, new) ==
  IF new = {} THEN {Mod(a, "delete", {})} ELSE {Mod(a, "add", new)}

PartMods(a, old, new) ==
  {m \in {Mod(a, "delete", old \ new), Mod(a, "add", new \ old)} : m.values # {}}

AttrMods(a, old, new) ==
  IF old = new                                     THEN {}
  ELSE IF old = {} \/ new = {}                     THEN WholeMods(a, old, new)
  ELSE IF a \in Ordered \/ (IsSingle(old) /\ IsSingle(new)) THEN {Mod(a, "replace", new)}
  ELSE PartMods(a, old, new)

(***************************************************************************)
(* changeset::diff, without the RDN: every attribute on which the two      *)
(* contents differ contributes its operations.                             *)
(***************************************************************************)
Diff(base, edited) == UNION {AttrMods(a, base[a], edited[a]) : a \in Attrs}

(***************************************************************************)
(* The server's side (RFC 4511, 4.6): all operations of a Modify apply, or *)
(* none.  Adding a value that is there (rc 20) and deleting one that is    *)
(* not (rc 16) are refused.                                                *)
(***************************************************************************)
OpAccepted(m, vs) ==
  /\ m.kind = "add"    => m.values \cap vs = {}
  /\ m.kind = "delete" => vs # {} /\ m.values \subseteq vs

Accepted(mods, content) == \A m \in mods : OpAccepted(m, content[m.attr])

Removed(mods, a, vs) ==
  {v \in vs : \E m \in mods : /\ m.attr = a
                              /\ \/ m.kind = "replace"
                                 \/ m.kind = "delete" /\ (m.values = {} \/ v \in m.values)}

Added(mods, a) == {v \in Values : \E m \in mods : m.attr = a /\ m.kind # "delete" /\ v \in m.values}

Apply(mods, content) ==
  [a \in Attrs |-> (content[a] \ Removed(mods, a, content[a])) \cup Added(mods, a)]

(***************************************************************************)
(* The attributes an edit touches, and the three-way merge it asks for:    *)
(* the edited values on those, the current ones elsewhere.                 *)
(***************************************************************************)
Dirty(base, edited) == {a \in Attrs : edited[a] # base[a]}

Merge(base, edited, current) ==
  [a \in Attrs |-> IF a \in Dirty(base, edited) THEN edited[a] ELSE current[a]]
=============================================================================
