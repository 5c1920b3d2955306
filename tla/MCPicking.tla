----------------------------- MODULE MCPicking -----------------------------
(***************************************************************************)
(* A small instance of Picking: a person's form with a group number        *)
(* (lookup), a manager (picker) and the object classes; a group's form     *)
(* with its members.                                                       *)
(***************************************************************************)
EXTENDS Picking

CONSTANTS n1, n2, p, q, person, posix, gid, manager, member, oclass, ann, staff, pe

MCKeys == {n1, n2, p, q, person, posix}
MCTerms == {Empty, pe}
MCMatches == [t \in MCTerms \cup MCKeys |->
                CASE t = Empty -> MCKeys [] t = pe -> {q, n2} [] OTHER -> {t}]
\* p and q show the same: a row found again by its label may be the other one
MCLabel == [k \in MCKeys |-> <<"label", IF k = q THEN p ELSE k>>]
MCKind == [f \in {gid, manager, member, oclass} |->
             CASE f = gid -> "lookup" [] f = manager -> "picker"
               [] f = member -> "multi" [] f = oclass -> "oc"]
MCScope == [f \in {gid, manager, member, oclass} |->
              CASE f = gid -> <<n1, n2>> [] f = oclass -> <<person, posix>>
                [] OTHER -> <<p, q>>]
MCFieldsOf == [e \in {ann, staff} |->
                 IF e = ann THEN <<oclass, gid, manager>> ELSE <<member>>]
MCStored == [e \in {ann, staff} |->
               IF e = ann THEN << <<person>>, <<n1>>, <<p>> >> ELSE << <<p>> >>]
=============================================================================
