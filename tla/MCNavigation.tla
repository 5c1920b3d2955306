---------------------------- MODULE MCNavigation ----------------------------
(***************************************************************************)
(* A small instance of Navigation: two entries under the base, one with an *)
(* entry in it, the other a container for an entry that does not exist yet.*)
(***************************************************************************)
EXTENDS Navigation

CONSTANTS base, people, groups, ann, staff, t1, t2

MCDNs == {base, people, groups, ann, staff}
MCParent == [d \in MCDNs \ {base} |->
               CASE d \in {people, groups} -> base [] d = staff -> groups [] OTHER -> people]
MCOrder == <<base, groups, people, ann, staff>>
MCMatches == [t \in {Empty, t1, t2} |->
                CASE t = Empty -> MCDNs \X (0..2) [] t = t1 -> {<<ann, 1>>, <<people, 1>>}
                  [] t = t2 -> {<<staff, 2>>}]
MCInitial == [d \in MCDNs |-> IF d = ann THEN 0 ELSE 1]
=============================================================================
