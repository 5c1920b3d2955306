----------------------------- MODULE MCFormPane -----------------------------
(***************************************************************************)
(* A small instance of FormPane: a person's form whose fields move, leave  *)
(* and return with a second class, and a group's form of other fields.     *)
(***************************************************************************)
EXTENDS FormPane

CONSTANTS ann, staff, person, posix, objectClass, boss, mail, note, olc, x, y, xx

MCLabels == {objectClass, boss, mail, note, olc}
MCRank == <<boss, mail, note, objectClass, olc>>
MCShow == <<objectClass, note>>
MCKind == [l \in MCLabels |->
             CASE l \in {objectClass, boss} -> "launch" [] l = mail -> "list"
               [] l = note -> "text" [] l = olc -> "ordered"]
MCMust == [c \in {person, posix} |-> {}]
MCMay == [c \in {person, posix} |-> IF c = person THEN {boss, mail, note} ELSE {olc, mail}]
\* xx is x with blanks around it.
MCValues == {x, y, xx, Blank}
MCTrim == [t \in MCValues |-> IF t = xx THEN x ELSE t]
MCStored == [e \in {ann, staff} |->
               IF e = ann
               THEN [l \in MCLabels |->
                      CASE l = objectClass -> <<person>> [] l = mail -> <<x, y>>
                        [] l = note -> <<y>> [] l \in {boss, olc} -> <<>>]
               ELSE [l \in MCLabels |->
                      CASE l = objectClass -> <<posix>> [] l = mail -> <<>>
                        [] l \in {boss, note} -> <<>> [] l = olc -> <<[at |-> 3, text |-> x]>>]]
=============================================================================
