---------------------------- MODULE MCEntrySave ----------------------------
(***************************************************************************)
(* Small instances of EntrySave: two attributes, the entries alice and     *)
(* bob, and the name carol alice can be renamed to.                        *)
(***************************************************************************)
EXTENDS EntrySave

CONSTANTS alice, bob, carol, mail, phone, x, y, z

MCInitCsn == [d \in Present |-> IF d = alice THEN 1 ELSE 2]

MCInitVal == [a \in Attrs |-> {x}]

MCRenames == {<<alice, carol>>}

NoRenames == {}

Singles == {{x}, {y}}

Triple == {{x}, {y}, {z}}

Emptyable == {{}, {x}, {y}}

Mixed == {{}, {x}, {x, y}, {x, z}}
=============================================================================
