---------------------------- MODULE MCCreateForm ----------------------------
(***************************************************************************)
(* A small instance of CreateForm: people with a private group each, and   *)
(* services, numbered from ranges of their own.                            *)
(***************************************************************************)
EXTENDS CreateForm

CONSTANTS uid, gid, num, sid, pw, person, service, t

MCFields == {uid, gid, num, sid, pw}
MCRole == [f \in MCFields |->
             CASE f = uid -> "rdn" [] f = gid -> "template" [] f = num -> "number"
               [] f = sid -> "computed" [] f = pw -> "secret"]
MCSource == [f \in {gid, sid} |-> num]
MCRanges == [p \in {person, service} |-> IF p = person THEN 1..2 ELSE 4..5]
=============================================================================
