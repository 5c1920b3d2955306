---------------------------- MODULE SavePromise ----------------------------
(***************************************************************************)
(* What the write flow promises the operator about a save of one or more   *)
(* writes, whatever the order in which answers arrive: its outcome is      *)
(* decided once; success is reported only when every write has landed; a   *)
(* conflict, the one outcome that is retried silently, is reported only    *)
(* when nothing has.  A failure promises nothing: an answer can be lost    *)
(* after the write.                                                        *)
(***************************************************************************)
EXTENDS Naturals, Sequences

CONSTANT Sizes  \* the numbers of writes a save may consist of

VARIABLES
  size,    \* the number of writes each save consists of
  todo,    \* the writes of each save that have not landed
  outcome  \* "open" until the save is reported

vars == <<size, todo, outcome>>

Init == size = <<>> /\ todo = <<>> /\ outcome = <<>>

Start(n) ==
  /\ size' = Append(size, n)
  /\ todo' = Append(todo, 1..n)
  /\ outcome' = Append(outcome, "open")

Land(s) ==
  /\ \E p \in todo[s] : todo' = [todo EXCEPT ![s] = @ \ {p}]
  /\ UNCHANGED <<size, outcome>>

Report(s, o) ==
  /\ outcome[s] = "open"
  /\ outcome' = [outcome EXCEPT ![s] = o]
  /\ UNCHANGED <<size, todo>>

Succeed(s) == todo[s] = {} /\ Report(s, "success")

Retry(s) == todo[s] = 1..size[s] /\ Report(s, "conflict")

Fail(s) == Report(s, "error")

Next ==
  \/ \E n \in Sizes : Start(n)
  \/ \E s \in 1..Len(todo) : Land(s) \/ Succeed(s) \/ Retry(s) \/ Fail(s)

Spec == Init /\ [][Next]_vars
=============================================================================
