----------------------------- MODULE AtomicCreate -----------------------------
(***************************************************************************)
(* Creating several entries in one directory transaction: run_add_atomic   *)
(* of src/ldap/worker.rs, which the worker thread runs to its end before   *)
(* it serves anything else, and the replay outside the transaction that    *)
(* looks for the reason when the server refuses the commit without one.    *)
(*                                                                         *)
(* Each request to the server is a step of its own: other clients act      *)
(* between two of them, the server may refuse one, or its answer may be    *)
(* lost after it was, or was not, carried out.                             *)
(***************************************************************************)
EXTENDS Naturals, Sequences, SequencesExt

CONSTANTS
  Names,      \* distinguished names
  NoName,     \* Option::None
  Requests,   \* what is asked for: the companion first, the primary last
  MaxFaults,  \* bound: refusals and lost answers
  MaxOthers   \* bound: entries other clients add or delete

ASSUME AtomicAssumption ==
  NoName \notin Names /\ Requests \subseteq Seq(Names) \ {<<>>} /\ {MaxFaults, MaxOthers} \subseteq Nat

VARIABLES
  dir,     \* the entries: "none", "us" added by the request at work or answered
           \* last, "others"
  work,    \* the atomic add the worker is running
  report,  \* its last answer, and (history) what was left when it was given
  faults, others

atomicVars == <<dir, work, report, faults, others>>

Idle     == [phase |-> "idle"]
NoReport == [ok |-> FALSE, claim |-> "none", named |-> {}, entries |-> {}, left |-> {}]

AtomicInit ==
  /\ dir \in [Names -> {"none", "others"}]
  /\ work = Idle /\ report = NoReport /\ faults = 0 /\ others = 0

Ours(d, entries) == {n \in ToSet(entries) : d[n] = "us"}

\* The request is taken up.
StartAtomic(entries) ==
  /\ work = Idle
  /\ work' = [phase |-> "start", entries |-> entries, next |-> 1,
              created |-> <<>>, culprit |-> NoName, leftovers |-> {}]
  /\ dir' = [n \in Names |-> IF dir[n] = "none" THEN "none" ELSE "others"]
  /\ UNCHANGED <<report, faults, others>>

\* The answer: whether it says that all was written, that nothing was, or
\* neither, and which entries it names.
Replies(ok, claim, named) ==
  /\ work' = Idle
  /\ report' = [ok |-> ok, claim |-> claim, named |-> named,
                entries |-> ToSet(work.entries), left |-> Ours(dir', work.entries)]

Goes(phase) == work' = [work EXCEPT !.phase = phase, !.next = 1] /\ UNCHANGED report

MayFail    == faults < MaxFaults /\ faults' = faults + 1
NoFailure  == UNCHANGED faults
Current    == work.entries[work.next]
IsLast     == work.next = Len(work.entries)

StartTxn ==
  /\ work.phase = "start"
  /\ UNCHANGED <<dir, others>>
  /\ \/ NoFailure /\ Goes("add")
     \/ MayFail /\ Replies(FALSE, "none", {})

\* An add under the transaction control; the server checks it at once or at
\* the commit.  After a refusal the transaction is ended without a commit.
AddInTxn ==
  /\ work.phase = "add"
  /\ UNCHANGED <<dir, others>>
  /\ \/ /\ NoFailure
        /\ IF IsLast THEN Goes("commit")
           ELSE work' = [work EXCEPT !.next = @ + 1] /\ UNCHANGED report
     \/ /\ IF dir[Current] # "none" THEN NoFailure ELSE MayFail
        /\ Replies(FALSE, "nothing", {Current})
     \/ MayFail /\ Replies(FALSE, "none", {})

AllAdded == [n \in Names |-> IF n \in ToSet(work.entries) THEN "us" ELSE dir[n]]
Refusable == \E n \in ToSet(work.entries) : dir[n] # "none"

\* EndTxn: carried out and answered; carried out and the answer lost; refused
\* with a reason; refused without one.
Commit ==
  /\ work.phase = "commit"
  /\ \/ ~Refusable /\ NoFailure /\ dir' = AllAdded /\ Replies(TRUE, "all", {})
     \/ ~Refusable /\ MayFail /\ dir' = AllAdded /\ Replies(FALSE, "none", {})
     \/ MayFail /\ UNCHANGED dir /\ Replies(FALSE, "none", {})
     \/ /\ IF Refusable THEN NoFailure ELSE MayFail
        /\ UNCHANGED dir
        /\ \/ Replies(FALSE, "nothing", ToSet(work.entries))
           \/ Goes("replay")
  /\ UNCHANGED others

\* What to take back after the add of the current entry failed.
\* faulty: that entry too
StoppedAtCulprit == Append(work.created, Current)

Stopped == work.created

\* diagnose_rolled_back_add: the adds again, outside the transaction, up to
\* the first that fails.
ReplayAdd ==
  /\ work.phase = "replay"
  /\ \/ /\ dir[Current] = "none" /\ NoFailure
        /\ dir' = [dir EXCEPT ![Current] = "us"]
        /\ work' = [work EXCEPT !.created = Append(@, Current),
                                !.phase = IF IsLast THEN "undo" ELSE "replay",
                                !.next = IF IsLast THEN 1 ELSE @ + 1]
     \/ /\ IF dir[Current] # "none" THEN NoFailure ELSE MayFail
        /\ UNCHANGED dir
        /\ work' = [work EXCEPT !.culprit = Current, !.phase = "undo", !.created = Stopped]
     \/ /\ dir[Current] = "none" /\ MayFail
        /\ dir' = [dir EXCEPT ![Current] = "us"]
        /\ work' = [work EXCEPT !.culprit = Current, !.phase = "undo", !.created = Stopped]
  /\ UNCHANGED <<report, others>>

\* What it could not take back.
\* faulty: a delete that fails is not remembered
LeftoversForgotten(n) == work.leftovers

Leftovers(n) == work.leftovers \cup {n}

\* What it created is deleted again, newest first.
Undo ==
  /\ work.phase = "undo" /\ work.created # <<>>
  /\ LET n == Last(work.created)
     IN  \/ /\ dir[n] # "none" /\ NoFailure
            /\ dir' = [dir EXCEPT ![n] = "none"]
            /\ work' = [work EXCEPT !.created = Front(work.created)]
         \/ /\ IF dir[n] = "none" THEN NoFailure ELSE MayFail
            /\ UNCHANGED dir
            /\ work' = [work EXCEPT !.created = Front(work.created), !.leftovers = Leftovers(n)]
         \/ /\ dir[n] # "none" /\ MayFail
            /\ dir' = [dir EXCEPT ![n] = "none"]
            /\ work' = [work EXCEPT !.created = Front(work.created), !.leftovers = Leftovers(n)]
  /\ UNCHANGED <<report, others>>

\* atomic_failure_message.
Explain ==
  /\ work.phase = "undo" /\ work.created = <<>>
  /\ UNCHANGED <<dir, faults, others>>
  /\ Replies(FALSE, "nothing",
              work.leftovers \cup IF work.culprit = NoName THEN ToSet(work.entries)
                                  ELSE {work.culprit})

AtomicStep == StartTxn \/ AddInTxn \/ Commit \/ ReplayAdd \/ Undo \/ Explain

\* Another client adds an entry, or deletes one.
OthersAct(n) ==
  /\ others < MaxOthers
  /\ others' = others + 1
  /\ dir' = [dir EXCEPT ![n] = IF @ = "none" THEN "others" ELSE "none"]
  /\ UNCHANGED <<work, report, faults>>

AtomicNext == AtomicStep \/ (\E r \in Requests : StartAtomic(r)) \/ \E n \in Names : OthersAct(n)

AtomicSpec == AtomicInit /\ [][AtomicNext]_atomicVars
-----------------------------------------------------------------------------
\* The answer tells the truth: after a success every entry is there; after a
\* message that nothing was written, whatever of it is there is named in that
\* message, also when deletes fail and answers are lost during the replay
\* (worker.rs "Entries it cannot delete are returned as leftovers - never
\* silently").  Named is not always named truly: an entry the replay added
\* whose answer was lost is called the one whose adding failed, and stays.
AtomicAnswerIsTrue ==
  /\ report.ok => report.left = report.entries
  /\ report.claim = "nothing" => report.left \subseteq report.named

\* The replay takes back what it added and nothing else: an entry of another
\* client goes only when two steps of theirs, a delete and an add, put it in
\* the place of the one added here.
TakesBackItsOwn ==
  [][\A n \in Names :
       dir[n] = "others" /\ dir'[n] = "none" => others' = others + 1 \/ others >= 2]_atomicVars
=============================================================================
