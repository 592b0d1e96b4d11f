------------------------------- MODULE AnswerBook -------------------------------
(***************************************************************************)
(* What a study needs of the server: each participant is shown the         *)
(* assigned tasks one after the other, answers each of them once before    *)
(* the next is shown, and is complete with the last answer.  There are no  *)
(* commands, retries, event streams, receipts or clocks here.              *)
(***************************************************************************)
EXTENDS Naturals, Sequences

CONSTANTS
  People,   \* enrolled participants
  Tasks,    \* number of tasks assigned to each
  Answers   \* possible answers

VARIABLES
  book,      \* per participant: the answers on record, a set for each task answered
  shown,     \* participants who have been shown a task they have not answered
  complete   \* participants who have answered all tasks

bookVars == <<book, shown, complete>>

BookInit ==
  /\ book = [p \in People |-> <<>>]
  /\ shown = {}
  /\ complete = {}

\* The next task is shown, and timed from now on.
BookShow(p) ==
  /\ Len(book[p]) < Tasks
  /\ p \notin shown
  /\ shown' = shown \cup {p}
  /\ UNCHANGED <<book, complete>>

\* The task that is shown gets its only answer.
BookAnswer(p, a) ==
  /\ p \in shown
  /\ book' = [book EXCEPT ![p] = Append(@, {a})]
  /\ shown' = shown \ {p}
  /\ complete' = IF Len(book[p]) + 1 = Tasks THEN complete \cup {p} ELSE complete

BookNext == \E p \in People : BookShow(p) \/ \E a \in Answers : BookAnswer(p, a)

BookSpec == BookInit /\ [][BookNext]_bookVars
=============================================================================
