------------------------------- MODULE AnswerLog -------------------------------
(***************************************************************************)
(* What README.md promises a participant about answers: "final submissions *)
(* are retry-safe and advance only after the server saves them".  Every    *)
(* task is answered once, in order, with an answer that was confirmed for  *)
(* that task, and no tab shows a task before the answers to the earlier    *)
(* ones are kept.                                                          *)
(***************************************************************************)
EXTENDS Naturals, Sequences

CONSTANTS
  Tabs,     \* the participant's browser tabs
  Replies,  \* possible answers
  Tasks     \* number of tasks

VARIABLES
  pending,  \* confirmed answers to tasks that have none: <<task, answer>>
  stored,   \* the answers kept, in task order
  shown     \* per tab: the task it shows, 0 while it shows none

LogInit ==
  /\ pending = {}
  /\ stored = <<>>
  /\ shown = [t \in Tabs |-> 0]

\* A tab confirms an answer to the current task and shows that it is saving.
LogConfirm(t, a) ==
  /\ pending' = pending \cup {<<Len(stored), a>>}
  /\ shown' = [shown EXCEPT ![t] = 0]
  /\ UNCHANGED stored

\* The answer to the current task is kept; the others come too late.
LogStore(a) ==
  /\ Len(stored) < Tasks
  /\ <<Len(stored), a>> \in pending
  /\ stored' = Append(stored, a)
  /\ pending' = {}
  /\ UNCHANGED shown

\* A tab shows a task that has been reached.
LogShow(t, i) ==
  /\ i <= Len(stored)
  /\ shown' = [shown EXCEPT ![t] = i]
  /\ UNCHANGED <<pending, stored>>

LogNext ==
  \/ \E t \in Tabs, a \in Replies : LogConfirm(t, a)
  \/ \E a \in Replies : LogStore(a)
  \/ \E t \in Tabs, i \in 0..Tasks : LogShow(t, i)

LogSpec == LogInit /\ [][LogNext]_<<pending, stored, shown>>
=============================================================================
