---------------------------- MODULE MCParticipation ----------------------------
(***************************************************************************)
(* Small instances of Participation: a tree of two nodes, one below the    *)
(* other, and the journals of two pages.  Page e1 shows the tree, enters a *)
(* node and selects its child; page e2 is a reload or a second tab that    *)
(* resumes after the first event, and gives up.                            *)
(***************************************************************************)
EXTENDS Results, TLC

CONSTANTS n1, n2, n3

MCNodes == {n1, n2, n3}
MCParent == [n \in MCNodes |-> IF n = n2 THEN n1 ELSE Root]
MCSelectable == {n2, n3}
MCEventIds == 1..14
MCArm == [p \in Participants |-> "A"]
MCAccepted == [i \in 0..(TaskCount - 1) |-> IF i = 0 THEN {n2} ELSE {n3}]
MCEpochs == {"e1", "e2"}

Ev(id, seq, type, node, epoch, elapsed) ==
  [id |-> id, seq |-> seq, type |-> type, node |-> node, epoch |-> epoch,
   elapsed |-> elapsed, visible |-> "yes", outcome |-> NoOutcome]

Sub(id, seq, node, epoch, outcome) ==
  [id |-> id, seq |-> seq, type |-> "submit", node |-> node, epoch |-> epoch,
   elapsed |-> 2, visible |-> "yes", outcome |-> outcome]

Shown   == Ev(1, 1, "tree_shown", Root, "e1", 0)
Entered == Ev(2, 2, "enter", n1, "e1", 1)
Picked  == Ev(3, 3, "select", n2, "e1", 2)
Resumed == Ev(5, 2, "resume", Root, "e2", 0)

Hidden  == [Ev(8, 2, "visibility_hidden", Root, "e1", 1) EXCEPT !.visible = "no"]
Back    == Ev(9, 3, "back", Root, "e1", 1)
Other   == Ev(10, 2, "select", n3, "e1", 1)

\* Checkpoints of both pages: in one piece, in two, with the first part lost.
MCBatches ==
  {<<Shown>>, <<Shown, Entered>>, <<Entered, Picked>>, <<Picked>>,
   <<Resumed>>, <<Shown, Resumed>>}

Choice   == [outcome |-> "selected", node |-> n2,
             events |-> <<Entered, Picked, Sub(4, 4, n2, "e1", "selected")>>]
GiveUp   == [outcome |-> "gave_up", node |-> Root,
             events |-> <<Resumed, Sub(6, 3, Root, "e2", "gave_up")>>]
Skip     == [outcome |-> "skipped", node |-> Root,
             events |-> <<Sub(7, 1, Root, "e2", "skipped")>>]
\* The stale page submits without its select, or after it backed out.
Unbacked == [outcome |-> "selected", node |-> n2,
             events |-> <<Sub(4, 3, n2, "e1", "selected")>>]

\* Another page chosen at once, after a way back, and giving up behind a hidden page.
Wrong    == [outcome |-> "selected", node |-> n3,
             events |-> <<Other, Sub(11, 3, n3, "e1", "selected")>>]
Detour   == [outcome |-> "selected", node |-> n3,
             events |-> <<Back, [Other EXCEPT !.seq = 4], Sub(12, 5, n3, "e1", "selected")>>]
Absent   == [outcome |-> "gave_up", node |-> Root,
             events |-> <<Hidden, Sub(13, 3, Root, "e1", "gave_up")>>]

MCReportSubmissions == {Choice, GiveUp, Skip, Unbacked, Wrong, Detour, Absent}
MCSubmissions == {Choice, GiveUp, Skip, Unbacked}
Symmetry ==
  Permutations(AttemptIds) \cup Permutations(Commands) \cup Permutations(Participants)
=============================================================================
