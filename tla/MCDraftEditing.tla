---------------------------- MODULE MCDraftEditing -----------------------------
(***************************************************************************)
(* Small instances of Publication: two bundles to edit, and the tree files *)
(* and bundles that are parsed and validated beside them.                  *)
(***************************************************************************)
EXTENDS Publication

CONSTANTS b0, b1

Symmetry ==
  Permutations(Pages) \cup Permutations(DraftIds) \cup Permutations(VersionIds)
    \cup Permutations(RunIds)

Line(body, indent, kind, id, content) ==
  [body |-> body, indent |-> indent, kind |-> kind, id |-> id, content |-> content,
   end |-> "none", tabbed |-> FALSE, label |-> "plain"]

Blank   == Line("none", 0, "", 0, "")
Heading == Line("title", 0, "", 0, "")

\* Up to four lines of any nesting, groups and pages, every one with an ID of its own.
Nested ==
  UNION {{[i \in 1..n |-> Line("item", s[i].indent, s[i].kind, i,
                               IF s[i].kind = "page" THEN "x" ELSE "")] :
            s \in [1..n -> [indent: {0, 2, 4}, kind: {"group", "page"}]]} : n \in 1..4}

\* Up to two lines of any kind, well-formed or not, with each end and label.
Mixed ==
  LET items == {Line("item", indent, kind, id, content) :
                  indent \in {0, 1, 2}, kind \in {"group", "page"}, id \in {1, 2},
                  content \in {"", "x"}}
      page == Line("item", 0, "page", 1, "x")
      ended == {[l EXCEPT !.end = end] :
                  end \in {"none", "spaces", "wide"},
                  l \in {page} \cup {Line(body, indent, "", 0, "") :
                                       body \in {"none", "title", "mark", "other"},
                                       indent \in {0, 2}}}
      lines == items \cup ended
        \cup {[page EXCEPT !.label = label] : label \in {"spaced", "bom", "control"}}
        \cup {[Blank EXCEPT !.end = "wide", !.tabbed = TRUE], [page EXCEPT !.tabbed = TRUE]}
  IN  UNION {[1..n -> lines] : n \in 0..2}

MCTreeTexts == Nested \cup Mixed

\* Two variants: a page of its own in each tree, and one in both.
MCTrees ==
  [current   |-> <<Heading, Line("item", 0, "group", 1, ""), Line("item", 2, "page", 2, "x"),
                   Line("item", 2, "page", 3, "y")>>,
   candidate |-> <<Line("item", 0, "page", 1, "x"), Blank, Line("item", 2, "page", 2, "z")>>]

Variant(name) == [id |-> name, tree |-> name]

Keys(old, new) == [current |-> old, candidate |-> new]

Task(id, difficulty) ==
  [id |-> id, difficulty |-> difficulty, answers |-> Keys(<<"x">>, <<"x">>)]

Bank == <<Task("e1", "easy"), Task("m1", "medium"), Task("h1", "hard"),
          Task("e2", "easy"), Task("m2", "medium"), Task("h2", "hard")>>

Bundle(tasks, panels) ==
  [perSession |-> 3, variants |-> <<Variant("current"), Variant("candidate")>>,
   tasks |-> tasks, panels |-> panels, trees |-> MCTrees]

\* Up to two panels over a bank of six, five (one easy task for both) or three tasks.
Panels == {<<e, m, h>> : e \in {"e1", "e2", "m1"}, m \in {"m1", "m2"}, h \in {"h1", "h2", "e1"}}
Exposed ==
  {Bundle(tasks, panels) : tasks \in {Bank, SubSeq(Bank, 1, 3), RemoveAt(Bank, 4)},
                           panels \in UNION {[1..n -> Panels] : n \in 0..2}}

\* Any answers to the first of three tasks.
Keyed ==
  {Bundle(<<[Bank[1] EXCEPT !.answers = Keys(old, new)], Bank[2], Bank[3]>>,
          <<<<"e1", "m1", "h1">>>>) :
     old \in UNION {[1..n -> {"x", "y", "z"}] : n \in 0..2},
     new \in UNION {[1..n -> {"x", "y", "z"}] : n \in 0..2}}

\* A study of three tasks, and one in which a task has no answer in a tree.
MCSource ==
  LET study == Bundle(SubSeq(Bank, 1, 3), <<<<"e1", "m1", "h1">>>>)
  IN  (b0 :> study) @@ (b1 :> [study EXCEPT !.tasks[1].answers = Keys(<<"x">>, <<"y">>)])

MCCandidates == Exposed \cup Keyed
=============================================================================
