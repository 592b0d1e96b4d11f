------------------------------ MODULE StudyBundles ------------------------------
(***************************************************************************)
(* The study format (internal/study): ParseTree, Validate, the preview of  *)
(* the editor (web/assets/core.mjs) and the assignments that allocateV1    *)
(* and join make of a published bundle.                                    *)
(*                                                                         *)
(* Data abstraction: a line of a tree file is a record of what the two     *)
(* parsers look at; each decides for itself what kind of line it is.       *)
(*   indent   the number of leading spaces                                 *)
(*   body     what follows, up to the white space at the end: "none", a    *)
(*            "title" ("# " and a text), a "mark" (only "# "), an "item"   *)
(*            (a menu line), or "other"                                    *)
(*   end      the white space at the end: "none", "spaces" (spaces and CR, *)
(*            which both trim), or "wide" (with a character that only      *)
(*            JavaScript trims, as a no-break space, a BOM or a tab)       *)
(*   tabbed   whether a tab is left when spaces and CR are trimmed         *)
(*   kind, id, content   the parts of a link, "" for no content            *)
(*   label    "plain", "spaced" (white space to both around it, too long), *)
(*            "bom" (a BOM at an edge: white space to JavaScript only) or  *)
(*            "control" (a NUL or CR inside, or U+0085 at an edge: the     *)
(*            server alone objects)                                        *)
(* The limits on bytes and on the number of nodes, and the texts that only *)
(* have to be there (title, prompt), are left out.                         *)
(***************************************************************************)
EXTENDS Integers, Sequences, FiniteSets, SequencesExt, FiniteSetsExt

MaxDepth == 12
Difficulties == {"easy", "medium", "hard"}
Failed == [nodes |-> <<>>, ok |-> FALSE]

-----------------------------------------------------------------------------
(* ParseTree. *)

\* ParseTree trims spaces and CR at the end, and nothing else, before it looks at a
\* line: what is then empty, and what matches menuLine.
IsBlank(l) == l.body = "none" /\ l.end # "wide"
IsItem(l) == l.body = "item" /\ l.end # "wide"

\* The heading that is skipped: the first one, before any entry. Of "# " alone the
\* space is trimmed.
IsHeading(lines, i) ==
  LET l == lines[i]
  IN  /\ l.indent = 0
      /\ l.body = "title" \/ (l.body = "mark" /\ l.end = "wide")
      /\ \A j \in 1..(i - 1) : IsBlank(lines[j])

Entries(lines) ==
  LET kept == {i \in DOMAIN lines : ~IsBlank(lines[i]) /\ ~IsHeading(lines, i)}
  IN  [n \in 1..Cardinality(kept) |->
         lines[CHOOSE i \in kept : Cardinality({j \in kept : j <= i}) = n]]

Depth(e) == e.indent \div 2

\* Mutation: a level may be skipped.
AnyDeeper(entries, i) ==
  LET e == entries[i]
  IN  /\ IsItem(e)
      /\ e.indent % 2 = 0
      /\ Depth(e) <= (IF i = 1 THEN 0 ELSE MaxDepth)
      /\ e.label \in {"plain", "bom"}
      /\ (e.kind = "group") = (e.content = "")
      /\ \A j \in 1..(i - 1) : entries[j].id # e.id

\* ParseTree: the checks on entry i of the loop over lines.
EntryHolds(entries, i) ==
  LET e == entries[i]
  IN  /\ IsItem(e)
      /\ e.indent % 2 = 0
      /\ Depth(e) <= MaxDepth
      /\ Depth(e) <= (IF i = 1 THEN 0 ELSE Depth(entries[i - 1]) + 1)
      /\ e.label \in {"plain", "bom"}
      /\ (e.kind = "group") = (e.content = "")
      /\ \A j \in 1..(i - 1) : entries[j].id # e.id

\* build: the nodes of one level from the entry at index on, the index after them,
\* and whether every group among them has children.
RECURSIVE Build(_, _, _)
Build(entries, index, depth) ==
  IF index > Len(entries) \/ Depth(entries[index]) # depth
  THEN [nodes |-> <<>>, next |-> index, ok |-> TRUE]
  ELSE LET e == entries[index]
           below == Build(entries, index + 1, depth + 1)
           rest == Build(entries, below.next, depth)
       IN  [nodes |-> <<[id |-> e.id, content |-> e.content, children |-> below.nodes]>>
                        \o rest.nodes,
            next |-> rest.next,
            ok |-> below.ok /\ rest.ok /\ (e.content = "" => below.nodes # <<>>)]

ParseTree(lines) ==
  LET entries == Entries(lines)
      built == Build(entries, 1, 0)
  IN  IF /\ \A i \in DOMAIN lines : ~lines[i].tabbed
         /\ entries # <<>>
         /\ \A i \in DOMAIN entries : EntryHolds(entries, i)
         /\ built.ok
      THEN [nodes |-> built.nodes, ok |-> TRUE]
      ELSE Failed

-----------------------------------------------------------------------------
(* previewTree: advisory, one pass with a stack of the open ancestors. The *)
(* forest is kept as the parent of each node, by position.                 *)

\* previewTree: what the loop warns of at item i, given the indent on the stack.
Warns(items, i) ==
  LET e == items[i]
  IN  \/ e.indent % 2 # 0
      \/ e.indent > 2 * MaxDepth
      \/ e.indent > (IF i = 1 THEN 0 ELSE items[i - 1].indent + 2)
      \/ e.label \in {"spaced", "bom"}
      \/ (e.kind = "group") # (e.content = "")
      \/ \E j \in 1..(i - 1) : items[j].id = e.id

\* previewTree: the stack after an item, the position of every open ancestor.
RECURSIVE Popped(_, _, _)
Popped(items, stack, indent) ==
  IF stack # <<>> /\ items[Last(stack)].indent >= indent
  THEN Popped(items, Front(stack), indent)
  ELSE stack

StackAfter(items) ==
  LET stack[i \in 0..Len(items)] ==
        IF i = 0 THEN <<>> ELSE Append(Popped(items, stack[i - 1], items[i].indent), i)
  IN  stack

PreviewParent(items, i) ==
  LET stack == StackAfter(items)[i]
  IN  IF Len(stack) = 1 THEN 0 ELSE stack[Len(stack) - 1]

ShownContent(item) == IF item.kind = "page" THEN item.content ELSE ""

\* The nested lists that the preview shows.
RECURSIVE Shown(_, _)
Shown(items, parent) ==
  LET own == {i \in DOMAIN items : PreviewParent(items, i) = parent}
      order == SetToSortSeq(own, <)
  IN  [n \in DOMAIN order |->
         [id |-> items[order[n]].id, content |-> ShownContent(items[order[n]]),
          children |-> Shown(items, order[n])]]

\* previewTree trims whatever is white space to JavaScript, but looks for a heading in
\* the untrimmed line.
LooksHeading(l) == l.indent = 0 /\ l.body \in {"title", "mark"}
LooksItem(l) == l.body = "item"

PreviewTree(lines) ==
  LET heading(i) == /\ LooksHeading(lines[i])
                    /\ \A j \in 1..(i - 1) : ~LooksHeading(lines[j]) /\ ~LooksItem(lines[j])
      items == SelectSeq(lines, LooksItem)
  IN  [nodes |-> Shown(items, 0),
       warned |-> \/ \E i \in DOMAIN lines :
                       lines[i].body # "none" /\ ~LooksItem(lines[i]) /\ ~heading(i)
                  \/ \E i \in DOMAIN items : Warns(items, i)
                  \/ \E i \in DOMAIN items :
                       /\ ShownContent(items[i]) = ""
                       /\ \A j \in DOMAIN items : PreviewParent(items, j) # i
                  \/ items = <<>>]

-----------------------------------------------------------------------------
(* Validate. *)

RECURSIVE Contents(_)
Contents(nodes) ==
  UNION {({nodes[i].content} \ {""}) \cup Contents(nodes[i].children) : i \in DOMAIN nodes}

Tree(b, v) == ParseTree(b.trees[v.tree])

\* Validate: the variants, their trees, and no file beside them.
VariantsHold(b) ==
  /\ Len(b.variants) \in 2..10
  /\ \A i, j \in DOMAIN b.variants : b.variants[i].id = b.variants[j].id => i = j
  /\ \A i \in DOMAIN b.variants :
       b.variants[i].tree \in DOMAIN b.trees /\ Tree(b, b.variants[i]).ok
  /\ DOMAIN b.trees = {b.variants[i].tree : i \in DOMAIN b.variants}

\* Mutation: an answer may come from the tree of any variant.
AnswersSomewhere(b, task) ==
  LET reach == UNION {Contents(Tree(b, b.variants[i]).nodes) : i \in DOMAIN b.variants}
  IN  \A i \in DOMAIN b.variants :
        LET id == b.variants[i].id
        IN  /\ id \in DOMAIN task.answers
            /\ task.answers[id] # <<>>
            /\ \A k \in DOMAIN task.answers[id] : task.answers[id][k] \in reach

\* Validate: every variant has answers to the task, pages of its tree, each once.
AnswersHold(b, task) ==
  /\ Cardinality(DOMAIN task.answers) = Len(b.variants)
  /\ \A i \in DOMAIN b.variants :
       LET v == b.variants[i]
       IN  /\ v.id \in DOMAIN task.answers
           /\ task.answers[v.id] # <<>>
           /\ IsInjective(task.answers[v.id])
           /\ Range(task.answers[v.id]) \subseteq Contents(Tree(b, v).nodes)

TasksHold(b) ==
  /\ Len(b.tasks) \in b.perSession..200
  /\ \A i, j \in DOMAIN b.tasks : b.tasks[i].id = b.tasks[j].id => i = j
  /\ \A i \in DOMAIN b.tasks :
       b.tasks[i].difficulty \in Difficulties /\ AnswersHold(b, b.tasks[i])

TaskOf(b, id) == b.tasks[CHOOSE i \in DOMAIN b.tasks : b.tasks[i].id = id]
TaskIds(b) == {b.tasks[i].id : i \in DOMAIN b.tasks}

\* Validate: known tasks, each once, a third of them of each difficulty.
PanelHolds(b, panel) ==
  /\ Len(panel) = b.perSession
  /\ Range(panel) \subseteq TaskIds(b)
  /\ IsInjective(panel)
  /\ \A d \in Difficulties :
       Cardinality({k \in DOMAIN panel : TaskOf(b, panel[k]).difficulty = d})
         = b.perSession \div 3

Exposure(b, id) ==
  Cardinality({<<i, k>> \in (DOMAIN b.panels) \X (1..b.perSession) : b.panels[i][k] = id})

\* Mutation: every task is in some panel.
AllExposed(b) == \A id \in TaskIds(b) : Exposure(b, id) > 0

\* Validate: all tasks have equal, positive exposure across panels.
EvenExposure(b) ==
  \A id \in TaskIds(b) : Exposure(b, id) > 0 /\ Exposure(b, id) = Exposure(b, b.tasks[1].id)

Validate(b) ==
  /\ b.perSession \in 3..30 /\ b.perSession % 3 = 0
  /\ Len(b.panels) \in 1..1000
  /\ VariantsHold(b)
  /\ TasksHold(b)
  /\ \A i \in DOMAIN b.panels : PanelHolds(b, b.panels[i])
  /\ EvenExposure(b)

-----------------------------------------------------------------------------
(* What a run makes of it: allocateV1, join and correct. *)

\* allocateV1: one block, before it is shuffled.
Allocations(b) == (DOMAIN b.variants) \X (DOMAIN b.panels)

\* join: the tasks of a session, before they are shuffled, and the placements the
\* participant can select, by content.
Assigned(b, allocation) == b.panels[allocation[2]]

\* correct: the contents that are accepted for a task in a variant.
AcceptedIn(b, id, v) == Range(TaskOf(b, id).answers[b.variants[v].id])

-----------------------------------------------------------------------------
(* What a study has to be. *)

\* The IDs of a tree in the order of the file.
RECURSIVE Preorder(_)
Preorder(nodes) ==
  IF nodes = <<>> THEN <<>>
  ELSE <<Head(nodes).id>> \o Preorder(Head(nodes).children) \o Preorder(Tail(nodes))

\* A line that the preview takes and the server refuses: a tab, white space at its end
\* that only JavaScript trims, a heading without a title, or a character in its label
\* that only the server looks for.
OnlyPreviewed(l) ==
  \/ l.tabbed
  \/ l.body \in {"none", "item"} /\ l.end = "wide"
  \/ l.body = "mark" /\ l.end # "wide"
  \/ l.body = "item" /\ l.label = "control"

\* Whenever the server accepts a tree file the preview shows the same nested lists, with
\* no line lost and none moved, and warns of nothing but a BOM around a label; and a
\* preview without warnings is refused only for such a line.
Faithful(lines) ==
  LET parsed == ParseTree(lines)
      preview == PreviewTree(lines)
      items == SelectSeq(lines, LooksItem)
  IN  /\ parsed.ok =>
           /\ preview.nodes = parsed.nodes
           /\ Preorder(parsed.nodes) = [i \in DOMAIN items |-> items[i].id]
           /\ preview.warned => \E i \in DOMAIN items : items[i].label = "bom"
      /\ ~preview.warned => parsed.ok \/ \E i \in DOMAIN lines : OnlyPreviewed(lines[i])

\* Every session gets different tasks, as many of each difficulty, each of which it
\* can answer correctly in its tree; and a completed block assigns every task
\* equally often in every arm.
Runnable(b) ==
  /\ \A x \in Allocations(b) :
       LET tasks == Assigned(b, x)
           reach == Contents(Tree(b, b.variants[x[1]]).nodes)
           of(d) == {k \in DOMAIN tasks : TaskOf(b, tasks[k]).difficulty = d}
       IN  /\ Cardinality(Range(tasks)) = b.perSession
           /\ \A d, e \in Difficulties : Cardinality(of(d)) = Cardinality(of(e))
           /\ \A k \in DOMAIN tasks : AcceptedIn(b, tasks[k], x[1]) \cap reach # {}
  /\ \A id, other \in TaskIds(b), v, w \in DOMAIN b.variants :
       Cardinality({x \in Allocations(b) : x[1] = v /\ id \in Range(Assigned(b, x))})
         = Cardinality({x \in Allocations(b) : x[1] = w /\ other \in Range(Assigned(b, x))})
=============================================================================
