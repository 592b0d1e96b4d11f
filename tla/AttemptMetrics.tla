----------------------------- MODULE AttemptMetrics -----------------------------
(***************************************************************************)
(* What a stored event stream says of an attempt: eventMetricsV1 of        *)
(* internal/server/events.go, the timing policy visible-terminal-v1.  One  *)
(* pass over the stream in the code, one definition per question here.     *)
(***************************************************************************)
EXTENDS EventStream, Functions

CONSTANT Null     \* SQL NULL: no value

\* The page is visible after event i.  A missing flag at the start of an epoch is
\* not visible; later it leaves things as they were, unless the type tells.
Visible(log) ==
  LET v[i \in 0..Len(log)] ==
        IF i = 0 THEN FALSE
        ELSE IF Starts(log, i) THEN log[i].visible = "yes"
        ELSE IF log[i].type = "visibility_hidden" THEN FALSE
        ELSE IF log[i].type = "visibility_visible" THEN TRUE
        ELSE IF log[i].visible = "absent" THEN v[i - 1]
        ELSE log[i].visible = "yes"
  IN  v

ClockEpochs(log) == Cardinality({i \in DOMAIN log : Starts(log, i)})

\* The intervals between two events of an epoch during which the page was seen to
\* be visible: at the start, and at the end or until it was hidden.
Observed(log) ==
  LET v == Visible(log)
  IN  {i \in DOMAIN log : /\ ~Starts(log, i)
                          /\ v[i - 1]
                          /\ v[i] \/ log[i].type = "visibility_hidden"
                          /\ log[i].type # "resume"}

ObservedNavigation(log) ==
  SumFunction([i \in Observed(log) |-> log[i].elapsed - log[i - 1].elapsed])

\* Mutation: a second page epoch is no interruption.
HiddenOnly(log) ==
  \E i \in DOMAIN log : ~Visible(log)[i] \/ log[i].type = "visibility_hidden"

\* The page was hidden, reloaded, or not known to be visible at some time.
Interrupted(log) ==
  LET v == Visible(log)
  IN  \E i \in DOMAIN log :
        \/ ~v[i]
        \/ log[i].type \in {"resume", "visibility_hidden"}
        \/ Starts(log, i) /\ i > 1
        \/ ~Starts(log, i) /\ v[i] # v[i - 1] /\ log[i].type # "visibility_visible"

Backtracks(log) == Cardinality({i \in DOMAIN log : log[i].type \in {"back", "root"}})

\* The chain from a node to the top, the node included; empty for no node.
Chain(node) == IF node = Root THEN {} ELSE {node} \cup Ancestors[node]

\* Mutation: going back is no detour.
Tolerant(log, selected) ==
  \A i \in DOMAIN log : log[i].type = "select" => log[i].node = selected

\* No way back, no page outside the chain entered, nothing else selected.
Direct(log, selected) ==
  \A i \in DOMAIN log :
    /\ log[i].type \notin {"back", "root"}
    /\ log[i].type = "enter" => log[i].node \in Chain(selected)
    /\ log[i].type = "select" => log[i].node = selected

Quality(log, finalized) ==
  IF \A i \in DOMAIN log : log[i].type # "tree_shown" THEN "not_started"
  ELSE IF finalized /\ ~Interrupted(log) /\ Len(log) > 1 /\ log[Len(log)].type = "submit"
  THEN "complete" ELSE "interrupted"

\* eventMetricsV1
EventMetrics(log, selected, outcome, finalized) ==
  [quality |-> Quality(log, finalized),
   navigation |-> IF Quality(log, finalized) = "complete" /\ outcome \in {"selected", "gave_up"}
                  THEN ObservedNavigation(log) ELSE Null,
   observed |-> ObservedNavigation(log),
   epochs |-> ClockEpochs(log),
   direct |-> Direct(log, selected),
   backtracks |-> Backtracks(log)]
=============================================================================
