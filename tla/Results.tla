-------------------------------- MODULE Results --------------------------------
(***************************************************************************)
(* What the researchers read: the assigned-task rows, summaries and health *)
(* of a run (internal/server/reports.go), over the tables of module        *)
(* Participation.  A report is read in one transaction, so it is a         *)
(* function of the state.  The columns that finish freezes in attempts are *)
(* the variable columns; the rows of open attempts are computed anew.      *)
(*                                                                         *)
(* Arms and task codes are the neutral codes of the run; every session is  *)
(* assigned tasks 0..TaskCount-1.  The policy of attempts and snapshot is  *)
(* v1, as it is for every attempt start has inserted.                      *)
(***************************************************************************)
EXTENDS Participation, AttemptMetrics, Timestamps

CONSTANTS
  Arm,        \* code of the variant each session was allocated
  Accepted    \* per task: the nodes whose content the answer key accepts

ASSUME ResultsAssumption ==
  /\ DOMAIN Arm = Participants
  /\ Accepted \in [0..(TaskCount - 1) -> SUBSET Selectable]
  /\ Null \notin Outcomes
  /\ Null \notin Int
  /\ MaxTime \in Nat /\ MaxTime + ReceiptLifetime \in Seconds

VARIABLE columns  \* attempts: correct, direct, ..., server_elapsed_ms, once finished

resultVars == <<vars, columns>>

\* finish: the outcome is scored with the answer key of the task.
Correct(task, q) == q.outcome = "selected" /\ q.node \in Accepted[task]

\* finish: what its UPDATE of attempts freezes beside the outcome.
FrozenColumns(x) ==
  LET q == x.finish.request
      m == EventMetrics(x.log, q.node, q.outcome, TRUE)
  IN  [correct |-> Correct(x.index, q),
       server_elapsed |-> x.finish.at - x.started_at,
       metrics |-> [m EXCEPT !.direct = @ /\ Correct(x.index, q)]]

ResultsInit == Init /\ columns = [a \in {} |-> {}]

\* finish writes the columns of the attempt it finishes, and nothing else does.
ResultsNext ==
  /\ Next
  /\ LET new == {a \in DOMAIN attempts :
                   attempts[a].finish = Unfinished /\ attempts'[a].finish # Unfinished}
     IN  columns' = [a \in DOMAIN columns \cup new |->
                       IF a \in new THEN FrozenColumns(attempts'[a]) ELSE columns[a]]

ResultsSpec == ResultsInit /\ [][ResultsNext]_resultVars

-----------------------------------------------------------------------------
(* Reports. *)

\* metricsForAttempt: the frozen columns, or what the events say so far.
Finished(a) == attempts[a].finish # Unfinished

MetricsFor(a) ==
  IF Finished(a) THEN columns[a].metrics
  ELSE [EventMetrics(attempts[a].log, Root, NoOutcome, FALSE) EXCEPT !.direct = FALSE]

\* Mutation: the time of an attempt is the time since it started.
ElapsedSinceStart(a) == now - attempts[a].started_at

ElapsedFor(a) ==
  IF Finished(a) THEN columns[a].server_elapsed ELSE now - attempts[a].started_at

NotReached ==
  [quality |-> "not_started", navigation |-> Null, observed |-> 0, epochs |-> 0,
   direct |-> FALSE, backtracks |-> 0]

\* reportRows: the row of task i of session p.
AssignedRow(p, i) ==
  LET shown == AttemptsAt(p, i) # {}
      a == CHOOSE x \in AttemptsAt(p, i) : TRUE
      outcome == IF ~shown THEN "unreached"
                 ELSE IF Finished(a) THEN attempts[a].finish.request.outcome ELSE "unfinished"
  IN  [session |-> p, code |-> Arm[p], task |-> i,
       session_completed |-> sessions[p].completed,
       shown |-> shown, outcome |-> outcome,
       correct |-> IF outcome = "selected" THEN columns[a].correct ELSE Null,
       elapsed |-> IF shown THEN ElapsedFor(a) ELSE Null,
       metrics |-> IF shown THEN MetricsFor(a) ELSE NotReached]

\* eventExport: an attempt, and the events of all attempts, as owners export them.
OwnerAttempt(a) ==
  LET q == attempts[a].finish.request
      scored == Finished(a) /\ q.outcome = "selected"
  IN  [id |-> a, session |-> attempts[a].session, task |-> attempts[a].index,
       next_seq |-> Len(attempts[a].log) + 1,
       outcome |-> IF Finished(a) THEN q.outcome ELSE Null,
       node |-> IF scored THEN q.node ELSE Null,
       correct |-> IF scored THEN columns[a].correct ELSE Null,
       elapsed |-> ElapsedFor(a), metrics |-> MetricsFor(a)]

OwnerExport ==
  [attempts |-> {OwnerAttempt(a) : a \in DOMAIN attempts},
   events |-> [a \in DOMAIN attempts |-> attempts[a].log]]

\* Mutation: tasks that were not reached have no row.
ShownRows ==
  {AssignedRow(x[1], x[2]) : x \in {y \in Participants \X (0..(TaskCount - 1)) :
                                      AttemptsAt(y[1], y[2]) # {}}}

Rows == {AssignedRow(p, i) : p \in Participants, i \in 0..(TaskCount - 1)}

\* summarize: twice the median of the times once sort has put them in order.
DoubleMedian(timed) ==
  LET n == Cardinality(timed)
      order == CHOOSE o \in [1..n -> timed] :
                 /\ \A i, j \in 1..n : o[i] = o[j] => i = j
                 /\ \A i, j \in 1..n : i < j => o[i].metrics.navigation <= o[j].metrics.navigation
      time(i) == order[i].metrics.navigation
  IN  IF n = 0 THEN Null ELSE time((n + 1) \div 2) + time((n + 2) \div 2)

\* summarize over the rows of an arm, or of one task in it.
Summary(rows) ==
  LET count(P(_)) == Cardinality({r \in rows : P(r)})
      outcome(o) == Cardinality({r \in rows : r.outcome = o})
      timed == {r \in rows : /\ r.metrics.quality = "complete"
                             /\ r.metrics.navigation # Null
                             /\ r.outcome \in {"selected", "gave_up"}}
  IN  [participants |-> Cardinality({r.session : r \in rows}),
       completed |-> Cardinality({r.session : r \in {s \in rows : s.session_completed}}),
       assigned |-> Cardinality(rows),
       shown |-> count(LAMBDA r : r.shown),
       correct |-> count(LAMBDA r : r.outcome = "selected" /\ r.correct = TRUE),
       incorrect |-> count(LAMBDA r : r.outcome = "selected" /\ r.correct # TRUE),
       gave_up |-> outcome("gave_up"), skipped |-> outcome("skipped"),
       unfinished |-> outcome("unfinished"), unreached |-> outcome("unreached"),
       median2 |-> DoubleMedian(timed),
       direct |-> count(LAMBDA r : r.metrics.direct),
       backtracks |-> SumFunction([r \in rows |-> r.metrics.backtracks]),
       interrupted |-> count(LAMBDA r : r.metrics.quality = "interrupted")]

\* results
ArmSummary(code) == Summary({r \in Rows : r.code = code})
TaskSummary(code, i) == Summary({r \in Rows : r.code = code /\ r.task = i})

\* reportRows: the counts of the health view.
Health ==
  [enrolled |-> Cardinality(Participants),
   completed |-> Cardinality({p \in Participants : sessions[p].completed}),
   incomplete |-> Cardinality({p \in Participants : ~sessions[p].completed})]
-----------------------------------------------------------------------------
(* Properties. *)

\* Times are stored as text and the sweep of receipts compares texts: a receipt
\* whose last second is ahead is never swept, whatever the fractions of both times,
\* and once that second is over it always is.  Only within a second does the order
\* of the texts go wrong (saveReceipt; the same holds of invitations and targets).
SweptOnTime ==
  \A r \in commands :
    /\ r.expires_at > now => TextOrder[<<r.expires_at, now>>] = {FALSE}
    /\ r.expires_at < now => TextOrder[<<r.expires_at, now>>] = {TRUE}

\* The page was in view from the tree until the answer: one page epoch that begins
\* with the tree on a visible page, and nothing that says it was hidden or resumed.
Watched(log) ==
  /\ log[1].type = "tree_shown" /\ log[1].visible = "yes"
  /\ \A i \in DOMAIN log : log[i].epoch = log[1].epoch /\ log[i].visible # "no"
                           /\ log[i].type \notin {"visibility_hidden", "resume"}

\* README.md: navigation_ms "is present only for complete, uninterrupted
\* selected/gave-up attempts", and then it is the time from the tree to the
\* confirmation; what was observed never exceeds the clock of the pages.  Reloads,
\* second tabs and hidden pages must not slip through (eventMetricsV1).
TimingHonest ==
  \A a \in DOMAIN attempts :
    LET m == MetricsFor(a)
        log == attempts[a].log
        n == Len(log)
        ends == {i \in 1..n : i = n \/ Starts(log, i + 1)}
        begins == {i \in 1..n : Starts(log, i)}
        clock == [i \in 1..n |-> log[i].elapsed]
    IN  /\ m.quality = "complete" <=> Finished(a) /\ Watched(log)
        /\ m.navigation # Null <=>
             m.quality = "complete" /\ attempts[a].finish.request.outcome # "skipped"
        /\ m.navigation # Null => m.navigation = clock[n] - clock[1]
        /\ m.observed \in 0..(SumFunctionOnSet(clock, ends) - SumFunctionOnSet(clock, begins))

\* README.md: direct success is "a correct answer reached without
\* detours/backtracking": the pages entered are the ones on the way from the top
\* to the answer, in order and each once, and the answer key accepts the answer.
DirectIsDirect ==
  \A a \in DOMAIN attempts : MetricsFor(a).direct =>
    LET log == attempts[a].log
        enters == {i \in DOMAIN log : log[i].type = "enter"}
        node == attempts[a].finish.request.node
    IN  /\ node \in Accepted[attempts[a].index]
        /\ \A i \in DOMAIN log : log[i].type \notin {"back", "root"}
        /\ {log[i].node : i \in enters} \in {Ancestors[node], Ancestors[node] \cup {node}}
        /\ \A i, j \in enters : i < j => log[i].node \in Ancestors[log[j].node]

\* What finish has frozen is what a later look at the stored events would give, and
\* the exports agree: the owner's, one row per attempt with its events, and the one
\* of assigned tasks tell the same of every attempt (finish, metricsForAttempt,
\* reportRows, eventExport).
ColumnsHold ==
  /\ DOMAIN columns = {a \in DOMAIN attempts : Finished(a)}
  /\ \A a \in DOMAIN columns : columns[a] = FrozenColumns(attempts[a])
  /\ \A x \in OwnerExport.attempts :
       LET r == AssignedRow(x.session, x.task)
           log == OwnerExport.events[x.id]
       IN  /\ <<x.correct, x.elapsed, x.metrics>> = <<r.correct, r.elapsed, r.metrics>>
           /\ x.next_seq = Len(log) + 1
           /\ IF x.outcome = Null THEN r.outcome = "unfinished"
              ELSE /\ r.outcome = x.outcome
                   /\ [type |-> log[Len(log)].type, outcome |-> log[Len(log)].outcome]
                        = [type |-> "submit", outcome |-> x.outcome]
                   /\ x.node # Null => log[Len(log)].node = x.node

\* Two exports of a run agree on every task that was answered before the first:
\* retries, late events and the clock change nothing but session_completed.
AnsweredRowsStay ==
  [][\A p \in Participants, i \in 0..(TaskCount - 1) :
       AssignedRow(p, i).outcome \in Outcomes =>
         AssignedRow(p, i)' = [AssignedRow(p, i) EXCEPT
                                !.session_completed = sessions'[p].completed]]_resultVars

\* API.md: "Summary values must be derived consistently from assigned task rows".
\* The outcomes of an arm are those of its tasks and partition what was assigned;
\* README.md: a session is complete when "all assigned tasks have a terminal
\* response, including skips"; a median is there when a complete timing is.
SummariesAddUp ==
  LET codes == {Arm[p] : p \in Participants}
      arms == [code \in codes |-> ArmSummary(code)]
  IN  /\ Health.completed = SumFunction([code \in codes |-> arms[code].completed])
      /\ Health.enrolled = SumFunction([code \in codes |-> arms[code].participants])
      /\ \A code \in codes :
           LET arm == arms[code]
               tasks == [i \in 0..(TaskCount - 1) |-> TaskSummary(code, i)]
               members == {p \in Participants : Arm[p] = code}
           IN  /\ \A f \in DOMAIN arm \ {"participants", "completed", "median2"} :
                    arm[f] = SumFunction([i \in DOMAIN tasks |-> tasks[i][f]])
               /\ arm.assigned = TaskCount * Cardinality(members)
               /\ arm.assigned = arm.shown + arm.unreached
               /\ arm.shown =
                    arm.correct + arm.incorrect + arm.gave_up + arm.skipped + arm.unfinished
               /\ arm.direct <= arm.correct
               /\ arm.completed = Cardinality({p \in members :
                    \A i \in 0..(TaskCount - 1) : AssignedRow(p, i).outcome \in Outcomes})
               /\ arm.median2 = Null <=>
                    \A r \in Rows : r.code = code => r.metrics.navigation = Null
=============================================================================
