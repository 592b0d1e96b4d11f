----------------------------- MODULE ResultsProofs -----------------------------
(***************************************************************************)
(* Proofs about the reports of Results, for any run: what finish freezes,  *)
(* and what two readers, or two reports, say of the same attempt.          *)
(***************************************************************************)
EXTENDS Results, ParticipationProofs

\* A step of the tables and their columns is a step of the tables.
LEMMA TablesStep == [ResultsNext]_resultVars => [Next]_vars
BY DEF ResultsNext, resultVars

LEMMA TablesHold == ResultsSpec => Spec
BY TablesStep, PTL DEF ResultsSpec, Spec, ResultsInit

-----------------------------------------------------------------------------
(* The frozen columns. *)

\* finish wrote the columns of the finished attempts, and they are still what the
\* attempts say.
ColumnsFrozen ==
  /\ DOMAIN columns = {a \in DOMAIN attempts : Finished(a)}
  /\ \A a \in DOMAIN columns : columns[a] = FrozenColumns(attempts[a])

\* An attempt begins unfinished.
LEMMA NewUnfinished ==
  ASSUME TypeOK, Next
  PROVE  \A a \in DOMAIN attempts' \ DOMAIN attempts : attempts'[a].finish = Unfinished
<1>1. ASSUME NEW p \in Participants, NEW c \in Commands, NEW t \in 0..(TaskCount - 1), Start(p, c, t)
      PROVE  \A a \in DOMAIN attempts' \ DOMAIN attempts : attempts'[a].finish = Unfinished
  <2>1. PICK x \in AttemptIds \ DOMAIN attempts :
           /\ DOMAIN attempts' = DOMAIN attempts \cup {x}
           /\ attempts'[x] = [session |-> p, index |-> t, command |-> c,
                              started_at |-> now, log |-> <<>>, finish |-> Unfinished]
    BY <1>1, StartEffect
  <2> QED
    BY <2>1
<1>2. ASSUME NEW p \in Participants, NEW a \in AttemptIds, NEW batch \in Batches, Events(p, a, batch)
      PROVE  DOMAIN attempts' = DOMAIN attempts
  BY <1>2, EventsEffect
<1>3. ASSUME NEW p \in Participants, NEW c \in Commands, NEW a \in AttemptIds, NEW q \in Submissions,
             Finish(p, c, a, q)
      PROVE  DOMAIN attempts' = DOMAIN attempts
  BY <1>3, FinishAttempts
<1> QED
  BY <1>1, <1>2, <1>3 DEF Next, SetSuspended, Tick

\* A step leaves the columns of finished attempts alone and writes those of the
\* attempt that it finishes.
LEMMA ColumnsStep ==
  ASSUME TypeOK, TypeOK', ColumnsFrozen, [ResultsNext]_resultVars
  PROVE  /\ ColumnsFrozen'
         /\ \A a \in DOMAIN columns : columns'[a] = columns[a]
<1>1. \A a \in DOMAIN attempts : Kept(a)
  BY TablesStep, KeptStep
<1>2. CASE UNCHANGED resultVars
  BY <1>2 DEF ColumnsFrozen, Finished, resultVars, vars
<1>3. CASE ResultsNext
  <2> DEFINE new == {a \in DOMAIN attempts :
                       attempts[a].finish = Unfinished /\ attempts'[a].finish # Unfinished}
  <2>1. columns' = [a \in DOMAIN columns \cup new |->
                      IF a \in new THEN FrozenColumns(attempts'[a]) ELSE columns[a]]
    BY <1>3 DEF ResultsNext
  <2>2. \A a \in DOMAIN columns :
          a \in DOMAIN attempts /\ Finished(a) /\ a \notin new /\ attempts'[a] = attempts[a]
    BY <1>1 DEF ColumnsFrozen, Finished, Kept
  <2>3. \A a \in DOMAIN columns : columns'[a] = columns[a]
    BY <2>1, <2>2
  <2>4. \A a \in DOMAIN columns' : columns'[a] = FrozenColumns(attempts'[a])
    BY <2>1, <2>2 DEF ColumnsFrozen
  <2>5. \A a \in DOMAIN attempts' \ DOMAIN attempts : attempts'[a].finish = Unfinished
    BY <1>3, NewUnfinished DEF ResultsNext
  <2>6. \A a \in DOMAIN attempts : a \in DOMAIN attempts'
    BY <1>1 DEF Kept
  <2>7. DOMAIN columns' = {a \in DOMAIN attempts' : attempts'[a].finish # Unfinished}
    <3>1. DOMAIN columns' = DOMAIN columns \cup new
      BY <2>1
    <3>2. \A a \in DOMAIN columns : a \in DOMAIN attempts' /\ attempts'[a].finish # Unfinished
      BY <2>2, <2>6 DEF Finished
    <3>3. \A a \in DOMAIN attempts' : attempts'[a].finish # Unfinished => a \in DOMAIN columns \cup new
      BY <2>5 DEF ColumnsFrozen, Finished
    <3> QED
      BY <2>6, <3>1, <3>2, <3>3
  <2> QED
    BY <2>3, <2>4, <2>7 DEF ColumnsFrozen, Finished
<1> QED
  BY <1>2, <1>3

\* The tables keep their invariant and the columns stay frozen.
LEMMA ColumnsInvariant == ResultsSpec => []IInv /\ []ColumnsFrozen
<1>1. ResultsInit => ColumnsFrozen
  BY DEF ResultsInit, Init, ColumnsFrozen, Finished
<1>2. TypeOK /\ TypeOK' /\ ColumnsFrozen /\ [ResultsNext]_resultVars => ColumnsFrozen'
  BY ColumnsStep
<1> QED
  BY <1>1, <1>2, TablesHold, Invariance, TypeCorrect, PTL DEF ResultsSpec

\* The attempt that a row shows is the only one of its task.
LEMMA OnlyAttempt ==
  ASSUME TasksInOrder, NEW a \in DOMAIN attempts
  PROVE  /\ AttemptsAt(attempts[a].session, attempts[a].index) = {a}
         /\ (CHOOSE x \in AttemptsAt(attempts[a].session, attempts[a].index) : TRUE) = a
<1>1. AttemptsAt(attempts[a].session, attempts[a].index) = {a}
  BY DEF TasksInOrder, AttemptsAt
<1> QED
  BY <1>1

\* The row of a task that has an attempt.
RowOf(a) ==
  LET outcome == IF Finished(a) THEN attempts[a].finish.request.outcome ELSE "unfinished"
  IN  [session |-> attempts[a].session, code |-> Arm[attempts[a].session],
       task |-> attempts[a].index,
       session_completed |-> sessions[attempts[a].session].completed,
       shown |-> TRUE, outcome |-> outcome,
       correct |-> IF outcome = "selected" THEN columns[a].correct ELSE Null,
       elapsed |-> ElapsedFor(a), metrics |-> MetricsFor(a)]

LEMMA RowShown ==
  ASSUME TasksInOrder, NEW a \in DOMAIN attempts
  PROVE  AssignedRow(attempts[a].session, attempts[a].index) = RowOf(a)
<1> DEFINE p == attempts[a].session
           i == attempts[a].index
           some == CHOOSE x \in AttemptsAt(p, i) : TRUE
<1>1. AttemptsAt(p, i) # {} /\ some = a
  BY OnlyAttempt
<1> HIDE DEF some
<1> QED
  BY <1>1 DEF AssignedRow, RowOf, some

\* A finished attempt has an outcome of its own, with which its stream ends.
LEMMA FinishedOutcome ==
  ASSUME TypeOK, FinishedStreams, NEW a \in DOMAIN attempts, Finished(a)
  PROVE  LET q == attempts[a].finish.request
             last == attempts[a].log[Len(attempts[a].log)]
         IN  /\ q.outcome \in Outcomes
             /\ last.type = "submit" /\ last.outcome = q.outcome /\ last.node = q.node
<1>1. attempts[a].finish \in [at: Nat, command: Commands, request: Submissions]
  BY DEF TypeOK, Attempt, Finished
<1>2. attempts[a].finish.request \in Submissions
  BY <1>1
<1>3. attempts[a].finish.request.outcome \in Outcomes
  BY <1>2, SubmissionAssumption
<1>4. EndsRight(attempts[a]) /\ attempts[a].finish # Unfinished
  BY DEF FinishedStreams, Finished
<1> QED
  BY <1>3, <1>4 DEF EndsRight

\* What finish froze is what the stored events say, and both exports and the last
\* stored event agree about every attempt.
LEMMA ExportsAgree ==
  ASSUME IInv, NEW a \in DOMAIN attempts
  PROVE  LET x == OwnerAttempt(a)
             r == AssignedRow(attempts[a].session, attempts[a].index)
             last == attempts[a].log[Len(attempts[a].log)]
         IN  /\ x.correct = r.correct /\ x.elapsed = r.elapsed /\ x.metrics = r.metrics
             /\ x.outcome = Null => r.outcome = "unfinished"
             /\ x.outcome # Null => /\ r.outcome = x.outcome
                                    /\ last.type = "submit" /\ last.outcome = x.outcome
                                    /\ x.node # Null => last.node = x.node
<1> DEFINE x == OwnerAttempt(a)
           q == attempts[a].finish.request
           last == attempts[a].log[Len(attempts[a].log)]
<1>1. TypeOK /\ TasksInOrder /\ FinishedStreams
  BY DEF IInv
<1>2. AssignedRow(attempts[a].session, attempts[a].index) = RowOf(a)
  BY <1>1, RowShown
<1>3. CASE Finished(a)
  <2>1. /\ q.outcome \in Outcomes
        /\ last.type = "submit" /\ last.outcome = q.outcome /\ last.node = q.node
    BY <1>1, <1>3, FinishedOutcome
  <2>2. q.outcome # Null
    BY <2>1, ResultsAssumption
  <2> QED
    BY <1>2, <1>3, <2>1, <2>2 DEF OwnerAttempt, RowOf
<1>4. CASE ~Finished(a)
  BY <1>2, <1>4 DEF OwnerAttempt, RowOf
<1> QED
  BY <1>3, <1>4

\* finish, metricsForAttempt, reportRows and eventExport: the columns that finish froze
\* are those that its attempt still gives, and the exports tell the same of an attempt.
THEOREM ColumnsStayTrue == ResultsSpec => []ColumnsHold
<1>1. ASSUME IInv, ColumnsFrozen PROVE ColumnsHold
  <2>1. ASSUME NEW a \in DOMAIN attempts, NEW x, x = OwnerAttempt(a)
        PROVE  LET r == AssignedRow(x.session, x.task)
                   log == OwnerExport.events[x.id]
               IN  /\ <<x.correct, x.elapsed, x.metrics>> = <<r.correct, r.elapsed, r.metrics>>
                   /\ x.next_seq = Len(log) + 1
                   /\ IF x.outcome = Null THEN r.outcome = "unfinished"
                      ELSE /\ r.outcome = x.outcome
                           /\ [type |-> log[Len(log)].type, outcome |-> log[Len(log)].outcome]
                                = [type |-> "submit", outcome |-> x.outcome]
                           /\ x.node # Null => log[Len(log)].node = x.node
    <3> DEFINE r == AssignedRow(x.session, x.task)
               log == OwnerExport.events[x.id]
    <3>1. /\ x.session = attempts[a].session /\ x.task = attempts[a].index
          /\ log = attempts[a].log /\ x.next_seq = Len(log) + 1
      BY <2>1 DEF OwnerAttempt, OwnerExport
    <3>2. /\ x.correct = r.correct /\ x.elapsed = r.elapsed /\ x.metrics = r.metrics
          /\ x.outcome = Null => r.outcome = "unfinished"
          /\ x.outcome # Null => /\ r.outcome = x.outcome
                                 /\ log[Len(log)].type = "submit"
                                 /\ log[Len(log)].outcome = x.outcome
                                 /\ x.node # Null => log[Len(log)].node = x.node
      <4> HIDE DEF log
      <4> QED
        BY <1>1, <2>1, <3>1, ExportsAgree
    <3>3. x.next_seq = Len(log) + 1
      BY <3>1
    <3> QED
      BY <3>2, <3>3
  <2>2. \A x \in OwnerExport.attempts : \E a \in DOMAIN attempts : x = OwnerAttempt(a)
    BY DEF OwnerExport
  <2>3. ColumnsFrozen
    BY <1>1
  <2> QED
    BY <2>1, <2>2, <2>3 DEF ColumnsHold, ColumnsFrozen
<1> QED
  BY <1>1, ColumnsInvariant, PTL

\* A row with an outcome is that of a finished attempt.
LEMMA AnsweredRow ==
  ASSUME NEW p, NEW i, AssignedRow(p, i).outcome \in Outcomes
  PROVE  \E a \in DOMAIN attempts :
           Finished(a) /\ attempts[a].session = p /\ attempts[a].index = i
<1> DEFINE some == CHOOSE x \in AttemptsAt(p, i) : TRUE
<1>1. /\ AttemptsAt(p, i) # {}
      /\ Finished(some)
  BY DEF AssignedRow, Outcomes
<1>2. some \in AttemptsAt(p, i)
  BY <1>1
<1> HIDE DEF some
<1> QED
  BY <1>1, <1>2 DEF AttemptsAt

\* start, events and finish leave the row of a finished attempt as it is.
LEMMA RowStep ==
  ASSUME IInv, IInv', ColumnsFrozen, [ResultsNext]_resultVars,
         NEW a \in DOMAIN attempts, Finished(a)
  PROVE  RowOf(a)' = [RowOf(a) EXCEPT !.session_completed =
                                        sessions'[attempts[a].session].completed]
<1>1. Kept(a)
  BY TablesStep, KeptStep DEF IInv
<1>2. attempts'[a] = attempts[a] /\ Finished(a)'
  BY <1>1 DEF Kept, Finished
<1>3. a \in DOMAIN columns /\ columns'[a] = columns[a]
  BY ColumnsStep DEF IInv, ColumnsFrozen
<1>4. /\ ElapsedFor(a)' = ElapsedFor(a) /\ MetricsFor(a)' = MetricsFor(a)
      /\ columns'[a].correct = columns[a].correct
  BY <1>2, <1>3 DEF ElapsedFor, MetricsFor
<1> DEFINE session == attempts[a].session
           code == Arm[session]
           task == attempts[a].index
           before == sessions[session].completed
           after == sessions'[session].completed
           outcome == attempts[a].finish.request.outcome
           correct == IF outcome = "selected" THEN columns[a].correct ELSE Null
           elapsed == ElapsedFor(a)
           metrics == MetricsFor(a)
           shown == TRUE
<1>5. RowOf(a) = [session |-> session, code |-> code, task |-> task,
                  session_completed |-> before, shown |-> shown, outcome |-> outcome,
                  correct |-> correct, elapsed |-> elapsed, metrics |-> metrics]
  BY <1>2 DEF RowOf
<1>6. RowOf(a)' = [session |-> session, code |-> code, task |-> task,
                   session_completed |-> after, shown |-> shown, outcome |-> outcome,
                   correct |-> correct, elapsed |-> elapsed, metrics |-> metrics]
  BY <1>2, <1>4 DEF RowOf
<1>7. after = sessions'[attempts[a].session].completed
  OBVIOUS
<1> HIDE DEF session, code, task, before, after, outcome, correct, elapsed, metrics, shown
<1>8. RowOf(a)' = [RowOf(a) EXCEPT !.session_completed = after]
  BY ONLY <1>5, <1>6
<1> QED
  BY <1>7, <1>8

\* reportRows at two times: whatever happens in between, a task that was answered before
\* the first has the same row in the second, but for the completion of its session.
THEOREM AnsweredRowsKept == ResultsSpec => AnsweredRowsStay
<1> DEFINE Stays(p, i) ==
      AssignedRow(p, i).outcome \in Outcomes =>
        AssignedRow(p, i)' = [AssignedRow(p, i) EXCEPT
                               !.session_completed = sessions'[p].completed]
<1>1. ASSUME IInv, IInv', ColumnsFrozen, [ResultsNext]_resultVars,
             NEW p \in Participants, NEW i \in 0..(TaskCount - 1)
      PROVE  Stays(p, i)
  <2> SUFFICES ASSUME AssignedRow(p, i).outcome \in Outcomes
               PROVE  AssignedRow(p, i)' = [AssignedRow(p, i) EXCEPT
                                             !.session_completed = sessions'[p].completed]
    OBVIOUS
  <2>1. PICK a \in DOMAIN attempts :
          Finished(a) /\ attempts[a].session = p /\ attempts[a].index = i
    BY AnsweredRow
  <2>2. AssignedRow(p, i) = RowOf(a)
    BY <1>1, <2>1, RowShown DEF IInv
  <2>3. a \in DOMAIN attempts' /\ attempts'[a] = attempts[a]
    BY <1>1, <2>1, TablesStep, KeptStep DEF IInv, Kept, Finished
  <2>4. AttemptsAt(p, i)' = {a} /\ (CHOOSE x \in AttemptsAt(p, i)' : TRUE) = a
    <3>1. AttemptsAt(p, i)' = {a}
      BY <1>1, <2>1, <2>3 DEF IInv, TasksInOrder, AttemptsAt
    <3> QED
      BY <3>1
  <2>5. AssignedRow(p, i)' = RowOf(a)'
    BY <2>1, <2>3, <2>4 DEF AssignedRow, RowOf
  <2>6. RowOf(a)' = [RowOf(a) EXCEPT !.session_completed =
                                       sessions'[attempts[a].session].completed]
    BY <1>1, <2>1, RowStep
  <2> QED
    BY <2>1, <2>2, <2>5, <2>6
<1>2. IInv /\ IInv' /\ ColumnsFrozen /\ [ResultsNext]_resultVars
        => [\A p \in Participants, i \in 0..(TaskCount - 1) : Stays(p, i)]_resultVars
  BY <1>1
<1> QED
  BY <1>2, ColumnsInvariant, PTL DEF ResultsSpec, AnsweredRowsStay

-----------------------------------------------------------------------------
(* The way through the tree. *)

LEMMA LeastMember ==
  ASSUME NEW S \in SUBSET Nat, S # {}
  PROVE  \E m \in S : \A k \in S : m <= k
<1> DEFINE less == OpToRel(<, Nat)
<1>1. PICK m \in S : \A k \in S : ~(<<k, m>> \in less)
  <2>1. IsWellFoundedOn(less, Nat)
    BY NatLessThanWellFounded
  <2> HIDE DEF less
  <2> QED
    BY <2>1, WFMin
<1>2. \A k \in S : ~(k < m)
  BY <1>1 DEF OpToRel
<1> QED
  BY <1>2

\* The definition of Ancestors is one: there is a function that it describes, namely
\* the members of every set that holds the parent and is closed under parents.
LEMMA AncestorsOf ==
  \A n \in Nodes :
    Ancestors[n] = IF Parent[n] = Root THEN {} ELSE {Parent[n]} \cup Ancestors[Parent[n]]
<1> DEFINE Closed(S) == \A m \in S : Parent[m] # Root => Parent[m] \in S
           Above(n, S) == Closed(S) /\ (Parent[n] # Root => Parent[n] \in S)
           F(n) == {m \in Nodes : \A S \in SUBSET Nodes : Above(n, S) => m \in S}
           f == [n \in Nodes |-> F(n)]
<1>0. \A n \in Nodes : Parent[n] \in Nodes \cup {Root}
  BY TreeAssumption
<1>1. ASSUME NEW n \in Nodes, Parent[n] = Root PROVE F(n) = {}
  <2>1. {} \in SUBSET Nodes /\ Above(n, {})
    BY <1>1
  <2> QED
    BY <2>1
<1>2. ASSUME NEW n \in Nodes, Parent[n] # Root PROVE F(n) = {Parent[n]} \cup F(Parent[n])
  <2> DEFINE p == Parent[n]
  <2>1. p \in Nodes
    BY <1>0, <1>2
  <2>2. Above(n, {p} \cup F(p))
    <3>1. Parent[p] # Root => Parent[p] \in F(p)
      BY <1>0, <2>1
    <3>2. \A m \in F(p) : Parent[m] # Root => Parent[m] \in F(p)
      BY <1>0
    <3> QED
      BY <3>1, <3>2
  <2>3. {p} \cup F(p) \in SUBSET Nodes
    BY <2>1
  <2>4. F(n) \subseteq {p} \cup F(p)
    BY <2>2, <2>3
  <2>5. p \in F(n)
    BY <1>2, <2>1
  <2>6. \A S \in SUBSET Nodes : Above(n, S) => Above(p, S)
    BY <1>2
  <2>7. F(p) \subseteq F(n)
    BY <2>6
  <2> QED
    BY <2>4, <2>5, <2>7
<1> HIDE DEF F
<1>3. f = [n \in Nodes |-> IF Parent[n] = Root THEN {} ELSE {Parent[n]} \cup f[Parent[n]]]
  <2>1. \A n \in Nodes :
          f[n] = IF Parent[n] = Root THEN {} ELSE {Parent[n]} \cup f[Parent[n]]
    BY <1>0, <1>1, <1>2
  <2> QED
    BY <2>1
<1> HIDE DEF f
<1>4. Ancestors = [n \in Nodes |-> IF Parent[n] = Root THEN {}
                                   ELSE {Parent[n]} \cup Ancestors[Parent[n]]]
  BY <1>3, Zenon DEF Ancestors
<1> QED
  BY <1>4

\* A page's ancestors are its parent and the ancestors of that.
LEMMA ChainParent ==
  ASSUME NEW n \in Nodes
  PROVE  Ancestors[n] = Chain(Parent[n])
BY AncestorsOf, TreeAssumption DEF Chain

\* A move takes the participant to its page; other events leave them where they are.
LEMMA LocationStep ==
  ASSUME NEW log \in Seq(Event), NEW k, k \in 1..Len(log)
  PROVE  Location(log, k + 1) = IF log[k].type \in Moves THEN log[k].node ELSE Location(log, k)
<1> DEFINE moves(i) == {j \in 1..(i - 1) : log[j].type \in Moves}
<1>1. k \in Nat /\ k >= 1 /\ (k + 1) - 1 = k /\ \A j : j \in 1..k <=> j = k \/ j \in 1..(k - 1)
  OBVIOUS
<1>2. CASE log[k].type \in Moves
  <2>1. k \in moves(k + 1) /\ moves(k + 1) \subseteq 1..k
    BY <1>1, <1>2
  <2>2. Max(moves(k + 1)) = k
    <3> HIDE DEF moves
    <3>1. \A x \in moves(k + 1) : x \in Nat /\ k >= x
      BY <1>1, <2>1
    <3>2. \A x \in moves(k + 1) : (\A y \in moves(k + 1) : x >= y) => x = k
      BY <1>1, <2>1, <3>1
    <3> QED
      BY <2>1, <3>1, <3>2 DEF Max
  <2> QED
    BY <1>2, <2>1, <2>2 DEF Location
<1>3. CASE log[k].type \notin Moves
  <2>1. moves(k + 1) = moves(k)
    BY <1>1, <1>3
  <2> QED
    BY <1>3, <2>1 DEF Location
<1> QED
  BY <1>2, <1>3

\* The participant came to where they are before event k + 1 down the pages that they
\* entered, each once, and entered no other.
Entered(log, k) == {i \in 1..k : log[i].type = "enter"}

Descended(log, k, here) ==
  /\ here \in Nodes \cup {Root}
  /\ \A n : (\E i \in Entered(log, k) : log[i].node = n) <=> n \in Chain(here)
  /\ \A i, j \in Entered(log, k) : i < j => log[i].node \in Ancestors[log[j].node]

LEMMA DescentStep ==
  ASSUME NEW log \in Seq(Event), NEW k, k \in 1..Len(log),
         ValidMove(log[k], k, Len(log), Location(log, k)), WellFormed(log[k]),
         log[k].type \notin {"back", "root"},
         Descended(log, k - 1, Location(log, k))
  PROVE  Descended(log, k, Location(log, k + 1))
<1> DEFINE here == Location(log, k)
           n == log[k].node
<1>1. k \in Nat /\ \A i : i \in 1..k <=> i = k \/ i \in 1..(k - 1)
  OBVIOUS
<1>2. CASE log[k].type # "enter"
  <2>1. Entered(log, k) = Entered(log, k - 1)
    BY <1>1, <1>2 DEF Entered
  <2>2. Location(log, k + 1) = here
    BY <1>2, LocationStep DEF Moves
  <2> QED
    BY <2>1, <2>2 DEF Descended
<1>3. CASE log[k].type = "enter"
  <2>1. n \in Nodes /\ Parent[n] = here
    BY <1>3 DEF ValidMove, WellFormed
  <2>2. Location(log, k + 1) = n
    BY <1>3, LocationStep DEF Moves
  <2>3. Ancestors[n] = Chain(here) /\ Chain(n) = {n} \cup Chain(here)
    BY <2>1, ChainParent, TreeAssumption DEF Chain
  <2>4. \A i : i \in Entered(log, k) <=> i = k \/ i \in Entered(log, k - 1)
    BY <1>1, <1>3 DEF Entered
  <2>5. \A m : (\E i \in Entered(log, k) : log[i].node = m) <=> m \in Chain(n)
    BY <2>3, <2>4 DEF Descended
  <2>6. ASSUME NEW i \in Entered(log, k), NEW j \in Entered(log, k), i < j
        PROVE  log[i].node \in Ancestors[log[j].node]
    <3>1. i \in Entered(log, k - 1)
      BY <1>1, <2>4, <2>6 DEF Entered
    <3>2. CASE j = k
      BY <2>3, <3>1, <3>2 DEF Descended
    <3>3. CASE j \in Entered(log, k - 1)
      BY <2>6, <3>1, <3>3 DEF Descended
    <3> QED
      BY <2>4, <3>2, <3>3
  <2> QED
    BY <2>1, <2>2, <2>5, <2>6 DEF Descended
<1> QED
  BY <1>2, <1>3

\* Without a way back, every prefix of a stream is a descent.
LEMMA StreamDescends ==
  ASSUME NEW log \in Seq(Event), ValidStream(log), \A i \in 1..Len(log) : WellFormed(log[i]),
         \A i \in 1..Len(log) : log[i].type \notin {"back", "root"}
  PROVE  \A k \in 0..Len(log) : Descended(log, k, Location(log, k + 1))
<1> SUFFICES ASSUME \E k \in 0..Len(log) : ~Descended(log, k, Location(log, k + 1)) PROVE FALSE
  OBVIOUS
<1> DEFINE bad == {k \in 0..Len(log) : ~Descended(log, k, Location(log, k + 1))}
<1>1. bad \in SUBSET Nat /\ bad # {}
  OBVIOUS
<1> HIDE DEF bad
<1>2. PICK m \in bad : \A k \in bad : m <= k
  BY <1>1, LeastMember
<1>3. m \in 0..Len(log) /\ ~Descended(log, m, Location(log, m + 1))
  BY DEF bad
<1>4. m # 0
  <2>1. Location(log, 0 + 1) = Root /\ Entered(log, 0) = {}
    BY DEF Location, Entered
  <2>2. Descended(log, 0, Location(log, 0 + 1))
    BY <2>1 DEF Descended, Chain
  <2> QED
    BY <1>3, <2>2
<1>5. m \in 1..Len(log) /\ m - 1 \in 0..Len(log) /\ (m - 1) + 1 = m /\ ~(m <= m - 1)
  BY <1>3, <1>4
<1>6. Descended(log, m - 1, Location(log, m))
  <2>1. m - 1 \notin bad
    BY <1>2, <1>5
  <2> QED
    BY <1>5, <2>1 DEF bad
<1> QED
  BY <1>3, <1>5, <1>6, DescentStep DEF ValidStream

\* Every stored event has passed the checks on single events, and every stream those on
\* streams (appendEvents).
EventsSound ==
  /\ StreamsValid
  /\ \A a \in DOMAIN attempts : \A i \in 1..Len(attempts[a].log) : WellFormed(attempts[a].log[i])

LEMMA AppendedSound ==
  ASSUME NEW saved \in Seq(Event), NEW incoming \in Seq(Event), NEW frozen,
         Appendable(saved, incoming, frozen), \A i \in 1..Len(saved) : WellFormed(saved[i])
  PROVE  \A i \in 1..Len(Merged(saved, incoming)) : WellFormed(Merged(saved, incoming)[i])
<1> DEFINE log == Merged(saved, incoming)
<1>1. InSequence(saved, incoming) /\ \A s \in (Len(saved) + 1)..Len(log) : WellFormed(log[s])
  BY DEF Appendable
<1>2. log \in Seq(Event) /\ \A s \in 1..Len(saved) : log[s] = saved[s]
  BY <1>1, MergedStream, Zenon
<1>3. Len(saved) \in Nat /\ Len(log) \in Nat
  BY <1>2
<1> HIDE DEF log
<1>4. \A i \in 1..Len(log) : i \in 1..Len(saved) \/ i \in (Len(saved) + 1)..Len(log)
  BY <1>3
<1>5. \A i \in 1..Len(log) : WellFormed(log[i])
  BY <1>1, <1>2, <1>4
<1> QED
  BY <1>5 DEF log

LEMMA EventsSoundStep == TypeOK /\ EventsSound /\ [Next]_vars => EventsSound'
<1> SUFFICES ASSUME TypeOK, EventsSound, [Next]_vars PROVE EventsSound'
  OBVIOUS
<1> DEFINE Sound(log) == \A i \in 1..Len(log) : WellFormed(log[i])
<1>0. StreamsValid' /\ \A a \in DOMAIN attempts : Sound(attempts[a].log)
  BY StreamsValidStep DEF EventsSound
<1>1. ASSUME \A a \in DOMAIN attempts' : Sound(attempts'[a].log) PROVE EventsSound'
  BY <1>0, <1>1 DEF EventsSound
<1>2. \A a \in DOMAIN attempts : attempts[a].log \in Seq(Event)
  BY DEF TypeOK, Attempt
<1> HIDE DEF Sound
<1>3. ASSUME NEW p \in Participants, NEW c \in Commands, NEW t \in 0..(TaskCount - 1),
             Start(p, c, t)
      PROVE  EventsSound'
  <2>1. PICK a \in AttemptIds \ DOMAIN attempts :
           /\ DOMAIN attempts' = DOMAIN attempts \cup {a}
           /\ \A x \in DOMAIN attempts : attempts'[x] = attempts[x]
           /\ attempts'[a] = [session |-> p, index |-> t, command |-> c,
                              started_at |-> now, log |-> <<>>, finish |-> Unfinished]
    BY <1>3, StartEffect
  <2>2. Sound(<<>>)
    BY DEF Sound
  <2> QED
    BY <1>0, <1>1, <2>1, <2>2
<1>4. ASSUME NEW p \in Participants, NEW a \in AttemptIds, NEW batch \in Batches,
             Events(p, a, batch)
      PROVE  EventsSound'
  <2>1. /\ a \in DOMAIN attempts /\ DOMAIN attempts' = DOMAIN attempts
        /\ \A x \in DOMAIN attempts : x # a => attempts'[x] = attempts[x]
        /\ attempts'[a].log = Merged(attempts[a].log, batch)
        /\ Appendable(attempts[a].log, batch, Frozen(p, a)) /\ batch \in Seq(Event)
    BY <1>4, EventsEffect DEF AcceptsCheckpoint
  <2>2. Sound(attempts'[a].log)
    BY <1>0, <1>2, <2>1, AppendedSound DEF Sound
  <2> QED
    BY <1>0, <1>1, <2>1, <2>2
<1>5. ASSUME NEW p \in Participants, NEW c \in Commands, NEW a \in AttemptIds,
             NEW q \in Submissions, Finish(p, c, a, q)
      PROVE  EventsSound'
  <2>1. a \in DOMAIN attempts /\ Appendable(attempts[a].log, q.events, FALSE) /\ q.events \in Seq(Event)
    BY <1>5, FinishGuards DEF AcceptsTerminal
  <2>2. /\ DOMAIN attempts' = DOMAIN attempts
        /\ \A x \in DOMAIN attempts : x # a => attempts'[x] = attempts[x]
        /\ attempts'[a].log = Merged(attempts[a].log, q.events)
    BY <1>5, FinishAttempts
  <2>3. Sound(attempts'[a].log)
    BY <1>0, <1>2, <2>1, <2>2, AppendedSound DEF Sound
  <2> QED
    BY <1>0, <1>1, <2>2, <2>3
<1>6. CASE UNCHANGED attempts
  BY <1>0, <1>1, <1>6
<1> QED
  BY <1>3, <1>4, <1>5, <1>6 DEF Next, SetSuspended, Tick, vars

\* A direct success of an attempt whose columns are frozen: no way back, the pages of the
\* descent, and an answer that the participant could see from its end.
LEMMA DirectDescent ==
  ASSUME NEW log \in Seq(Event), ValidStream(log), \A i \in 1..Len(log) : WellFormed(log[i]),
         NEW node, Direct(log, node), Chosen(log, node)
  PROVE  LET enters == {i \in DOMAIN log : log[i].type = "enter"}
         IN  /\ \A i \in DOMAIN log : log[i].type \notin {"back", "root"}
             /\ {log[i].node : i \in enters} \in {Ancestors[node], Ancestors[node] \cup {node}}
             /\ \A i, j \in enters : i < j => log[i].node \in Ancestors[log[j].node]
<1> DEFINE n == Len(log)
           enters == {i \in DOMAIN log : log[i].type = "enter"}
           here == Location(log, n + 1)
<1>0. n \in Nat /\ DOMAIN log = 1..n /\ n \in 0..n
  OBVIOUS
<1>1. \A i \in 1..n : log[i].type \notin {"back", "root"}
  BY <1>0 DEF Direct
<1>2. \A k \in 0..n : Descended(log, k, Location(log, k + 1))
  BY <1>1, StreamDescends
<1>3. Descended(log, n, here) /\ Entered(log, n) = enters
  BY <1>0, <1>2 DEF Entered
<1>4. {log[i].node : i \in enters} = Chain(here)
  BY <1>3 DEF Descended
<1>5. PICK i \in 1..n : /\ log[i].type = "select" /\ log[i].node = node
                        /\ \A j \in (i + 1)..n : log[j].type \notin Moves \cup {"select"}
  BY DEF Chosen
<1>6. Descended(log, i - 1, Location(log, i)) /\ i - 1 \in Nat
  <2>1. i - 1 \in 0..n /\ (i - 1) + 1 = i
    BY <1>0
  <2> QED
    BY <1>2, <2>1
<1>7. \A x \in 1..n : x \in Entered(log, n) <=> x \in Entered(log, i - 1)
  <2>1. \A x \in 1..n : x \in 1..(i - 1) \/ x = i \/ x \in (i + 1)..n
    BY <1>0
  <2>2. \A x \in 1..(i - 1) : x \in 1..n
    BY <1>0
  <2> QED
    BY <1>5, <2>1, <2>2 DEF Entered, Moves
<1>8. {log[x].node : x \in enters} = Chain(Location(log, i))
  <2>1. \A x \in Entered(log, i - 1) : x \in 1..n
    BY <1>0 DEF Entered
  <2>2. Entered(log, i - 1) = enters
    BY <1>3, <1>7, <2>1 DEF Entered
  <2> QED
    BY <1>6, <2>2 DEF Descended
<1>9. node \in Nodes /\ (node = Location(log, i) \/ Parent[node] = Location(log, i))
  <2>1. WellFormed(log[i]) /\ ValidMove(log[i], i, n, Location(log, i))
    BY DEF ValidStream
  <2>2. node \in Selectable /\ (node = Location(log, i) \/ Parent[node] = Location(log, i))
    BY <1>5, <2>1 DEF WellFormed, ValidMove
  <2> QED
    BY <2>2, TreeAssumption
<1>10. {log[x].node : x \in enters} \in {Ancestors[node], Ancestors[node] \cup {node}}
  <2>1. CASE node = Location(log, i)
    BY <1>8, <1>9, <2>1, TreeAssumption DEF Chain
  <2>2. CASE Parent[node] = Location(log, i)
    BY <1>8, <1>9, <2>2, ChainParent
  <2> QED
    BY <1>9, <2>1, <2>2
<1>11. \A x, y \in enters : x < y => log[x].node \in Ancestors[log[y].node]
  BY <1>3 DEF Descended
<1> QED
  BY <1>0, <1>1, <1>10, <1>11

\* finish against eventMetricsV1: an attempt whose frozen columns call it a direct success
\* went down from the top to an accepted answer, page by page and without a detour.
THEOREM DirectMeansDirect == ResultsSpec => []DirectIsDirect
<1>1. Init => EventsSound
  BY DEF Init, EventsSound, StreamsValid
<1>2. ASSUME IInv, ColumnsFrozen, EventsSound PROVE DirectIsDirect
  <2> SUFFICES ASSUME NEW a \in DOMAIN attempts, MetricsFor(a).direct
               PROVE  LET log == attempts[a].log
                          enters == {i \in DOMAIN log : log[i].type = "enter"}
                          node == attempts[a].finish.request.node
                      IN  /\ node \in Accepted[attempts[a].index]
                          /\ \A i \in DOMAIN log : log[i].type \notin {"back", "root"}
                          /\ {log[i].node : i \in enters}
                               \in {Ancestors[node], Ancestors[node] \cup {node}}
                          /\ \A i, j \in enters : i < j => log[i].node \in Ancestors[log[j].node]
    BY DEF DirectIsDirect
  <2> DEFINE log == attempts[a].log
             q == attempts[a].finish.request
  <2>1. Finished(a)
    BY DEF MetricsFor
  <2>2. Direct(log, q.node) /\ Correct(attempts[a].index, q)
    <3> PICK m : m = EventMetrics(log, q.node, q.outcome, TRUE)
      OBVIOUS
    <3>1. columns[a].metrics = [m EXCEPT !.direct = m.direct /\ Correct(attempts[a].index, q)]
      <4>1. columns[a] = FrozenColumns(attempts[a])
        BY <1>2, <2>1 DEF ColumnsFrozen
      <4>2. FrozenColumns(attempts[a]).metrics =
              [m EXCEPT !.direct = m.direct /\ Correct(attempts[a].index, q)]
        BY DEF FrozenColumns
      <4> QED
        BY <4>1, <4>2
    <3>2. "direct" \in DOMAIN m /\ m.direct = Direct(log, q.node)
      BY DEF EventMetrics
    <3>3. columns[a].metrics.direct = (m.direct /\ Correct(attempts[a].index, q))
      BY <3>1, <3>2
    <3> QED
      BY <2>1, <3>2, <3>3 DEF MetricsFor
  <2>3. Direct(log, q.node) /\ q.outcome = "selected" /\ q.node \in Accepted[attempts[a].index]
    BY <2>2 DEF Correct
  <2>4. Chosen(log, q.node)
    BY <1>2, <2>1, <2>3 DEF IInv, FinishedStreams, EndsRight, Finished
  <2>5. log \in Seq(Event) /\ ValidStream(log) /\ \A i \in 1..Len(log) : WellFormed(log[i])
    BY <1>2 DEF IInv, TypeOK, Attempt, EventsSound, StreamsValid
  <2> QED
    BY <2>3, <2>4, <2>5, DirectDescent
<1>3. Spec => []EventsSound
  BY <1>1, EventsSoundStep, TypeCorrect, PTL DEF Spec
<1> QED
  BY <1>2, <1>3, TablesHold, ColumnsInvariant, PTL

-----------------------------------------------------------------------------
(* Sums over finite sets. *)

\* Induction over the subsets of a finite set: a property that a set has whenever all its
\* proper subsets have it is one of all subsets.
LEMMA SetDescent ==
  ASSUME NEW S, IsFiniteSet(S), NEW P \in SUBSET SUBSET S,
         \A T \in SUBSET S : (\A U \in SUBSET T : U # T => U \in P) => T \in P
  PROVE  \A T \in SUBSET S : T \in P
<1> SUFFICES ASSUME (SUBSET S) \ P # {} PROVE FALSE
  OBVIOUS
<1> DEFINE sizes == {Cardinality(T) : T \in (SUBSET S) \ P}
<1>1. \A T \in SUBSET S : IsFiniteSet(T) /\ Cardinality(T) \in Nat
  BY FS_Subset, FS_CardinalityType
<1>2. PICK m \in sizes : \A k \in sizes : m <= k
  <2>1. sizes \in SUBSET Nat /\ sizes # {}
    BY <1>1
  <2> HIDE DEF sizes
  <2> QED
    BY <2>1, LeastMember
<1>3. PICK T \in (SUBSET S) \ P : Cardinality(T) = m
  BY <1>2
<1>4. ASSUME NEW U \in SUBSET T, U # T PROVE U \in P
  <2>1. Cardinality(U) < m /\ U \in SUBSET S
    BY <1>1, <1>3, <1>4, FS_Subset
  <2> QED
    BY <1>1, <1>2, <2>1
<1> QED
  BY <1>3, <1>4

\* The recursive function inside a sum exists, up to any size of set.
Summing(f, S, g) ==
  g = [s \in SUBSET S |-> IF s = {} THEN 0
                          ELSE f[CHOOSE x \in s : TRUE] + g[s \ {CHOOSE x \in s : TRUE}]]

LEMMA SumExists ==
  ASSUME NEW S, IsFiniteSet(S), NEW f
  PROVE  \E g : Summing(f, S, g)
<1> DEFINE c(s) == CHOOSE x \in s : TRUE
           Sub(n) == {s \in SUBSET S : Cardinality(s) <= n}
           Sums(g, n) == g = [s \in Sub(n) |-> IF s = {} THEN 0 ELSE f[c(s)] + g[s \ {c(s)}]]
           P == {n \in Nat : \E g : Sums(g, n)}
<1>1. \A s \in SUBSET S : /\ IsFiniteSet(s) /\ Cardinality(s) \in Nat
                          /\ Cardinality(s) = 0 <=> s = {}
  BY FS_Subset, FS_CardinalityType, FS_EmptySet
<1>2. \A s \in SUBSET S : s # {} => c(s) \in s
  OBVIOUS
<1>3. \A s \in SUBSET S : s # {} => /\ s \ {c(s)} \in SUBSET S
                                    /\ Cardinality(s \ {c(s)}) = Cardinality(s) - 1
  BY <1>1, <1>2, FS_RemoveElement
<1> HIDE DEF c
<1>4. 0 \in P
  <2>1. Sub(0) = {{}}
    BY <1>1
  <2>2. Sums([s \in Sub(0) |-> 0], 0)
    BY <2>1
  <2> QED
    BY <2>2
<1>5. ASSUME NEW n \in P PROVE n + 1 \in P
  <2>1. PICK g : Sums(g, n)
    OBVIOUS
  <2> DEFINE h == [s \in Sub(n + 1) |-> IF s = {} THEN 0 ELSE f[c(s)] + g[s \ {c(s)}]]
  <2>2. \A s \in Sub(n + 1) : s # {} => s \ {c(s)} \in Sub(n)
    BY <1>1, <1>3
  <2>3. \A s \in Sub(n) : s \in Sub(n + 1)
    BY <1>1
  <2>4. \A s \in Sub(n) : h[s] = g[s]
    BY <2>1, <2>3
  <2>5. \A s \in Sub(n + 1) : h[s] = IF s = {} THEN 0 ELSE f[c(s)] + h[s \ {c(s)}]
    BY <2>2, <2>4
  <2>6. Sums(h, n + 1)
    BY <2>5
  <2>7. n + 1 \in Nat
    OBVIOUS
  <2> HIDE DEF h, Sums
  <2> QED
    BY <2>6, <2>7, Zenon
<1>6. Cardinality(S) \in P
  <2>1. P = Nat
    <3> SUFFICES ASSUME Nat \ P # {} PROVE FALSE
      OBVIOUS
    <3> HIDE DEF P
    <3>1. PICK m \in Nat \ P : \A k \in Nat \ P : m <= k
      BY LeastMember
    <3>2. m - 1 \in Nat /\ ~(m <= m - 1) /\ (m - 1) + 1 = m
      BY <1>4
    <3> QED
      BY <1>5, <3>1, <3>2
  <2> QED
    BY <1>1, <2>1
<1>7. Sub(Cardinality(S)) = SUBSET S
  BY FS_Subset
<1> QED
  BY <1>6, <1>7 DEF c, Summing
\* What SumFunctionOnSet computes is such a function.
LEMMA SumEquation ==
  ASSUME NEW S, IsFiniteSet(S), NEW f
  PROVE  \E g : Summing(f, S, g) /\ SumFunctionOnSet(f, S) = g[S]
<1>1. SumFunctionOnSet(f, S) = (CHOOSE g : Summing(f, S, g))[S]
  BY DEF SumFunctionOnSet, FoldFunctionOnSet, MapThenFoldSet, Summing
<1> QED
  BY <1>1, SumExists, Zenon

\* A sum is the value at the member that CHOOSE takes, and the sum of the others.
LEMMA SumChoose ==
  ASSUME NEW S, IsFiniteSet(S), NEW f
  PROVE  SumFunctionOnSet(f, S) = IF S = {} THEN 0
                     ELSE f[CHOOSE x \in S : TRUE] + SumFunctionOnSet(f, S \ {CHOOSE x \in S : TRUE})
<1> DEFINE c(s) == CHOOSE x \in s : TRUE
           R == S \ {c(S)}
<1>1. PICK g : /\ g = [s \in SUBSET S |-> IF s = {} THEN 0 ELSE f[c(s)] + g[s \ {c(s)}]]
               /\ SumFunctionOnSet(f, S) = g[S]
  BY SumEquation DEF Summing
<1>2. CASE S = {}
  BY <1>1, <1>2
<1>3. CASE S # {}
  <2>1. R \in SUBSET S /\ IsFiniteSet(R)
    BY FS_Subset
  <2>2. PICK h : /\ h = [s \in SUBSET R |-> IF s = {} THEN 0 ELSE f[c(s)] + h[s \ {c(s)}]]
                 /\ SumFunctionOnSet(f, R) = h[R]
    BY <2>1, SumEquation DEF Summing
  <2> DEFINE P == {s \in SUBSET R : g[s] = h[s]}
  <2>3. \A s \in SUBSET R : s # {} => c(s) \in s
    OBVIOUS
  <2> HIDE DEF c
  <2>4. ASSUME NEW T \in SUBSET R, \A U \in SUBSET T : U # T => U \in P
        PROVE  T \in P
    <3>1. T \in SUBSET S
      BY <2>1
    <3>2. g[T] = IF T = {} THEN 0 ELSE f[c(T)] + g[T \ {c(T)}]
      BY <1>1, <3>1
    <3>3. h[T] = IF T = {} THEN 0 ELSE f[c(T)] + h[T \ {c(T)}]
      BY <2>2
    <3>4. CASE T = {}
      BY <3>2, <3>3, <3>4
    <3>5. CASE T # {}
      <4>1. T \ {c(T)} \in SUBSET T /\ T \ {c(T)} # T
        BY <2>3, <3>5
      <4>2. g[T \ {c(T)}] = h[T \ {c(T)}]
        BY <2>4, <4>1
      <4> QED
        BY <3>2, <3>3, <3>5, <4>2
    <3> QED
      BY <3>4, <3>5
  <2>5. R \in P
    <3>1. P \in SUBSET SUBSET R
      OBVIOUS
    <3> HIDE DEF P, R
    <3> QED
      BY <2>1, <2>4, <3>1, SetDescent, SMTT(30)
  <2>6. g[S] = f[c(S)] + g[R]
    BY <1>1, <1>3
  <2> QED
    BY <1>1, <1>3, <2>2, <2>5, <2>6 DEF c
<1> QED
  BY <1>2, <1>3

\* The sum over no members.
LEMMA SumEmpty == \A f : SumFunctionOnSet(f, {}) = 0
BY SumChoose, FS_EmptySet

\* A sum of integers is one.
LEMMA SumType ==
  ASSUME NEW S, IsFiniteSet(S), NEW f, \A x \in S : f[x] \in Int
  PROVE  SumFunctionOnSet(f, S) \in Int
<1> DEFINE P == {T \in SUBSET S : SumFunctionOnSet(f, T) \in Int}
<1>1. ASSUME NEW T \in SUBSET S, \A U \in SUBSET T : U # T => U \in P
      PROVE  T \in P
  <2>1. IsFiniteSet(T)
    BY FS_Subset
  <2>2. PICK c : /\ T # {} => c \in T
                 /\ SumFunctionOnSet(f, T) = IF T = {} THEN 0 ELSE f[c] + SumFunctionOnSet(f, T \ {c})
    BY <2>1, SumChoose
  <2>3. T # {} => T \ {c} \in P
    BY <1>1, <2>2
  <2> QED
    BY <2>2, <2>3
<1>2. P \in SUBSET SUBSET S
  OBVIOUS
<1> HIDE DEF P
<1>3. S \in P
  BY <1>1, <1>2, SetDescent
<1> QED
  BY <1>3 DEF P

\* A sum does not depend on the order: any member can be taken out first.
LEMMA SumRemove ==
  ASSUME NEW S, IsFiniteSet(S), NEW f, \A x \in S : f[x] \in Int
  PROVE  \A x \in S : SumFunctionOnSet(f, S) = f[x] + SumFunctionOnSet(f, S \ {x})
<1> DEFINE P == {T \in SUBSET S : \A x \in T : SumFunctionOnSet(f, T) = f[x] + SumFunctionOnSet(f, T \ {x})}
<1>1. ASSUME NEW T \in SUBSET S, \A U \in SUBSET T : U # T => U \in P
      PROVE  T \in P
  <2> SUFFICES ASSUME NEW x \in T PROVE SumFunctionOnSet(f, T) = f[x] + SumFunctionOnSet(f, T \ {x})
    OBVIOUS
  <2>1. \A U \in SUBSET T : IsFiniteSet(U) /\ SumFunctionOnSet(f, U) \in Int
    BY FS_Subset, SumType
  <2>2. PICK c \in T : SumFunctionOnSet(f, T) = f[c] + SumFunctionOnSet(f, T \ {c})
    BY <2>1, SumChoose
  <2>3. CASE c = x
    BY <2>2, <2>3
  <2>4. CASE c # x
    <3>1. T \ {c} \in P /\ T \ {x} \in P
      BY <1>1
    <3>2. SumFunctionOnSet(f, T \ {c}) = f[x] + SumFunctionOnSet(f, (T \ {c}) \ {x})
      BY <2>4, <3>1
    <3>3. SumFunctionOnSet(f, T \ {x}) = f[c] + SumFunctionOnSet(f, (T \ {x}) \ {c})
      BY <2>4, <3>1
    <3>4. (T \ {c}) \ {x} = (T \ {x}) \ {c} /\ (T \ {x}) \ {c} \in SUBSET T
      OBVIOUS
    <3>5. f[x] \in Int /\ f[c] \in Int /\ SumFunctionOnSet(f, (T \ {x}) \ {c}) \in Int
      BY <2>1, <3>4
    <3>6. SumFunctionOnSet(f, T) = f[c] + (f[x] + SumFunctionOnSet(f, (T \ {x}) \ {c}))
      BY <2>2, <3>2, <3>4
    <3> QED
      BY <3>3, <3>5, <3>6
  <2> QED
    BY <2>3, <2>4
<1>2. P \in SUBSET SUBSET S
  OBVIOUS
<1> HIDE DEF P
<1>3. S \in P
  BY <1>1, <1>2, SetDescent
<1> QED
  BY <1>3 DEF P

\* ... or put in.
LEMMA SumAdd ==
  ASSUME NEW S, IsFiniteSet(S), NEW f, NEW x, x \notin S, \A y \in S \cup {x} : f[y] \in Int
  PROVE  SumFunctionOnSet(f, S \cup {x}) = f[x] + SumFunctionOnSet(f, S)
<1>1. IsFiniteSet(S \cup {x}) /\ (S \cup {x}) \ {x} = S
  BY FS_AddElement
<1> QED
  BY <1>1, SumRemove

\* A sum depends on what the function is on the set.
LEMMA SumSame ==
  ASSUME NEW S, IsFiniteSet(S), NEW f, NEW g, \A x \in S : f[x] = g[x]
  PROVE  SumFunctionOnSet(f, S) = SumFunctionOnSet(g, S)
<1> DEFINE P == {T \in SUBSET S : SumFunctionOnSet(f, T) = SumFunctionOnSet(g, T)}
<1>1. ASSUME NEW T \in SUBSET S, \A U \in SUBSET T : U # T => U \in P
      PROVE  T \in P
  <2>1. IsFiniteSet(T)
    BY FS_Subset
  <2>2. CASE T = {}
    BY <2>2, SumEmpty
  <2>3. CASE T # {}
    <3> DEFINE c == CHOOSE x \in T : TRUE
    <3>1. c \in T
      BY <2>3
    <3>2. /\ SumFunctionOnSet(f, T) = f[c] + SumFunctionOnSet(f, T \ {c})
          /\ SumFunctionOnSet(g, T) = g[c] + SumFunctionOnSet(g, T \ {c})
      BY <2>1, <2>3, SumChoose
    <3> HIDE DEF c
    <3>3. T \ {c} \in P
      BY <1>1, <3>1
    <3> QED
      BY <3>1, <3>2, <3>3
  <2> QED
    BY <2>2, <2>3
<1>2. P \in SUBSET SUBSET S
  OBVIOUS
<1> HIDE DEF P
<1>3. S \in P
  BY <1>1, <1>2, SetDescent
<1> QED
  BY <1>3 DEF P

\* A sum over part of a set of numbers that are not negative.
LEMMA SumPart ==
  ASSUME NEW S, IsFiniteSet(S), NEW f, \A x \in S : f[x] \in Nat, NEW T \in SUBSET S
  PROVE  /\ SumFunctionOnSet(f, T) \in Nat
         /\ SumFunctionOnSet(f, T) <= SumFunctionOnSet(f, S)
<1> DEFINE P == {U \in SUBSET S : /\ SumFunctionOnSet(f, U) \in Nat
                                 /\ SumFunctionOnSet(f, T \cap U) \in Nat
                                 /\ SumFunctionOnSet(f, T \cap U) <= SumFunctionOnSet(f, U)}
<1>1. ASSUME NEW U \in SUBSET S, \A V \in SUBSET U : V # U => V \in P
      PROVE  U \in P
  <2>1. IsFiniteSet(U) /\ IsFiniteSet(T \cap U)
    BY FS_Subset
  <2>2. CASE U = {}
    BY <2>2, SumEmpty, T \cap {} = {}
  <2>3. CASE U # {}
    <3>1. PICK x \in U : TRUE
      BY <2>3
    <3>2. U \ {x} \in P
      BY <1>1, <3>1
    <3>3. SumFunctionOnSet(f, U) = f[x] + SumFunctionOnSet(f, U \ {x})
      BY <2>1, <3>1, SumRemove
    <3>4. CASE x \in T
      <4>1. SumFunctionOnSet(f, T \cap U) = f[x] + SumFunctionOnSet(f, (T \cap U) \ {x})
        BY <2>1, <3>1, <3>4, SumRemove
      <4>2. (T \cap U) \ {x} = T \cap (U \ {x})
        OBVIOUS
      <4> QED
        BY <3>1, <3>2, <3>3, <4>1, <4>2
    <3>5. CASE x \notin T
      <4>1. T \cap U = T \cap (U \ {x})
        BY <3>5
      <4> QED
        BY <3>1, <3>2, <3>3, <4>1
    <3> QED
      BY <3>4, <3>5
  <2> QED
    BY <2>2, <2>3
<1>2. P \in SUBSET SUBSET S
  OBVIOUS
<1> HIDE DEF P
<1>3. S \in P
  BY <1>1, <1>2, SetDescent
<1>4. T \cap S = T
  OBVIOUS
<1> QED
  BY <1>3, <1>4 DEF P

\* The members of a set with a label.
Labelled(S, h, i) == {x \in S : h[x] = i}

\* A sum of zeros.
LEMMA SumZero ==
  ASSUME NEW S, IsFiniteSet(S), NEW f, \A x \in S : f[x] = 0
  PROVE  SumFunctionOnSet(f, S) = 0
<1> DEFINE P == {T \in SUBSET S : SumFunctionOnSet(f, T) = 0}
<1>1. ASSUME NEW T \in SUBSET S, \A U \in SUBSET T : U # T => U \in P
      PROVE  T \in P
  <2>1. IsFiniteSet(T)
    BY FS_Subset
  <2>2. CASE T = {}
    BY <2>2, SumEmpty
  <2>3. CASE T # {}
    <3>1. PICK x \in T : TRUE
      BY <2>3
    <3>2. T \ {x} \in P
      BY <1>1, <3>1
    <3>3. SumFunctionOnSet(f, T) = f[x] + SumFunctionOnSet(f, T \ {x})
      BY <2>1, <3>1, SumRemove
    <3> QED
      BY <3>1, <3>2, <3>3
  <2> QED
    BY <2>2, <2>3
<1>2. P \in SUBSET SUBSET S
  OBVIOUS
<1> HIDE DEF P
<1>3. S \in P
  BY <1>1, <1>2, SetDescent
<1> QED
  BY <1>3 DEF P

\* A sum is the sum of the sums of its parts.
LEMMA SumByLabel ==
  ASSUME NEW S, IsFiniteSet(S), NEW I, IsFiniteSet(I), NEW h, \A x \in S : h[x] \in I,
         NEW f, \A x \in S : f[x] \in Int
  PROVE  SumFunctionOnSet(f, S)
           = SumFunctionOnSet([i \in I |-> SumFunctionOnSet(f, Labelled(S, h, i))], I)
<1> DEFINE part(T) == [i \in I |-> SumFunctionOnSet(f, Labelled(T, h, i))]
           P == {T \in SUBSET S : SumFunctionOnSet(f, T) = SumFunctionOnSet(part(T), I)}
<1>0. \A T \in SUBSET S : IsFiniteSet(T) /\ SumFunctionOnSet(f, T) \in Int
  BY FS_Subset, SumType
<1>a. \A T \in SUBSET S : \A i \in I : part(T)[i] = SumFunctionOnSet(f, Labelled(T, h, i))
  OBVIOUS
<1>b. \A T \in SUBSET S : \A i \in I : Labelled(T, h, i) \in SUBSET S
  BY DEF Labelled
<1>1. ASSUME NEW T \in SUBSET S, \A U \in SUBSET T : U # T => U \in P
      PROVE  T \in P
  <2>2. CASE T = {}
    <3>1. \A i \in I : Labelled({}, h, i) = {}
      BY DEF Labelled
    <3>2. \A i \in I : part({})[i] = 0
      BY <1>a, <3>1, SumEmpty
    <3> HIDE DEF part
    <3>3. SumFunctionOnSet(part({}), I) = 0
      BY <3>2, SumZero
    <3> QED
      BY <2>2, <3>3, SumEmpty
  <2>3. CASE T # {}
    <3>1. PICK x \in T : TRUE
      BY <2>3
    <3> DEFINE R == T \ {x}
               j == h[x]
    <3>2. R \in P /\ R \in SUBSET S /\ j \in I /\ x \in S
      BY <1>1, <3>1
    <3>3. SumFunctionOnSet(f, T) = f[x] + SumFunctionOnSet(f, R)
      BY <1>0, <3>1, SumRemove
    <3>4. Labelled(T, h, j) \ {x} = Labelled(R, h, j) /\ x \in Labelled(T, h, j)
      BY <3>1 DEF Labelled
    <3>5. \A i \in I : i # j => Labelled(T, h, i) = Labelled(R, h, i)
      BY <3>1 DEF Labelled
    <3> HIDE DEF R, j
    <3>6. SumFunctionOnSet(f, Labelled(T, h, j)) = f[x] + SumFunctionOnSet(f, Labelled(R, h, j))
      <4>1. Labelled(T, h, j) \in SUBSET S
        BY <1>b, <3>2
      <4>2. IsFiniteSet(Labelled(T, h, j)) /\ \A y \in Labelled(T, h, j) : f[y] \in Int
        BY <1>0, <4>1
      <4> QED
        BY <3>4, <4>2, SumRemove
    <3>7. /\ \A i \in I : part(T)[i] \in Int /\ part(R)[i] \in Int
          /\ \A i \in I \ {j} : part(T)[i] = part(R)[i]
          /\ part(T)[j] = f[x] + part(R)[j]
      BY <1>0, <1>a, <1>b, <3>2, <3>5, <3>6
    <3> HIDE DEF part
    <3>8. /\ SumFunctionOnSet(part(T), I) = part(T)[j] + SumFunctionOnSet(part(T), I \ {j})
          /\ SumFunctionOnSet(part(R), I) = part(R)[j] + SumFunctionOnSet(part(R), I \ {j})
      BY <3>2, <3>7, SumRemove
    <3>9. SumFunctionOnSet(part(T), I \ {j}) = SumFunctionOnSet(part(R), I \ {j})
      BY <3>7, SumSame, FS_RemoveElement
    <3>10. /\ SumFunctionOnSet(part(R), I \ {j}) \in Int /\ part(R)[j] \in Int /\ f[x] \in Int
           /\ SumFunctionOnSet(f, R) = SumFunctionOnSet(part(R), I)
      <4>1. IsFiniteSet(I \ {j}) /\ \A i \in I \ {j} : part(R)[i] \in Int
        BY <3>7, FS_RemoveElement
      <4>2. SumFunctionOnSet(part(R), I \ {j}) \in Int
        BY <4>1, SumType
      <4> QED
        BY <3>2, <3>7, <4>2
    <3>11. SumFunctionOnSet(f, T) = SumFunctionOnSet(part(T), I)
      <4>1. PICK u \in Int, v \in Int, w \in Int :
               /\ u = f[x] /\ v = part(R)[j] /\ w = SumFunctionOnSet(part(R), I \ {j})
        BY <3>10, Zenon
      <4>2. SumFunctionOnSet(f, R) = v + w
        BY <3>8, <3>10, <4>1
      <4>3. SumFunctionOnSet(part(T), I) = (u + v) + w
        BY <3>7, <3>8, <3>9, <4>1
      <4> QED
        BY <3>3, <4>1, <4>2, <4>3
    <3> QED
      BY <3>11
  <2> QED
    BY <2>2, <2>3
<1>2. P \in SUBSET SUBSET S
  OBVIOUS
<1> HIDE DEF P
<1>3. S \in P
  BY <1>1, <1>2, SetDescent
<1> QED
  BY <1>3 DEF P

\* Counting is adding ones.
LEMMA CountIsSum ==
  ASSUME NEW S, IsFiniteSet(S), NEW f, \A x \in S : f[x] = 1
  PROVE  Cardinality(S) = SumFunctionOnSet(f, S)
<1> DEFINE P == {T \in SUBSET S : Cardinality(T) = SumFunctionOnSet(f, T)}
<1>1. ASSUME NEW T \in SUBSET S, \A U \in SUBSET T : U # T => U \in P
      PROVE  T \in P
  <2>1. IsFiniteSet(T)
    BY FS_Subset
  <2>2. CASE T = {}
    BY <2>2, SumEmpty, FS_EmptySet
  <2>3. CASE T # {}
    <3>1. PICK x \in T : TRUE
      BY <2>3
    <3>2. T \ {x} \in P
      BY <1>1, <3>1
    <3>3. SumFunctionOnSet(f, T) = 1 + SumFunctionOnSet(f, T \ {x})
      BY <2>1, <3>1, SumRemove
    <3>4. Cardinality(T) = 1 + Cardinality(T \ {x})
      <4>1. Cardinality(T) \in Nat /\ Cardinality(T \ {x}) = Cardinality(T) - 1
        BY <2>1, <3>1, FS_RemoveElement, FS_CardinalityType
      <4> QED
        BY <4>1
    <3> QED
      BY <3>2, <3>3, <3>4
  <2> QED
    BY <2>2, <2>3
<1>2. P \in SUBSET SUBSET S
  OBVIOUS
<1> HIDE DEF P
<1>3. S \in P
  BY <1>1, <1>2, SetDescent
<1> QED
  BY <1>3 DEF P

\* What a set holds is what its parts hold together.
LEMMA CountByLabel ==
  ASSUME NEW S, IsFiniteSet(S), NEW I, IsFiniteSet(I), NEW h, \A x \in S : h[x] \in I
  PROVE  Cardinality(S) = SumFunctionOnSet([i \in I |-> Cardinality(Labelled(S, h, i))], I)
<1> DEFINE one == [x \in S |-> 1]
           counts == [i \in I |-> Cardinality(Labelled(S, h, i))]
           sums == [i \in I |-> SumFunctionOnSet(one, Labelled(S, h, i))]
<1>1. \A x \in S : one[x] = 1 /\ one[x] \in Int
  OBVIOUS
<1>2. \A i \in I : Labelled(S, h, i) \in SUBSET S
  BY DEF Labelled
<1>3. \A i \in I : counts[i] = Cardinality(Labelled(S, h, i)) /\ sums[i] = SumFunctionOnSet(one, Labelled(S, h, i))
  OBVIOUS
<1> HIDE DEF one
<1>4. \A i \in I : counts[i] = sums[i]
  <2>1. \A T \in SUBSET S : Cardinality(T) = SumFunctionOnSet(one, T)
    BY <1>1, CountIsSum, FS_Subset
  <2> QED
    BY <1>2, <1>3, <2>1
<1>5. Cardinality(S) = SumFunctionOnSet(sums, I)
  BY <1>1, CountIsSum, SumByLabel
<1> HIDE DEF counts, sums
<1>6. SumFunctionOnSet(sums, I) = SumFunctionOnSet(counts, I)
  BY <1>4, SumSame
<1> QED
  BY <1>5, <1>6 DEF counts

\* Two parts of a set that have nothing in common.
LEMMA CountDisjoint ==
  ASSUME NEW S, NEW A, NEW B, IsFiniteSet(S), S = A \cup B, A \cap B = {}
  PROVE  /\ Cardinality(S) = Cardinality(A) + Cardinality(B)
         /\ Cardinality(A) \in Nat /\ Cardinality(B) \in Nat
<1>1. IsFiniteSet(A) /\ IsFiniteSet(B)
  BY FS_Subset
<1>2. Cardinality(A) \in Nat /\ Cardinality(B) \in Nat
  BY <1>1, FS_CardinalityType
<1>3. Cardinality(A \cup B) = Cardinality(A) + Cardinality(B) - Cardinality(A \cap B)
  BY <1>1, FS_Union
<1>4. Cardinality(A \cap B) = 0
  BY FS_EmptySet
<1> QED
  BY <1>2, <1>3, <1>4

\* Numbers can be put in order (sort).
LEMMA InOrder ==
  ASSUME NEW S, IsFiniteSet(S), NEW k, \A x \in S : k[x] \in Nat
  PROVE  \E o \in [1..Cardinality(S) -> S] :
           /\ \A i, j \in 1..Cardinality(S) : o[i] = o[j] => i = j
           /\ \A i, j \in 1..Cardinality(S) : i < j => k[o[i]] <= k[o[j]]
<1> DEFINE Sorted(T, n, o) == /\ o \in [1..n -> T]
                              /\ \A i, j \in 1..n : o[i] = o[j] => i = j
                              /\ \A i, j \in 1..n : i < j => k[o[i]] <= k[o[j]]
           P == {T \in SUBSET S : \E o : Sorted(T, Cardinality(T), o)}
<1>1. ASSUME NEW T \in SUBSET S, \A U \in SUBSET T : U # T => U \in P
      PROVE  T \in P
  <2>1. IsFiniteSet(T)
    BY FS_Subset
  <2>2. CASE T = {}
    <3>1. Cardinality(T) = 0
      BY <2>2, FS_EmptySet
    <3>2. Sorted(T, 0, [i \in 1..0 |-> i])
      OBVIOUS
    <3> HIDE DEF Sorted
    <3> QED
      BY <3>1, <3>2
  <2>3. CASE T # {}
    <3>1. PICK c \in T : \A x \in T : k[c] <= k[x]
      <4> DEFINE N == {k[x] : x \in T}
      <4>1. N \in SUBSET Nat /\ N # {}
        BY <2>3
      <4>2. PICK m \in N : \A y \in N : m <= y
        <5> HIDE DEF N
        <5> QED
          BY <4>1, LeastMember
      <4> QED
        BY <4>2
    <3> DEFINE R == T \ {c}
               n == Cardinality(T)
               r == Cardinality(R)
    <3>2. n \in Nat /\ r \in Nat /\ n = r + 1
      <4>1. IsFiniteSet(R) /\ r = n - 1
        BY <2>1, <3>1, FS_RemoveElement
      <4>2. n \in Nat /\ r \in Nat
        BY <2>1, <4>1, FS_CardinalityType
      <4> HIDE DEF n, r
      <4> QED
        BY <4>1, <4>2
    <3>3. R \in P
      BY <1>1, <3>1
    <3> HIDE DEF n, r
    <3>4. PICK o : Sorted(R, r, o)
      BY <3>3 DEF r
    <3> DEFINE q == [i \in 1..n |-> IF i = 1 THEN c ELSE o[i - 1]]
    <3>5. \A i \in 1..n : i # 1 => i - 1 \in 1..r
      BY <3>2
    <3>6. /\ 1 \in 1..n => q[1] = c
          /\ \A i \in 1..n : i # 1 => q[i] = o[i - 1] /\ q[i] \in R
      BY <3>4, <3>5
    <3>7. q \in [1..n -> T]
      BY <3>1, <3>6
    <3> HIDE DEF q
    <3>8. ASSUME NEW i \in 1..n, NEW j \in 1..n, q[i] = q[j] PROVE i = j
      <4>1. CASE i = 1 \/ j = 1
        BY <3>6, <3>8, <4>1
      <4>2. CASE i # 1 /\ j # 1
        <5>1. i - 1 \in 1..r /\ j - 1 \in 1..r /\ o[i - 1] = o[j - 1]
          BY <3>5, <3>6, <3>8, <4>2
        <5>2. i - 1 = j - 1
          BY <3>4, <5>1
        <5> QED
          BY <3>2, <5>2
      <4> QED
        BY <4>1, <4>2
    <3>9. ASSUME NEW i \in 1..n, NEW j \in 1..n, i < j PROVE k[q[i]] <= k[q[j]]
      <4>1. j # 1
        BY <3>2, <3>9
      <4>2. CASE i = 1
        BY <3>1, <3>6, <4>1, <4>2
      <4>3. CASE i # 1
        <5>1. i - 1 \in 1..r /\ j - 1 \in 1..r /\ i - 1 < j - 1
          BY <3>2, <3>5, <3>9, <4>1, <4>3
        <5>2. k[o[i - 1]] <= k[o[j - 1]]
          BY <3>4, <5>1
        <5> QED
          BY <3>6, <4>1, <4>3, <5>2
      <4> QED
        BY <4>2, <4>3
    <3> QED
      BY <3>7, <3>8, <3>9 DEF n
  <2> QED
    BY <2>2, <2>3
<1>2. P \in SUBSET SUBSET S
  OBVIOUS
<1> HIDE DEF P
<1>3. S \in P
  BY <1>1, <1>2, SetDescent
<1> QED
  BY <1>3 DEF P

-----------------------------------------------------------------------------
(* What the events say about the time. *)

\* The recursive function Visible is one: it has a value at every event.
LEMMA VisibleStep ==
  ASSUME NEW log \in Seq(Event)
  PROVE  LET v == Visible(log)
         IN  /\ v[0] = FALSE
             /\ \A i \in 1..Len(log) :
                  v[i] = (IF Starts(log, i) THEN log[i].visible = "yes"
                          ELSE IF log[i].type = "visibility_hidden" THEN FALSE
                          ELSE IF log[i].type = "visibility_visible" THEN TRUE
                          ELSE IF log[i].visible = "absent" THEN v[i - 1]
                          ELSE log[i].visible = "yes")
<1> DEFINE n == Len(log)
           Step(g, i) == IF i = 0 THEN FALSE
                         ELSE IF Starts(log, i) THEN log[i].visible = "yes"
                         ELSE IF log[i].type = "visibility_hidden" THEN FALSE
                         ELSE IF log[i].type = "visibility_visible" THEN TRUE
                         ELSE IF log[i].visible = "absent" THEN g[i - 1]
                         ELSE log[i].visible = "yes"
           Is(g, k) == g = [i \in 0..k |-> Step(g, i)]
           bad == {k \in 0..n : ~\E g : Is(g, k)}
<1>0. n \in Nat /\ n \in 0..n
  OBVIOUS
<1>1. Is([i \in 0..0 |-> FALSE], 0)
  OBVIOUS
<1>2. ASSUME NEW k \in 1..n, NEW g, Is(g, k - 1)
      PROVE  \E h : Is(h, k)
  <2> DEFINE h == [i \in 0..k |-> Step(g, i)]
  <2>0. k \in Nat /\ k - 1 \in Nat /\ ~(k \in 0..(k - 1)) /\ k # 0
    OBVIOUS
  <2>1. \A i \in 0..(k - 1) : i \in 0..k /\ g[i] = Step(g, i)
    BY <1>2
  <2>2. \A i \in 0..(k - 1) : h[i] = g[i]
    BY <2>1
  <2>3. \A i \in 0..k : i # 0 => i - 1 \in 0..(k - 1)
    BY <2>0
  <2> HIDE DEF h
  <2>4. \A i \in 0..k : Step(g, i) = Step(h, i)
    BY <2>2, <2>3
  <2>5. h = [i \in 0..k |-> Step(h, i)]
    BY <2>4 DEF h
  <2> QED
    BY <2>5
<1>3. \E g : Is(g, n)
  <2> SUFFICES ASSUME bad # {} PROVE FALSE
    BY <1>0
  <2> HIDE DEF Is
  <2>1. bad \in SUBSET Nat
    OBVIOUS
  <2>2. PICK m \in bad : \A k \in bad : m <= k
    <3> HIDE DEF bad
    <3> QED
      BY <2>1, LeastMember
  <2>3. m # 0
    BY <1>1
  <2>4. m \in 1..n /\ m - 1 \in 0..n /\ ~(m <= m - 1)
    BY <1>0, <2>3
  <2>5. m - 1 \notin bad
    BY <2>2, <2>4
  <2>6. \E g : Is(g, m - 1)
    BY <2>4, <2>5
  <2> QED
    BY <1>2, <2>4, <2>6
<1>4. Visible(log) = CHOOSE g : Is(g, n)
  BY DEF Visible
<1> HIDE DEF Is
<1>5. Is(Visible(log), n)
  BY <1>3, <1>4, Zenon
<1> QED
  BY <1>0, <1>5 DEF Is

\* Visible is a truth value before and after every event.
LEMMA VisibleBoolean ==
  ASSUME NEW log \in Seq(Event)
  PROVE  \A i \in 0..Len(log) : Visible(log)[i] \in BOOLEAN
<1> DEFINE n == Len(log)
           v == Visible(log)
           bad == {i \in 0..n : v[i] \notin BOOLEAN}
<1> SUFFICES ASSUME bad # {} PROVE FALSE
  OBVIOUS
<1>0. n \in Nat
  OBVIOUS
<1>1. /\ v[0] = FALSE
      /\ \A i \in 1..n : v[i] \in BOOLEAN \/ v[i] = v[i - 1]
  BY VisibleStep
<1> HIDE DEF v
<1>2. bad \in SUBSET Nat
  OBVIOUS
<1>3. PICK m \in bad : \A k \in bad : m <= k
  <2> HIDE DEF bad
  <2> QED
    BY <1>2, LeastMember
<1>4. m \in 1..n /\ m - 1 \in 0..n /\ ~(m <= m - 1)
  <2>1. m \in 0..n /\ m # 0
    BY <1>1
  <2> QED
    BY <1>0, <2>1
<1>5. v[m - 1] \in BOOLEAN
  BY <1>3, <1>4
<1> QED
  BY <1>1, <1>4, <1>5

\* The events up to k that begin a page epoch, those that end one, and the others.
Begins(log, k) == {i \in 1..k : Starts(log, i)}
Ends(log, k) == {i \in 1..k : i = k \/ Starts(log, i + 1)}
Within(log, k) == {i \in 1..k : ~Starts(log, i)}

\* The time between an event and the one before it.
Steps(log) == [i \in 1..Len(log) |-> IF Starts(log, i) THEN 0 ELSE log[i].elapsed - log[i - 1].elapsed]
Clock(log) == [i \in 1..Len(log) |-> log[i].elapsed]

\* The steps of the page clocks telescope: what they add up to is how far each clock got.
LEMMA ClocksTelescope ==
  ASSUME NEW log \in Seq(Event)
  PROVE  \A k \in 0..Len(log) :
           SumFunctionOnSet(Steps(log), Within(log, k))
             = SumFunctionOnSet(Clock(log), Ends(log, k)) - SumFunctionOnSet(Clock(log), Begins(log, k))
<1> DEFINE n == Len(log)
           c == Clock(log)
           s == Steps(log)
           W(k) == SumFunctionOnSet(s, Within(log, k))
           E(k) == SumFunctionOnSet(c, Ends(log, k))
           B(k) == SumFunctionOnSet(c, Begins(log, k))
           bad == {k \in 0..n : W(k) # E(k) - B(k)}
<1> SUFFICES ASSUME bad # {} PROVE FALSE
  OBVIOUS
<1>0. n \in Nat
  OBVIOUS
<1>1. \A i \in 1..n : c[i] \in Int /\ s[i] \in Int
  <2>1. \A i \in 1..n : log[i].elapsed \in Int
    <3>1. \A i \in 1..n : log[i] \in Event
      OBVIOUS
    <3> QED
      BY <3>1, LimitAssumption DEF Event
  <2>2. \A i \in 1..n : ~Starts(log, i) => i - 1 \in 1..n
    BY <1>0 DEF Starts
  <2>3. \A i \in 1..n : c[i] = log[i].elapsed
    BY DEF Clock
  <2>4. \A i \in 1..n : s[i] = IF Starts(log, i) THEN 0 ELSE log[i].elapsed - log[i - 1].elapsed
    BY DEF Steps
  <2> HIDE DEF c, s
  <2>5. ASSUME NEW i \in 1..n PROVE s[i] \in Int
    <3>1. CASE Starts(log, i)
      BY <2>4, <3>1
    <3>2. CASE ~Starts(log, i)
      BY <2>1, <2>2, <2>4, <3>2
    <3> QED
      BY <3>1, <3>2
  <2> QED
    BY <2>1, <2>3, <2>5
<1>2. PICK k \in bad : \A j \in bad : k <= j
  <2>1. bad \in SUBSET Nat
    BY <1>0
  <2> HIDE DEF bad
  <2> QED
    BY <2>1, LeastMember
<1>3. k # 0
  <2>1. Within(log, 0) = {} /\ Ends(log, 0) = {} /\ Begins(log, 0) = {}
    BY DEF Within, Ends, Begins
  <2> HIDE DEF c, s
  <2>2. W(0) = 0 /\ E(0) = 0 /\ B(0) = 0
    BY <2>1, SumEmpty
  <2> QED
    BY <1>2, <2>2
<1>4. k \in 1..n /\ k - 1 \in 0..n /\ ~(k <= k - 1) /\ k \in Nat /\ (k - 1) + 1 = k
  BY <1>0, <1>3
<1>5. W(k - 1) = E(k - 1) - B(k - 1)
  BY <1>2, <1>4
<1>6. /\ IsFiniteSet(1..n)
      /\ \A T \in SUBSET (1..n) : /\ IsFiniteSet(T) /\ SumFunctionOnSet(c, T) \in Int
                                  /\ SumFunctionOnSet(s, T) \in Int
  <2>1. IsFiniteSet(1..n)
    BY <1>0, FS_Interval
  <2> HIDE DEF c, s
  <2>2. \A T \in SUBSET (1..n) : IsFiniteSet(T)
    BY <2>1, FS_Subset
  <2> QED
    BY <1>1, <2>1, <2>2, SumType
<1>7. \A j \in 0..k : Within(log, j) \in SUBSET (1..n) /\ Ends(log, j) \in SUBSET (1..n)
                        /\ Begins(log, j) \in SUBSET (1..n)
  BY <1>4 DEF Within, Ends, Begins
<1>8. \A j : j \in 1..k <=> j \in 1..(k - 1) \/ j = k
  BY <1>4
<1>9. k \notin 1..(k - 1) /\ k - 1 \in 0..k /\ k \in 0..k /\ k \in 1..k /\ (k # 1 => k - 1 \in 1..(k - 1))
  BY <1>4
<1>w. k \notin Within(log, k - 1) /\ k \notin Begins(log, k - 1) /\ k \notin Ends(log, k - 1)
  BY <1>9 DEF Within, Begins, Ends
<1> HIDE DEF c, s
<1>10. CASE Starts(log, k)
  <2>1. Within(log, k) = Within(log, k - 1)
    BY <1>8, <1>10 DEF Within
  <2>2. Begins(log, k) = Begins(log, k - 1) \cup {k}
    BY <1>8, <1>10 DEF Begins
  <2>3. Ends(log, k) = Ends(log, k - 1) \cup {k}
    BY <1>4, <1>8, <1>10 DEF Ends
  <2>4. B(k) = c[k] + B(k - 1)
    BY <1>1, <1>4, <1>6, <1>7, <1>9, <1>w, <2>2, SumAdd
  <2>5. E(k) = c[k] + E(k - 1)
    BY <1>1, <1>4, <1>6, <1>7, <1>9, <1>w, <2>3, SumAdd
  <2>6. c[k] \in Int /\ E(k - 1) \in Int /\ B(k - 1) \in Int
    BY <1>1, <1>4, <1>6, <1>7, <1>9
  <2> QED
    BY <1>2, <1>5, <2>1, <2>4, <2>5, <2>6
<1>11. CASE ~Starts(log, k)
  <2>0. k # 1 /\ k - 1 \in 1..n /\ s[k] = c[k] - c[k - 1]
    BY <1>4, <1>11 DEF Starts, s, c, Steps, Clock
  <2>1. Within(log, k) = Within(log, k - 1) \cup {k}
    BY <1>8, <1>11 DEF Within
  <2>2. Begins(log, k) = Begins(log, k - 1)
    BY <1>8, <1>11 DEF Begins
  <2> DEFINE R == Ends(log, k - 1) \ {k - 1}
  <2>3. Ends(log, k) = R \cup {k}
    <3>1. ASSUME NEW j PROVE j \in Ends(log, k) <=> j \in R \cup {k}
      <4>1. CASE j = k
        BY <1>9, <4>1 DEF Ends
      <4>2. CASE j = k - 1
        BY <1>4, <1>11, <4>2 DEF Ends
      <4>3. CASE j # k /\ j # k - 1
        BY <1>8, <4>3 DEF Ends
      <4> QED
        BY <4>1, <4>2, <4>3
    <3> QED
      BY <3>1
  <2>4. k - 1 \in Ends(log, k - 1)
    BY <1>9, <2>0 DEF Ends
  <2>5. W(k) = s[k] + W(k - 1)
    BY <1>1, <1>4, <1>6, <1>7, <1>9, <1>w, <2>1, SumAdd
  <2>6. E(k - 1) = c[k - 1] + SumFunctionOnSet(c, R)
    BY <1>1, <1>6, <1>7, <1>9, <2>4, SumRemove
  <2>7. E(k) = c[k] + SumFunctionOnSet(c, R)
    <3>1. k \notin R /\ R \in SUBSET (1..n)
      BY <1>7, <1>9, <1>w
    <3> HIDE DEF R
    <3> QED
      BY <1>1, <1>4, <1>6, <2>3, <3>1, SumAdd
  <2>8. c[k] \in Int /\ c[k - 1] \in Int /\ SumFunctionOnSet(c, R) \in Int /\ W(k - 1) \in Int /\ B(k - 1) \in Int
    BY <1>1, <1>4, <1>6, <1>7, <1>9, <2>0
  <2>9. PICK w \in Int, e \in Int, b \in Int, x \in Int, y \in Int, z \in Int :
           /\ w = W(k - 1) /\ e = E(k - 1) /\ b = B(k - 1)
           /\ x = c[k] /\ y = c[k - 1] /\ z = SumFunctionOnSet(c, R)
    <3>1. E(k - 1) \in Int
      BY <2>6, <2>8
    <3>2. W(k - 1) \in Int /\ B(k - 1) \in Int /\ c[k] \in Int /\ c[k - 1] \in Int
          /\ SumFunctionOnSet(c, R) \in Int
      BY <2>8
    <3> HIDE DEF W, E, B, R
    <3> QED
      BY <3>1, <3>2, Zenon
  <2>10. w = e - b /\ e = y + z
    BY <1>5, <2>6, <2>9
  <2>11. W(k) = (x - y) + w /\ E(k) = x + z /\ B(k) = b
    BY <2>0, <2>2, <2>5, <2>7, <2>9
  <2>12. W(k) = E(k) - B(k)
    <3> HIDE DEF W, E, B
    <3> QED
      BY <2>10, <2>11
  <2> QED
    BY <1>2, <2>12
<1> QED
  BY <1>10, <1>11

\* What was observed is part of what the clocks of the pages measured.
LEMMA ObservedBounds ==
  ASSUME NEW log \in Seq(Event), EpochsInOrder(log)
  PROVE  LET n == Len(log)
             total == SumFunctionOnSet(Clock(log), Ends(log, n)) - SumFunctionOnSet(Clock(log), Begins(log, n))
         IN  /\ ObservedNavigation(log) = SumFunctionOnSet(Steps(log), Observed(log))
             /\ ObservedNavigation(log) \in 0..total
             /\ Observed(log) = Within(log, n) => ObservedNavigation(log) = total
<1> DEFINE n == Len(log)
           O == Observed(log)
           s == Steps(log)
           f == [i \in O |-> log[i].elapsed - log[i - 1].elapsed]
           W == Within(log, n)
           total == SumFunctionOnSet(Clock(log), Ends(log, n)) - SumFunctionOnSet(Clock(log), Begins(log, n))
<1>0. n \in Nat /\ n \in 0..n /\ DOMAIN log = 1..n /\ \A i \in 1..n : log[i] \in Event
  OBVIOUS
<1>1. O \subseteq W /\ W \subseteq 1..n
  BY <1>0 DEF Observed, Within
<1>2. IsFiniteSet(O) /\ IsFiniteSet(W)
  <2>1. IsFiniteSet(1..n)
    BY <1>0, FS_Interval
  <2> HIDE DEF O, W
  <2> QED
    BY <1>1, <2>1, FS_Subset
<1>3. \A i \in W : s[i] = log[i].elapsed - log[i - 1].elapsed
  BY <1>1 DEF Steps, Within
<1>4. \A i \in W : s[i] \in Nat
  <2>1. \A i \in 1..n : log[i].elapsed \in Int
    BY <1>0, LimitAssumption DEF Event
  <2>2. \A i \in W : i \in 1..n /\ i - 1 \in 1..n
    BY <1>0 DEF Within, Starts
  <2>3. \A i \in W : log[i].elapsed >= log[i - 1].elapsed
    BY <2>2 DEF EpochsInOrder, Within
  <2> QED
    BY <1>3, <2>1, <2>2, <2>3
<1>5. ObservedNavigation(log) = SumFunctionOnSet(f, O)
  BY DEF ObservedNavigation, SumFunction
<1>6. \A i \in O : f[i] = s[i]
  BY <1>1, <1>3
<1> HIDE DEF f, s, O, W
<1>7. SumFunctionOnSet(f, O) = SumFunctionOnSet(s, O)
  BY <1>2, <1>6, SumSame
<1>8. SumFunctionOnSet(s, O) \in Nat /\ SumFunctionOnSet(s, O) <= SumFunctionOnSet(s, W)
  BY <1>1, <1>2, <1>4, SumPart
<1>9. SumFunctionOnSet(s, W) = total
  BY <1>0, ClocksTelescope DEF s, W
<1>10. SumFunctionOnSet(s, W) \in Int
  BY <1>2, <1>4, SumType
<1>11. ObservedNavigation(log) = SumFunctionOnSet(s, O)
  BY <1>5, <1>7
<1>12. ObservedNavigation(log) \in 0..total
  <2> DEFINE o == SumFunctionOnSet(s, O)
             w == SumFunctionOnSet(s, W)
  <2>1. o \in Nat /\ w \in Int /\ o <= w /\ w = total /\ ObservedNavigation(log) = o
    BY <1>8, <1>9, <1>10, <1>11
  <2> HIDE DEF o, w, total
  <2> QED
    BY <2>1
<1> QED
  BY <1>9, <1>11, <1>12 DEF s, O, W

\* In one page epoch without hidden or resumed events the page stays visible.
LEMMA StaysVisible ==
  ASSUME NEW log \in Seq(Event), log # <<>>, Watched(log)
  PROVE  \A i \in 1..Len(log) : Visible(log)[i] = TRUE
<1> DEFINE n == Len(log)
           v == Visible(log)
           bad == {i \in 1..n : v[i] # TRUE}
<1> SUFFICES ASSUME bad # {} PROVE FALSE
  OBVIOUS
<1>0. n \in Nat /\ DOMAIN log = 1..n /\ 1 \in 1..n
  OBVIOUS
<1>1. \A i \in 1..n : /\ i # 1 => ~Starts(log, i)
                      /\ log[i].type # "visibility_hidden" /\ log[i].visible # "no"
                      /\ log[i].visible \in {"yes", "no", "absent"}
  <2>1. \A i \in 1..n : i # 1 => i - 1 \in 1..n
    BY <1>0
  <2>2. \A i \in 1..n : log[i] \in Event
    OBVIOUS
  <2>3. \A i \in 1..n : log[i].visible \in {"yes", "no", "absent"}
    BY <2>2 DEF Event
  <2> QED
    BY <1>0, <2>1, <2>3 DEF Watched, Starts
<1>2. v[1] = TRUE
  BY <1>0, VisibleStep DEF Watched, Starts
<1>3. \A i \in 1..n : i # 1 => v[i] = TRUE \/ v[i] = v[i - 1]
  BY <1>1, VisibleStep
<1> HIDE DEF v
<1>4. PICK m \in bad : \A k \in bad : m <= k
  <2>1. bad \in SUBSET (1..n)
    BY Zenon
  <2> HIDE DEF bad
  <2>2. bad \in SUBSET Nat
    <3>1. n \in Nat
      BY <1>0
    <3> HIDE DEF n
    <3> QED
      BY <2>1, <3>1
  <2> QED
    BY <2>2, LeastMember
<1>5. m \in 1..n /\ m # 1
  BY <1>2
<1>6. m - 1 \in 1..n /\ ~(m <= m - 1)
  BY <1>0, <1>5
<1>7. v[m - 1] = TRUE
  BY <1>4, <1>6
<1> QED
  BY <1>3, <1>5, <1>7

\* eventMetricsV1 calls the timing of a finished attempt complete when the page was in
\* view from the tree until the answer, and then has observed all of that time.
LEMMA CompleteMeansWatched ==
  ASSUME NEW log \in Seq(Event), ValidStream(log), \A i \in 1..Len(log) : WellFormed(log[i]),
         log # <<>>, log[Len(log)].type = "submit"
  PROVE  /\ Quality(log, TRUE) = "complete" <=> Watched(log)
         /\ Watched(log) => ObservedNavigation(log) = log[Len(log)].elapsed - log[1].elapsed
<1> DEFINE n == Len(log)
           v == Visible(log)
<1>0. n \in Nat /\ DOMAIN log = 1..n /\ 1 \in 1..n /\ n \in 1..n
  OBVIOUS
<1>1. ASSUME Quality(log, TRUE) = "complete" PROVE Watched(log)
  <2>1. ~Interrupted(log) /\ \E i \in 1..n : log[i].type = "tree_shown"
    BY <1>0, <1>1 DEF Quality
  <2>2. log[1].type = "tree_shown"
    BY <2>1 DEF ValidStream, ValidMove
  <2>3. \A i \in 1..n : /\ v[i] /\ log[i].type \notin {"resume", "visibility_hidden"}
                        /\ i > 1 => ~Starts(log, i)
    BY <1>0, <2>1 DEF Interrupted
  <2>4. \A i \in 1..n : v[i] = TRUE
    BY <1>0, <2>3, VisibleBoolean
  <2>5. log[1].visible = "yes"
    BY <1>0, <2>4, VisibleStep DEF Starts
  <2>6. ASSUME NEW i \in 1..n PROVE log[i].visible # "no"
    BY <2>3, <2>4, <2>6, VisibleStep DEF WellFormed
  <2>7. \A i \in 1..n : log[i].epoch = log[1].epoch
    <3> DEFINE bad == {i \in 1..n : log[i].epoch # log[1].epoch}
    <3> SUFFICES ASSUME bad # {} PROVE FALSE
      OBVIOUS
    <3>1. bad \in SUBSET Nat
      BY <1>0
    <3>2. PICK m \in bad : \A k \in bad : m <= k
      <4> HIDE DEF bad
      <4> QED
        BY <3>1, LeastMember
    <3>3. m \in 1..n /\ m # 1
      OBVIOUS
    <3>4. m > 1 /\ m - 1 \in 1..n /\ ~(m <= m - 1)
      BY <1>0, <3>3
    <3>5. log[m - 1].epoch = log[1].epoch
      BY <3>2, <3>4
    <3> QED
      BY <2>3, <3>3, <3>4, <3>5 DEF Starts
  <2> QED
    BY <1>0, <2>2, <2>3, <2>5, <2>6, <2>7 DEF Watched
<1>2. ASSUME Watched(log)
      PROVE  Quality(log, TRUE) = "complete" /\ ObservedNavigation(log) = log[n].elapsed - log[1].elapsed
  <2>1. \A i \in 1..n : v[i] = TRUE
    BY <1>2, StaysVisible
  <2>2. \A i \in 1..n : Starts(log, i) <=> i = 1
    <3>1. \A i \in 1..n : i # 1 => i - 1 \in 1..n
      BY <1>0
    <3> QED
      BY <1>0, <1>2, <3>1 DEF Watched, Starts
  <2>3. n # 1
    BY <1>0, <1>2 DEF Watched
  <2>4. \A i \in 1..n : i # 1 => i - 1 \in 1..n /\ i > 1
    BY <1>0
  <2>5. ~Interrupted(log)
    <3>1. \A i \in 1..n : log[i].type \notin {"resume", "visibility_hidden"}
      BY <1>0, <1>2 DEF Watched
    <3>2. \A i \in 1..n : i # 1 => v[i] = v[i - 1]
      BY <2>1, <2>4
    <3>3. \A i \in 1..n : ~(Starts(log, i) /\ i > 1)
      BY <1>0, <2>2
    <3> HIDE DEF v
    <3> QED
      BY <1>0, <2>1, <2>2, <3>1, <3>2, <3>3 DEF Interrupted, v
  <2>6. Quality(log, TRUE) = "complete"
    BY <1>0, <1>2, <2>3, <2>5 DEF Quality, Watched
  <2>7. Observed(log) = Within(log, n)
    BY <1>0, <1>2, <2>1, <2>2, <2>4 DEF Observed, Within, Watched
  <2>8. Begins(log, n) = {1} /\ Ends(log, n) = {n}
    <3>1. Begins(log, n) = {1}
      BY <1>0, <2>2 DEF Begins
    <3>2. ASSUME NEW i \in 1..n, i # n PROVE i + 1 \in 1..n /\ i + 1 # 1
      <4>1. n \in Nat
        BY <1>0, SMTT(30)
      <4> HIDE DEF n, v
      <4> QED
        BY <4>1, <3>2
    <3>3. Ends(log, n) = {n}
      BY <1>0, <2>2, <3>2 DEF Ends
    <3> QED
      BY <3>1, <3>3
  <2>9. /\ SumFunctionOnSet(Clock(log), {1}) = log[1].elapsed
        /\ SumFunctionOnSet(Clock(log), {n}) = log[n].elapsed
    <3>1. \A i \in 1..n : Clock(log)[i] = log[i].elapsed /\ log[i].elapsed \in Int
      <4>1. \A i \in 1..n : log[i] \in Event
        OBVIOUS
      <4> QED
        BY <4>1, LimitAssumption DEF Event, Clock
    <3>2. ASSUME NEW i \in 1..n PROVE SumFunctionOnSet(Clock(log), {i}) = log[i].elapsed
      <4>1. SumFunctionOnSet(Clock(log), {i}) = Clock(log)[i] + SumFunctionOnSet(Clock(log), {i} \ {i})
        BY <3>1, SumRemove, FS_Singleton
      <4>2. {i} \ {i} = {}
        OBVIOUS
      <4>3. SumFunctionOnSet(Clock(log), {}) = 0
        BY SumEmpty
      <4>4. SumFunctionOnSet(Clock(log), {i}) = Clock(log)[i] + 0
        BY <4>1, <4>2, <4>3, Zenon
      <4> QED
        BY <3>1, <4>4
    <3> QED
      BY <1>0, <3>2
  <2>10. EpochsInOrder(log)
    BY DEF ValidStream
  <2> QED
    BY <2>6, <2>7, <2>8, <2>9, <2>10, ObservedBounds
<1> QED
  BY <1>1, <1>2

\* metricsForAttempt: the metrics of an attempt are what its stream says.
LEMMA MetricsOfStream ==
  ASSUME ColumnsFrozen, NEW a \in DOMAIN attempts
  PROVE  LET m == MetricsFor(a)
             log == attempts[a].log
             outcome == attempts[a].finish.request.outcome
         IN  /\ m.quality = Quality(log, Finished(a))
             /\ m.observed = ObservedNavigation(log)
             /\ m.navigation = IF Finished(a) /\ m.quality = "complete" /\ outcome \in {"selected", "gave_up"}
                               THEN ObservedNavigation(log) ELSE Null
             /\ m.backtracks = Backtracks(log)
             /\ m.direct \in BOOLEAN
             /\ m.direct => Finished(a) /\ Correct(attempts[a].index, attempts[a].finish.request)
<1> DEFINE log == attempts[a].log
           q == attempts[a].finish.request
<1>1. CASE Finished(a)
  <2> PICK m : m = EventMetrics(log, q.node, q.outcome, TRUE)
    OBVIOUS
  <2>1. MetricsFor(a) = [m EXCEPT !.direct = m.direct /\ Correct(attempts[a].index, q)]
    <3>1. columns[a] = FrozenColumns(attempts[a])
      BY <1>1 DEF ColumnsFrozen
    <3>2. FrozenColumns(attempts[a]).metrics =
            [m EXCEPT !.direct = m.direct /\ Correct(attempts[a].index, q)]
      BY DEF FrozenColumns
    <3> QED
      BY <1>1, <3>1, <3>2 DEF MetricsFor
  <2>2. /\ m.quality = Quality(log, TRUE) /\ m.observed = ObservedNavigation(log)
        /\ m.navigation = IF m.quality = "complete" /\ q.outcome \in {"selected", "gave_up"}
                          THEN ObservedNavigation(log) ELSE Null
        /\ m.backtracks = Backtracks(log) /\ m.direct = Direct(log, q.node)
        /\ DOMAIN m = {"quality", "navigation", "observed", "epochs", "direct", "backtracks"}
    BY DEF EventMetrics
  <2>3. /\ MetricsFor(a).quality = m.quality /\ MetricsFor(a).observed = m.observed
        /\ MetricsFor(a).navigation = m.navigation /\ MetricsFor(a).backtracks = m.backtracks
        /\ MetricsFor(a).direct = (m.direct /\ Correct(attempts[a].index, q))
    BY <2>1, <2>2
  <2> QED
    BY <1>1, <2>2, <2>3
<1>2. CASE ~Finished(a)
  <2> PICK m : m = EventMetrics(log, Root, NoOutcome, FALSE)
    OBVIOUS
  <2>1. MetricsFor(a) = [m EXCEPT !.direct = FALSE]
    BY <1>2 DEF MetricsFor
  <2>2. /\ m.quality = Quality(log, FALSE) /\ m.observed = ObservedNavigation(log)
        /\ m.navigation = Null /\ m.backtracks = Backtracks(log)
        /\ DOMAIN m = {"quality", "navigation", "observed", "epochs", "direct", "backtracks"}
    BY DEF EventMetrics, NoOutcome
  <2>3. /\ MetricsFor(a).quality = m.quality /\ MetricsFor(a).observed = m.observed
        /\ MetricsFor(a).navigation = m.navigation /\ MetricsFor(a).backtracks = m.backtracks
        /\ MetricsFor(a).direct = FALSE
    BY <2>1, <2>2
  <2>4. Finished(a) = FALSE
    BY <1>2 DEF Finished
  <2> QED
    BY <2>2, <2>3, <2>4
<1> QED
  BY <1>1, <1>2

\* eventMetricsV1 and its readers: a timing is reported as complete when the page was in
\* view all the time, and is then the time from the tree to the answer; what was observed
\* is at most what the clocks of the pages measured.
THEOREM TimingIsHonest == ResultsSpec => []TimingHonest
<1>1. Init => EventsSound
  BY DEF Init, EventsSound, StreamsValid
<1>2. ASSUME IInv, ColumnsFrozen, EventsSound PROVE TimingHonest
  <2> SUFFICES
        ASSUME NEW a \in DOMAIN attempts
        PROVE  LET m == MetricsFor(a)
                   log == attempts[a].log
                   n == Len(log)
                   ends == {i \in 1..n : i = n \/ Starts(log, i + 1)}
                   begins == {i \in 1..n : Starts(log, i)}
                   clock == [i \in 1..n |-> log[i].elapsed]
               IN  /\ m.quality = "complete" <=> Finished(a) /\ Watched(log)
                   /\ m.navigation # Null <=>
                        m.quality = "complete" /\ attempts[a].finish.request.outcome # "skipped"
                   /\ m.navigation # Null => m.navigation = clock[n] - clock[1]
                   /\ m.observed \in 0..(SumFunctionOnSet(clock, ends) - SumFunctionOnSet(clock, begins))
    BY DEF TimingHonest
  <2> DEFINE m == MetricsFor(a)
             log == attempts[a].log
             n == Len(log)
             clock == Clock(log)
             total == SumFunctionOnSet(clock, Ends(log, n)) - SumFunctionOnSet(clock, Begins(log, n))
             outcome == attempts[a].finish.request.outcome
  <2>1. log \in Seq(Event) /\ ValidStream(log) /\ \A i \in 1..n : WellFormed(log[i])
    BY <1>2 DEF IInv, TypeOK, Attempt, EventsSound, StreamsValid
  <2>2. EpochsInOrder(log)
    BY <2>1 DEF ValidStream
  <2>3. ObservedNavigation(log) \in 0..total
    BY <2>1, <2>2, ObservedBounds
  <2>4. /\ m.quality = Quality(log, Finished(a)) /\ m.observed = ObservedNavigation(log)
        /\ m.navigation = IF Finished(a) /\ m.quality = "complete" /\ outcome \in {"selected", "gave_up"}
                          THEN ObservedNavigation(log) ELSE Null
    BY <1>2, MetricsOfStream
  <2> HIDE DEF m
  <2>5. CASE Finished(a)
    <3>1. /\ outcome \in Outcomes /\ log[n].type = "submit"
      BY <1>2, <2>5, FinishedOutcome DEF IInv
    <3>2. log # <<>>
      BY <1>2, <2>5 DEF IInv, FinishedStreams, EndsRight, Finished
    <3>3. /\ Quality(log, TRUE) = "complete" <=> Watched(log)
          /\ Watched(log) => ObservedNavigation(log) = log[n].elapsed - log[1].elapsed
      BY <2>1, <3>1, <3>2, CompleteMeansWatched
    <3>4. clock[n] = log[n].elapsed /\ clock[1] = log[1].elapsed
      BY <2>1, <3>2 DEF Clock
    <3>5. outcome # "skipped" <=> outcome \in {"selected", "gave_up"}
      BY <3>1 DEF Outcomes
    <3>6. ObservedNavigation(log) # Null
      <4>1. ObservedNavigation(log) \in Int
        BY <2>3
      <4> QED
        BY <4>1, ResultsAssumption
    <3> HIDE DEF log, clock, outcome, n, total
    <3>7. /\ m.quality = "complete" <=> Watched(log)
          /\ m.navigation # Null <=> m.quality = "complete" /\ outcome # "skipped"
          /\ m.navigation # Null => m.navigation = clock[n] - clock[1]
          /\ m.observed \in 0..total
      BY <2>3, <2>4, <2>5, <3>3, <3>4, <3>5, <3>6
    <3> QED
      BY <2>5, <3>7 DEF m, log, clock, outcome, n, total, Clock, Begins, Ends
  <2>6. CASE ~Finished(a)
    <3>1. Quality(log, FALSE) # "complete"
      BY DEF Quality
    <3>2. Finished(a) = FALSE
      BY <2>6 DEF Finished
    <3>3. m.quality # "complete" /\ m.navigation = Null /\ m.observed \in 0..total
      BY <2>3, <2>4, <3>1, <3>2
    <3> QED
      BY <2>6, <3>3 DEF m, Clock, Begins, Ends
  <2> QED
    BY <2>5, <2>6
<1>3. Spec => []EventsSound
  BY <1>1, EventsSoundStep, TypeCorrect, PTL DEF Spec
<1> QED
  BY <1>2, <1>3, TablesHold, ColumnsInvariant, PTL

-----------------------------------------------------------------------------
(* Summaries and health. *)

\* The columns of a summary that count rows, and the rows that each of them counts.
Counters == {"assigned", "shown", "correct", "incorrect", "gave_up", "skipped", "unfinished",
             "unreached", "direct", "interrupted"}

Counts(f, r) ==
  \/ f = "assigned"
  \/ f = "shown" /\ r.shown
  \/ f = "correct" /\ r.outcome = "selected" /\ r.correct = TRUE
  \/ f = "incorrect" /\ r.outcome = "selected" /\ r.correct # TRUE
  \/ f \in {"gave_up", "skipped", "unfinished", "unreached"} /\ r.outcome = f
  \/ f = "direct" /\ r.metrics.direct
  \/ f = "interrupted" /\ r.metrics.quality = "interrupted"

Timed(rows) == {r \in rows : /\ r.metrics.quality = "complete"
                             /\ r.metrics.navigation # Null
                             /\ r.outcome \in {"selected", "gave_up"}}

\* summarize, column by column.
LEMMA SummaryColumns ==
  ASSUME NEW rows
  PROVE  /\ DOMAIN Summary(rows) = Counters \cup {"backtracks", "participants", "completed", "median2"}
         /\ \A f \in Counters : Summary(rows)[f] = Cardinality({r \in rows : Counts(f, r)})
         /\ Summary(rows).backtracks
              = SumFunctionOnSet([r \in rows |-> r.metrics.backtracks], rows)
         /\ Summary(rows).participants = Cardinality({r.session : r \in rows})
         /\ Summary(rows).completed
              = Cardinality({r.session : r \in {s \in rows : s.session_completed}})
         /\ Summary(rows).median2 = DoubleMedian(Timed(rows))
<1> DEFINE s == Summary(rows)
           R(f) == {r \in rows : Counts(f, r)}
<1>1. /\ s.assigned = Cardinality(rows)
      /\ s.shown = Cardinality({r \in rows : r.shown})
      /\ s.correct = Cardinality({r \in rows : r.outcome = "selected" /\ r.correct = TRUE})
      /\ s.incorrect = Cardinality({r \in rows : r.outcome = "selected" /\ r.correct # TRUE})
      /\ s.gave_up = Cardinality({r \in rows : r.outcome = "gave_up"})
      /\ s.skipped = Cardinality({r \in rows : r.outcome = "skipped"})
      /\ s.unfinished = Cardinality({r \in rows : r.outcome = "unfinished"})
      /\ s.unreached = Cardinality({r \in rows : r.outcome = "unreached"})
      /\ s.direct = Cardinality({r \in rows : r.metrics.direct})
      /\ s.interrupted = Cardinality({r \in rows : r.metrics.quality = "interrupted"})
  BY DEF Summary
<1>2. /\ R("assigned") = rows
      /\ R("shown") = {r \in rows : r.shown}
      /\ R("correct") = {r \in rows : r.outcome = "selected" /\ r.correct = TRUE}
      /\ R("incorrect") = {r \in rows : r.outcome = "selected" /\ r.correct # TRUE}
      /\ R("gave_up") = {r \in rows : r.outcome = "gave_up"}
      /\ R("skipped") = {r \in rows : r.outcome = "skipped"}
      /\ R("unfinished") = {r \in rows : r.outcome = "unfinished"}
      /\ R("unreached") = {r \in rows : r.outcome = "unreached"}
      /\ R("direct") = {r \in rows : r.metrics.direct}
      /\ R("interrupted") = {r \in rows : r.metrics.quality = "interrupted"}
  BY DEF Counts
<1>3. /\ DOMAIN s = Counters \cup {"backtracks", "participants", "completed", "median2"}
      /\ s.participants = Cardinality({r.session : r \in rows})
      /\ s.completed = Cardinality({r.session : r \in {x \in rows : x.session_completed}})
      /\ s.median2 = DoubleMedian(Timed(rows))
  BY DEF Summary, Timed, Counters
<1>4. s.backtracks = SumFunctionOnSet([r \in rows |-> r.metrics.backtracks], rows)
  BY DEF Summary, SumFunction
<1> HIDE DEF s, R
<1>5. \A f \in Counters : s[f] = Cardinality(R(f))
  BY <1>1, <1>2 DEF Counters
<1> QED
  BY <1>3, <1>4, <1>5 DEF s, R

\* reportRows: what a row of the report says.
RowSound(r, p, i) ==
  /\ r.session = p /\ r.task = i /\ r.code = Arm[p]
  /\ r.session_completed = sessions[p].completed
  /\ r.shown \in BOOLEAN
  /\ r.outcome = "unreached" <=> ~r.shown
  /\ r.shown => r.outcome \in Outcomes \cup {"unfinished"}
  /\ r.outcome \in Outcomes <=> i < sessions[p].index
  /\ r.metrics.direct => r.outcome = "selected" /\ r.correct = TRUE
  /\ r.metrics.backtracks \in Nat
  /\ r.metrics.navigation # Null =>
       /\ r.metrics.navigation \in Nat
       /\ r.metrics.quality = "complete" /\ r.outcome \in {"selected", "gave_up"}

LEMMA RowFacts ==
  ASSUME IInv, ColumnsFrozen, EventsSound,
         NEW p \in Participants, NEW i \in 0..(TaskCount - 1)
  PROVE  RowSound(AssignedRow(p, i), p, i)
<1> DEFINE r == AssignedRow(p, i)
<1>0. TypeOK /\ TasksInOrder /\ FinishedStreams
  BY DEF IInv
<1>1. CASE AttemptsAt(p, i) = {}
  <2>1. /\ r.session = p /\ r.task = i /\ r.code = Arm[p] /\ r.session_completed = sessions[p].completed
        /\ r.shown = FALSE /\ r.outcome = "unreached" /\ r.metrics = NotReached
    BY <1>1 DEF AssignedRow
  <2>2. /\ ~r.metrics.direct /\ r.metrics.backtracks = 0 /\ r.metrics.navigation = Null
    BY <2>1 DEF NotReached
  <2>3. ~(i < sessions[p].index)
    <3>1. sessions[p].index \in Nat
      BY <1>0, SessionAssumption DEF TypeOK, SessionRow
    <3>2. i < sessions[p].index => i \in 0..(sessions[p].index - 1)
      BY <3>1
    <3> QED
      BY <1>0, <1>1, <3>2 DEF TasksInOrder
  <2> HIDE DEF r
  <2>4. r.outcome \notin Outcomes
    BY <2>1 DEF Outcomes
  <2>5. r.shown \in BOOLEAN /\ ~r.shown
    BY <2>1
  <2>6. r.outcome = "unreached"
    BY <2>1
  <2> QED
    BY <2>1, <2>2, <2>3, <2>4, <2>5, <2>6 DEF r, RowSound
<1>2. CASE AttemptsAt(p, i) # {}
  <2>1. PICK a \in DOMAIN attempts : attempts[a].session = p /\ attempts[a].index = i
    BY <1>2 DEF AttemptsAt
  <2>2. r = RowOf(a)
    BY <1>0, <2>1, RowShown
  <2> DEFINE log == attempts[a].log
             q == attempts[a].finish.request
             m == MetricsFor(a)
  <2>3. /\ r.session = p /\ r.task = i /\ r.code = Arm[p] /\ r.session_completed = sessions[p].completed
        /\ r.shown = TRUE /\ r.metrics = m
        /\ r.outcome = IF Finished(a) THEN q.outcome ELSE "unfinished"
        /\ r.correct = IF r.outcome = "selected" THEN columns[a].correct ELSE Null
    BY <2>1, <2>2 DEF RowOf
  <2>4. Finished(a) => q.outcome \in Outcomes
    BY <1>0, FinishedOutcome
  <2>5. Finished(a) <=> i < sessions[p].index
    BY <1>0, <2>1 DEF TasksInOrder, Finished
  <2>6. log \in Seq(Event) /\ EpochsInOrder(log)
    BY DEF EventsSound, StreamsValid, ValidStream, IInv, TypeOK, Attempt
  <2>7. /\ m.direct \in BOOLEAN
        /\ m.direct => Finished(a) /\ Correct(i, q)
        /\ m.backtracks = Backtracks(log)
    BY <2>1, MetricsOfStream
  <2>8. m.backtracks \in Nat
    <3>1. IsFiniteSet(1..Len(log))
      BY <2>6, FS_Interval
    <3>2. DOMAIN log = 1..Len(log)
      BY <2>6
    <3> HIDE DEF log
    <3>3. Backtracks(log) \in Nat
      BY <3>1, <3>2, FS_Subset, FS_CardinalityType DEF Backtracks
    <3> QED
      BY <2>7, <3>3
  <2>9. m.navigation # Null =>
          /\ m.navigation = ObservedNavigation(log) /\ m.quality = "complete"
          /\ Finished(a) /\ q.outcome \in {"selected", "gave_up"}
    BY MetricsOfStream
  <2>10. ObservedNavigation(log) \in Nat
    <3>1. PICK total : ObservedNavigation(log) \in 0..total
      BY <2>6, ObservedBounds
    <3> QED
      BY <3>1
  <2>11. Correct(i, q) => q.outcome = "selected"
    BY DEF Correct
  <2>12. Finished(a) => columns[a].correct = Correct(i, q)
    <3>1. Finished(a) => columns[a] = FrozenColumns(attempts[a])
      BY DEF ColumnsFrozen
    <3>2. FrozenColumns(attempts[a]).correct = Correct(attempts[a].index, q)
      BY DEF FrozenColumns
    <3> QED
      BY <2>1, <3>1, <3>2
  <2>13. Correct(i, q) \in BOOLEAN
    BY DEF Correct
  <2> HIDE DEF r, m, q, log
  <2>14. m.direct => r.outcome = "selected" /\ r.correct = TRUE
    BY <2>3, <2>7, <2>11, <2>12, <2>13
  <2>15. r.outcome \in Outcomes <=> i < sessions[p].index
    BY <2>3, <2>4, <2>5 DEF Outcomes
  <2>16. r.outcome # "unreached" /\ r.outcome \in Outcomes \cup {"unfinished"}
    BY <2>3, <2>4 DEF Outcomes
  <2> QED
    BY <2>3, <2>8, <2>9, <2>10, <2>14, <2>15, <2>16 DEF r, RowSound
<1> QED
  BY <1>1, <1>2

TaskIndices == 0..(TaskCount - 1)
Members(code) == {p \in Participants : Arm[p] = code}
ArmRows(code) == {r \in Rows : r.code = code}
TaskRows(code, i) == {r \in Rows : r.code = code /\ r.task = i}

\* The rows of an arm: one per participant in it and task.
LEMMA RowsOfArm ==
  ASSUME IInv, ColumnsFrozen, EventsSound, NEW code
  PROVE  /\ IsFiniteSet(Members(code)) /\ IsFiniteSet(TaskIndices)
         /\ \A r \in ArmRows(code) : \E p \in Members(code), i \in TaskIndices : r = AssignedRow(p, i)
         /\ \A p \in Members(code), i \in TaskIndices : AssignedRow(p, i) \in ArmRows(code)
         /\ IsFiniteSet(ArmRows(code))
         /\ Cardinality(ArmRows(code)) = TaskCount * Cardinality(Members(code))
<1> DEFINE M == Members(code)
           I == TaskIndices
           R == ArmRows(code)
           f == [x \in M \X I |-> AssignedRow(x[1], x[2])]
<1>1. IsFiniteSet(M) /\ IsFiniteSet(I) /\ Cardinality(I) = TaskCount
  <2>1. M \in SUBSET Participants
    BY DEF Members
  <2>2. 0 \in Int /\ TaskCount - 1 \in Int /\ ~(0 > TaskCount - 1) /\ (TaskCount - 1) - 0 + 1 = TaskCount
    BY SessionAssumption
  <2>3. IsFiniteSet(I) /\ Cardinality(I) = (TaskCount - 1) - 0 + 1
    BY <2>2, FS_Interval DEF TaskIndices
  <2> HIDE DEF M, I
  <2>4. IsFiniteSet(M)
    BY <2>1, FS_Subset, SessionAssumption
  <2> QED
    BY <2>2, <2>3, <2>4
<1>2. ASSUME NEW p \in Participants, NEW i \in I
      PROVE  AssignedRow(p, i).code = Arm[p] /\ AssignedRow(p, i).session = p /\ AssignedRow(p, i).task = i
  <2>1. RowSound(AssignedRow(p, i), p, i)
    BY RowFacts DEF TaskIndices
  <2> QED
    BY <2>1 DEF RowSound
<1>3. \A r \in R : \E p \in M, i \in I : r = AssignedRow(p, i)
  BY <1>2 DEF ArmRows, Rows, Members, TaskIndices
<1>4. \A p \in M, i \in I : AssignedRow(p, i) \in R
  BY <1>2 DEF ArmRows, Rows, Members, TaskIndices
<1>5. \A x \in M \X I : x[1] \in M /\ x[2] \in I /\ x = <<x[1], x[2]>> /\ f[x] = AssignedRow(x[1], x[2])
  OBVIOUS
<1>6. \A p \in M : p \in Participants
  BY DEF Members
<1>7. \A r \in R : \E x \in M \X I : r = f[x]
  <2> SUFFICES ASSUME NEW r \in R PROVE \E x \in M \X I : r = f[x]
    OBVIOUS
  <2>1. PICK p \in M, i \in I : r = AssignedRow(p, i)
    BY <1>3
  <2>2. <<p, i>> \in M \X I /\ f[<<p, i>>] = AssignedRow(p, i)
    BY <1>5
  <2> QED
    BY <2>1, <2>2
<1>8. f \in [M \X I -> R]
  BY <1>4, <1>5
<1> HIDE DEF M, I, R, f
<1>9. \A x, y \in M \X I : f[x] = f[y] => x = y
  BY <1>2, <1>5, <1>6
<1>10. ExistsBijection(M \X I, R)
  <2> DEFINE D == M \X I
  <2>1. f \in [D -> R] /\ (\A x, y \in D : f[x] = f[y] => x = y) /\ \A r \in R : \E x \in D : r = f[x]
    BY <1>7, <1>8, <1>9
  <2> HIDE DEF D
  <2>2. f \in Injection(D, R) /\ f \in Surjection(D, R)
    BY <2>1 DEF Injection, Surjection, IsInjective
  <2>3. ExistsBijection(D, R)
    BY <2>2 DEF ExistsBijection, Bijection
  <2> QED
    BY <2>3 DEF D
<1>11. /\ IsFiniteSet(M \X I)
       /\ Cardinality(M \X I) = Cardinality(M) * TaskCount
  BY <1>1, FS_Product
<1>12. IsFiniteSet(R) /\ Cardinality(R) = Cardinality(M) * TaskCount
  BY <1>10, <1>11, FS_Bijection
<1>13. Cardinality(M) * TaskCount = TaskCount * Cardinality(M)
  <2>1. Cardinality(M) \in Nat /\ TaskCount \in Nat
    BY <1>1, FS_CardinalityType, SessionAssumption
  <2> QED
    BY <2>1
<1> QED
  BY <1>1, <1>3, <1>4, <1>12, <1>13 DEF M, I, R

\* A count of an arm is the sum of the counts of its tasks, and so are the backtracks.
LEMMA TasksAddUp ==
  ASSUME IInv, ColumnsFrozen, EventsSound, NEW code
  PROVE  \A f \in Counters \cup {"backtracks"} :
           ArmSummary(code)[f] = SumFunction([i \in TaskIndices |-> TaskSummary(code, i)[f]])
<1> DEFINE R == ArmRows(code)
           I == TaskIndices
           T(i) == TaskRows(code, i)
           h == [r \in R |-> r.task]
<1>1. ArmSummary(code) = Summary(R) /\ \A i : TaskSummary(code, i) = Summary(T(i))
  BY DEF ArmSummary, TaskSummary, ArmRows, TaskRows
<1>2. IsFiniteSet(R) /\ IsFiniteSet(I)
  BY RowsOfArm
<1>3. \A r \in R : h[r] = r.task /\ h[r] \in I /\ r.metrics.backtracks \in Nat
  <2>1. ASSUME NEW p \in Members(code), NEW i \in TaskIndices
        PROVE  AssignedRow(p, i).task = i /\ AssignedRow(p, i).metrics.backtracks \in Nat
    <3>1. RowSound(AssignedRow(p, i), p, i)
      BY RowFacts DEF Members, TaskIndices
    <3> QED
      BY <3>1 DEF RowSound
  <2> QED
    BY <2>1, RowsOfArm
<1>4. \A i : T(i) = {r \in R : r.task = i}
  BY DEF ArmRows, TaskRows
<1> HIDE DEF R, I, T, h
<1>5. ASSUME NEW f \in Counters
      PROVE  Summary(R)[f] = SumFunction([i \in I |-> Summary(T(i))[f]])
  <2> DEFINE S == {r \in R : Counts(f, r)}
             parts == [i \in I |-> Cardinality(Labelled(S, h, i))]
             tasks == [i \in I |-> Summary(T(i))[f]]
  <2>1. IsFiniteSet(S) /\ \A r \in S : r \in R
    BY <1>2, FS_Subset
  <2>2. \A i \in I : Labelled(S, h, i) = {r \in T(i) : Counts(f, r)}
    BY <1>3, <1>4 DEF Labelled
  <2>3. \A i \in I : Summary(T(i))[f] = Cardinality({r \in T(i) : Counts(f, r)})
    BY SummaryColumns
  <2>4. parts = tasks
    BY <2>2, <2>3
  <2>5. Summary(R)[f] = Cardinality(S)
    BY SummaryColumns
  <2> HIDE DEF S
  <2>6. Cardinality(S) = SumFunctionOnSet(parts, I)
    BY <1>2, <1>3, <2>1, CountByLabel
  <2>7. DOMAIN tasks = I
    OBVIOUS
  <2> HIDE DEF parts, tasks
  <2>8. Summary(R)[f] = SumFunction(tasks)
    BY <2>4, <2>5, <2>6, <2>7 DEF SumFunction
  <2> QED
    BY <2>8 DEF tasks
<1>6. Summary(R).backtracks = SumFunction([i \in I |-> Summary(T(i)).backtracks])
  <2> DEFINE f == [r \in R |-> r.metrics.backtracks]
             g(i) == [r \in T(i) |-> r.metrics.backtracks]
             parts == [i \in I |-> SumFunctionOnSet(f, Labelled(R, h, i))]
             tasks == [i \in I |-> Summary(T(i)).backtracks]
  <2>1. \A r \in R : f[r] \in Int
    BY <1>3
  <2>2. \A i \in I : Labelled(R, h, i) = T(i)
    BY <1>3, <1>4 DEF Labelled
  <2>3. Summary(R).backtracks = SumFunctionOnSet(f, R)
    BY SummaryColumns
  <2>4. ASSUME NEW i \in I PROVE SumFunctionOnSet(f, T(i)) = Summary(T(i)).backtracks
    <3>1. IsFiniteSet(T(i)) /\ \A r \in T(i) : f[r] = g(i)[r]
      BY <1>2, <1>4, FS_Subset
    <3>2. Summary(T(i)).backtracks = SumFunctionOnSet(g(i), T(i))
      BY SummaryColumns
    <3> HIDE DEF f, g
    <3>3. SumFunctionOnSet(f, T(i)) = SumFunctionOnSet(g(i), T(i))
      BY <3>1, SumSame
    <3> QED
      BY <3>2, <3>3
  <2>5. parts = tasks
    BY <2>2, <2>4
  <2> HIDE DEF f
  <2>6. SumFunctionOnSet(f, R) = SumFunctionOnSet(parts, I)
    BY <1>2, <1>3, <2>1, SumByLabel
  <2>7. DOMAIN tasks = I
    OBVIOUS
  <2> HIDE DEF parts, tasks
  <2>8. Summary(R).backtracks = SumFunction(tasks)
    BY <2>3, <2>5, <2>6, <2>7 DEF SumFunction
  <2> QED
    BY <2>8 DEF tasks
<1>7. ASSUME NEW f \in Counters \cup {"backtracks"}
      PROVE  Summary(R)[f] = SumFunction([i \in I |-> Summary(T(i))[f]])
  <2>1. CASE f \in Counters
    BY <1>5, <2>1
  <2>2. CASE f = "backtracks"
    BY <1>6, <2>2
  <2> QED
    BY <2>1, <2>2
<1> QED
  BY <1>1, <1>7 DEF I

\* The rows that were shown, and those that were not; the outcomes of those that were.
LEMMA OutcomesPartition ==
  ASSUME IInv, ColumnsFrozen, EventsSound, NEW code
  PROVE  LET arm == ArmSummary(code)
         IN  /\ arm.assigned = TaskCount * Cardinality(Members(code))
             /\ arm.assigned = arm.shown + arm.unreached
             /\ arm.shown = arm.correct + arm.incorrect + arm.gave_up + arm.skipped + arm.unfinished
             /\ arm.direct <= arm.correct
<1> DEFINE R == ArmRows(code)
           C(f) == {r \in R : Counts(f, r)}
           arm == ArmSummary(code)
<1>1. \A f \in Counters : arm[f] = Cardinality(C(f))
  BY SummaryColumns DEF ArmSummary, ArmRows
<1>2. IsFiniteSet(R) /\ Cardinality(R) = TaskCount * Cardinality(Members(code))
  BY RowsOfArm
<1>3. ASSUME NEW r \in R
      PROVE  /\ r.shown \in BOOLEAN
             /\ r.outcome = "unreached" <=> ~r.shown
             /\ r.shown => r.outcome \in Outcomes \cup {"unfinished"}
             /\ r.metrics.direct => r.outcome = "selected" /\ r.correct = TRUE
  <2>1. PICK p \in Members(code), i \in TaskIndices : r = AssignedRow(p, i)
    BY RowsOfArm
  <2>2. RowSound(r, p, i)
    BY <2>1, RowFacts DEF Members, TaskIndices
  <2> QED
    BY <2>2 DEF RowSound
<1> HIDE DEF R
<1>4. /\ C("assigned") = R
      /\ C("shown") = {r \in R : r.shown}
      /\ C("correct") = {r \in R : r.outcome = "selected" /\ r.correct = TRUE}
      /\ C("incorrect") = {r \in R : r.outcome = "selected" /\ r.correct # TRUE}
      /\ C("gave_up") = {r \in R : r.outcome = "gave_up"}
      /\ C("skipped") = {r \in R : r.outcome = "skipped"}
      /\ C("unfinished") = {r \in R : r.outcome = "unfinished"}
      /\ C("unreached") = {r \in R : r.outcome = "unreached"}
      /\ C("direct") = {r \in R : r.metrics.direct}
  BY DEF Counts
<1>5. \A f : IsFiniteSet(C(f))
  BY <1>2, FS_Subset
<1>6. /\ arm.assigned = Cardinality(C("assigned")) /\ arm.shown = Cardinality(C("shown"))
      /\ arm.correct = Cardinality(C("correct")) /\ arm.incorrect = Cardinality(C("incorrect"))
      /\ arm.gave_up = Cardinality(C("gave_up")) /\ arm.skipped = Cardinality(C("skipped"))
      /\ arm.unfinished = Cardinality(C("unfinished")) /\ arm.unreached = Cardinality(C("unreached"))
      /\ arm.direct = Cardinality(C("direct"))
  BY <1>1 DEF Counters
<1>7. R = C("shown") \cup C("unreached") /\ C("shown") \cap C("unreached") = {}
  BY <1>3, <1>4
<1>a. C("direct") \in SUBSET C("correct")
  BY <1>3, <1>4
<1> DEFINE E == C("skipped") \cup C("unfinished")
           D == C("gave_up") \cup E
           B == C("incorrect") \cup D
<1>8. C("shown") = C("correct") \cup B
  <2>1. \A r \in R : r.shown <=> r.outcome \in {"selected", "gave_up", "skipped", "unfinished"}
    BY <1>3 DEF Outcomes
  <2> QED
    BY <1>4, <2>1
<1>9. /\ C("correct") \cap B = {} /\ C("incorrect") \cap D = {} /\ C("gave_up") \cap E = {}
      /\ C("skipped") \cap C("unfinished") = {}
  BY <1>4
<1>b. IsFiniteSet(B) /\ IsFiniteSet(D) /\ IsFiniteSet(E)
  <2>1. B \in SUBSET C("shown") /\ D \in SUBSET C("shown") /\ E \in SUBSET C("shown")
    BY <1>8
  <2> HIDE DEF B, C, D, E
  <2> QED
    BY <1>5, <2>1, FS_Subset
<1>10. /\ Cardinality(R) = Cardinality(C("shown")) + Cardinality(C("unreached"))
       /\ Cardinality(C("direct")) <= Cardinality(C("correct"))
  <2> HIDE DEF C
  <2> QED
    BY <1>2, <1>5, <1>7, <1>a, CountDisjoint, FS_Subset
<1>11. /\ Cardinality(C("shown")) = Cardinality(C("correct")) + Cardinality(B)
       /\ Cardinality(B) = Cardinality(C("incorrect")) + Cardinality(D)
       /\ Cardinality(D) = Cardinality(C("gave_up")) + Cardinality(E)
       /\ Cardinality(E) = Cardinality(C("skipped")) + Cardinality(C("unfinished"))
  <2>1. B = C("incorrect") \cup D /\ D = C("gave_up") \cup E /\ E = C("skipped") \cup C("unfinished")
    OBVIOUS
  <2> HIDE DEF B, C, D, E
  <2>2. Cardinality(C("shown")) = Cardinality(C("correct")) + Cardinality(B)
    BY <1>5, <1>8, <1>9, CountDisjoint
  <2>3. Cardinality(B) = Cardinality(C("incorrect")) + Cardinality(D)
    BY <1>9, <1>b, <2>1, CountDisjoint
  <2>4. Cardinality(D) = Cardinality(C("gave_up")) + Cardinality(E)
    BY <1>9, <1>b, <2>1, CountDisjoint
  <2>5. Cardinality(E) = Cardinality(C("skipped")) + Cardinality(C("unfinished"))
    BY <1>9, <1>b, <2>1, CountDisjoint
  <2> QED
    BY <2>2, <2>3, <2>4, <2>5
<1>12. /\ \A f : Cardinality(C(f)) \in Nat
       /\ Cardinality(B) \in Nat /\ Cardinality(D) \in Nat /\ Cardinality(E) \in Nat
  <2> HIDE DEF B, C, D, E
  <2> QED
    BY <1>5, <1>b, FS_CardinalityType
<1> HIDE DEF B, C, D, E, arm
<1>13. PICK c \in Nat, i \in Nat, g \in Nat, k \in Nat, u \in Nat :
          /\ c = Cardinality(C("correct")) /\ i = Cardinality(C("incorrect"))
          /\ g = Cardinality(C("gave_up")) /\ k = Cardinality(C("skipped"))
          /\ u = Cardinality(C("unfinished"))
  BY <1>12, Zenon
<1>14. Cardinality(C("shown")) = (((c + i) + g) + k) + u
  <2>1. Cardinality(C("shown")) = c + (i + (g + (k + u)))
    BY <1>11, <1>13
  <2> QED
    BY <1>13, <2>1
<1>15. /\ arm.assigned = TaskCount * Cardinality(Members(code))
       /\ arm.assigned = arm.shown + arm.unreached
       /\ arm.shown = arm.correct + arm.incorrect + arm.gave_up + arm.skipped + arm.unfinished
       /\ arm.direct <= arm.correct
  BY <1>2, <1>4, <1>6, <1>10, <1>13, <1>14
<1> QED
  BY <1>15 DEF arm

\* The median of times that are there is a time.
LEMMA MedianThere ==
  ASSUME NEW timed, IsFiniteSet(timed), \A r \in timed : r.metrics.navigation \in Nat
  PROVE  DoubleMedian(timed) = Null <=> timed = {}
<1> DEFINE n == Cardinality(timed)
           k == [r \in timed |-> r.metrics.navigation]
           Order(o) == /\ o \in [1..n -> timed]
                       /\ \A i, j \in 1..n : o[i] = o[j] => i = j
                       /\ \A i, j \in 1..n : i < j => o[i].metrics.navigation <= o[j].metrics.navigation
           order == CHOOSE o \in [1..n -> timed] :
                      /\ \A i, j \in 1..n : o[i] = o[j] => i = j
                      /\ \A i, j \in 1..n : i < j => o[i].metrics.navigation <= o[j].metrics.navigation
<1>1. n \in Nat /\ (n = 0 <=> timed = {})
  BY FS_CardinalityType, FS_EmptySet
<1>2. DoubleMedian(timed) = IF n = 0 THEN Null ELSE order[(n + 1) \div 2].metrics.navigation
                                                    + order[(n + 2) \div 2].metrics.navigation
  BY DEF DoubleMedian
<1>3. \E o \in [1..n -> timed] : Order(o)
  <2>1. \A r \in timed : k[r] = r.metrics.navigation /\ k[r] \in Nat
    OBVIOUS
  <2> HIDE DEF k
  <2>2. PICK o \in [1..n -> timed] :
           /\ \A i, j \in 1..n : o[i] = o[j] => i = j
           /\ \A i, j \in 1..n : i < j => k[o[i]] <= k[o[j]]
    BY <2>1, InOrder
  <2>3. \A i \in 1..n : k[o[i]] = o[i].metrics.navigation
    BY <2>1, <2>2
  <2> QED
    BY <2>2, <2>3
<1>4. order \in [1..n -> timed]
  <2> HIDE DEF n
  <2> QED
    BY <1>3
<1> HIDE DEF order
<1>5. CASE timed # {}
  <2>1. n \in Nat /\ n # 0
    BY <1>1, <1>5
  <2> HIDE DEF n
  <2>2. (n + 1) \div 2 \in 1..n /\ (n + 2) \div 2 \in 1..n
    BY <2>1
  <2>3. DoubleMedian(timed) \in Int
    BY <1>2, <1>4, <2>1, <2>2
  <2> QED
    BY <1>5, <2>3, ResultsAssumption
<1> QED
  BY <1>1, <1>2, <1>5

\* A session is complete when all of its tasks are answered.
LEMMA CompleteAnswered ==
  ASSUME IInv, ColumnsFrozen, EventsSound, NEW p \in Participants
  PROVE  sessions[p].completed
           <=> \A i \in 0..(TaskCount - 1) : AssignedRow(p, i).outcome \in Outcomes
<1>1. sessions[p].index \in 0..TaskCount /\ (sessions[p].completed <=> sessions[p].index = TaskCount)
  BY DEF IInv, TypeOK, SessionRow, TasksInOrder
<1>2. \A i \in 0..(TaskCount - 1) : AssignedRow(p, i).outcome \in Outcomes <=> i < sessions[p].index
  <2> TAKE i \in 0..(TaskCount - 1)
  <2>1. RowSound(AssignedRow(p, i), p, i)
    BY RowFacts
  <2> QED
    BY <2>1 DEF RowSound
<1>3. TaskCount \in Nat \ {0}
  BY SessionAssumption
<1>4. (\A i \in 0..(TaskCount - 1) : i < sessions[p].index) <=> sessions[p].index = TaskCount
  <2>1. ASSUME sessions[p].index # TaskCount
        PROVE  sessions[p].index \in 0..(TaskCount - 1)
    BY <1>1, <1>3, <2>1
  <2> QED
    BY <1>1, <1>3, <2>1
<1> QED
  BY <1>1, <1>2, <1>4

\* The participants of an arm and those who completed.
LEMMA ArmPeople ==
  ASSUME IInv, ColumnsFrozen, EventsSound, NEW code
  PROVE  /\ ArmSummary(code).participants = Cardinality(Members(code))
         /\ ArmSummary(code).completed = Cardinality({p \in Members(code) : sessions[p].completed})
<1> DEFINE R == ArmRows(code)
<1>1. \A p \in Members(code), i \in TaskIndices :
        AssignedRow(p, i).session = p /\ AssignedRow(p, i).session_completed = sessions[p].completed
  <2> TAKE p \in Members(code), i \in TaskIndices
  <2>1. RowSound(AssignedRow(p, i), p, i)
    BY RowFacts DEF Members, TaskIndices
  <2> QED
    BY <2>1 DEF RowSound
<1>2. 0 \in TaskIndices
  BY SessionAssumption DEF TaskIndices
<1>3. /\ \A r \in R : \E p \in Members(code), i \in TaskIndices : r = AssignedRow(p, i)
      /\ \A p \in Members(code) : AssignedRow(p, 0) \in R
  BY <1>2, RowsOfArm
<1>4. /\ ArmSummary(code).participants = Cardinality({r.session : r \in R})
      /\ ArmSummary(code).completed = Cardinality({r.session : r \in {s \in R : s.session_completed}})
  BY SummaryColumns DEF ArmSummary, ArmRows
<1> HIDE DEF R
<1>5. {r.session : r \in R} = Members(code)
  <2>1. \A r \in R : r.session \in Members(code)
    BY <1>1, <1>3
  <2>2. \A p \in Members(code) : \E r \in R : p = r.session
    BY <1>1, <1>2, <1>3
  <2> QED
    BY <2>1, <2>2
<1>6. {r.session : r \in {s \in R : s.session_completed}} = {p \in Members(code) : sessions[p].completed}
  <2>1. \A r \in R : r.session_completed => r.session \in Members(code) /\ sessions[r.session].completed
    BY <1>1, <1>3
  <2>2. \A p \in Members(code) : sessions[p].completed => \E r \in R : r.session_completed /\ p = r.session
    BY <1>1, <1>2, <1>3
  <2> QED
    BY <2>1, <2>2
<1> QED
  BY <1>4, <1>5, <1>6

\* The arms share out the participants of the run.
LEMMA HealthAddsUp ==
  ASSUME IInv, ColumnsFrozen, EventsSound
  PROVE  LET codes == {Arm[p] : p \in Participants}
         IN  /\ Health.completed = SumFunction([code \in codes |-> ArmSummary(code).completed])
             /\ Health.enrolled = SumFunction([code \in codes |-> ArmSummary(code).participants])
<1> DEFINE codes == {Arm[p] : p \in Participants}
           h == [p \in Participants |-> Arm[p]]
<1>1. IsFiniteSet(codes)
  <2>1. h \in Surjection(Participants, codes)
    BY DEF Surjection
  <2> HIDE DEF codes, h
  <2> QED
    BY <2>1, FS_Surjection, SessionAssumption
<1>2. \A p \in Participants : h[p] \in codes /\ h[p] = Arm[p]
  OBVIOUS
<1> HIDE DEF codes, h
<1>3. ASSUME NEW S \in SUBSET Participants, NEW f, DOMAIN f = codes,
             f = [code \in codes |-> Cardinality({p \in Members(code) : p \in S})]
      PROVE  Cardinality(S) = SumFunction(f)
  <2> DEFINE parts == [code \in codes |-> Cardinality(Labelled(S, h, code))]
  <2>1. \A code \in codes : Labelled(S, h, code) = {p \in Members(code) : p \in S}
    BY <1>2 DEF Labelled, Members
  <2>2. f = parts
    BY <1>3, <2>1
  <2>3. IsFiniteSet(S)
    BY FS_Subset, SessionAssumption
  <2>4. Cardinality(S) = SumFunctionOnSet(parts, codes)
    BY <1>1, <1>2, <2>3, CountByLabel
  <2> HIDE DEF parts
  <2> QED
    BY <1>3, <2>2, <2>4 DEF SumFunction
<1>4. Health.completed = SumFunction([code \in codes |-> ArmSummary(code).completed])
  <2> DEFINE S == {p \in Participants : sessions[p].completed}
             f == [code \in codes |-> ArmSummary(code).completed]
  <2>1. \A code \in codes :
          {p \in Members(code) : p \in S} = {p \in Members(code) : sessions[p].completed}
    BY DEF Members
  <2>2. f = [code \in codes |-> Cardinality({p \in Members(code) : p \in S})]
    BY <2>1, ArmPeople
  <2>3. DOMAIN f = codes /\ S \in SUBSET Participants
    OBVIOUS
  <2>4. Health.completed = Cardinality(S)
    BY DEF Health
  <2> HIDE DEF S, f
  <2>5. Cardinality(S) = SumFunction(f)
    BY <1>3, <2>2, <2>3
  <2> QED
    BY <2>4, <2>5 DEF f
<1>5. Health.enrolled = SumFunction([code \in codes |-> ArmSummary(code).participants])
  <2> DEFINE f == [code \in codes |-> ArmSummary(code).participants]
  <2>1. \A code \in codes : {p \in Members(code) : p \in Participants} = Members(code)
    BY DEF Members
  <2>2. f = [code \in codes |-> Cardinality({p \in Members(code) : p \in Participants})]
    BY <2>1, ArmPeople
  <2>3. DOMAIN f = codes
    OBVIOUS
  <2>4. Health.enrolled = Cardinality(Participants)
    BY DEF Health
  <2> HIDE DEF f
  <2>5. Cardinality(Participants) = SumFunction(f)
    BY <1>3, <2>2, <2>3
  <2> QED
    BY <2>4, <2>5 DEF f
<1> QED
  BY <1>4, <1>5 DEF codes

\* A median is there when a timing is.
LEMMA MedianOfArm ==
  ASSUME IInv, ColumnsFrozen, EventsSound, NEW code
  PROVE  ArmSummary(code).median2 = Null
           <=> \A r \in Rows : r.code = code => r.metrics.navigation = Null
<1> DEFINE R == ArmRows(code)
<1>1. \A r \in R : r.metrics.navigation # Null =>
        /\ r.metrics.navigation \in Nat
        /\ r.metrics.quality = "complete" /\ r.outcome \in {"selected", "gave_up"}
  <2> TAKE r \in R
  <2>1. PICK p \in Members(code), i \in TaskIndices : r = AssignedRow(p, i)
    BY RowsOfArm
  <2>2. RowSound(r, p, i)
    BY <2>1, RowFacts DEF Members, TaskIndices
  <2> QED
    BY <2>2 DEF RowSound
<1>2. IsFiniteSet(R)
  BY RowsOfArm
<1>3. \A r : r \in R <=> r \in Rows /\ r.code = code
  BY DEF ArmRows
<1>4. ArmSummary(code).median2 = DoubleMedian(Timed(R))
  BY SummaryColumns DEF ArmSummary, ArmRows
<1> HIDE DEF R
<1>5. /\ Timed(R) \in SUBSET R
      /\ \A r \in Timed(R) : r.metrics.navigation \in Nat
      /\ Timed(R) = {} <=> \A r \in R : r.metrics.navigation = Null
  BY <1>1 DEF Timed
<1>6. IsFiniteSet(Timed(R))
  BY <1>2, <1>5, FS_Subset
<1>7. DoubleMedian(Timed(R)) = Null <=> Timed(R) = {}
  BY <1>5, <1>6, MedianThere
<1> QED
  BY <1>3, <1>4, <1>5, <1>7

\* results and reportRows: summaries and health are what the rows of the assigned tasks
\* add up to, for any number of arms, participants and tasks.
THEOREM SummariesAgree == ResultsSpec => []SummariesAddUp
<1>1. Init => EventsSound
  BY DEF Init, EventsSound, StreamsValid
<1>2. ASSUME IInv, ColumnsFrozen, EventsSound PROVE SummariesAddUp
  <2> DEFINE codes == {Arm[p] : p \in Participants}
             arms == [code \in codes |-> ArmSummary(code)]
  <2>1. \A code \in codes : arms[code] = ArmSummary(code)
    OBVIOUS
  <2>2. /\ Health.completed = SumFunction([code \in codes |-> arms[code].completed])
        /\ Health.enrolled = SumFunction([code \in codes |-> arms[code].participants])
    <3>1. /\ [code \in codes |-> arms[code].completed] = [code \in codes |-> ArmSummary(code).completed]
          /\ [code \in codes |-> arms[code].participants] = [code \in codes |-> ArmSummary(code).participants]
      BY <2>1
    <3> HIDE DEF arms
    <3> QED
      BY <1>2, <3>1, HealthAddsUp
  <2>3. ASSUME NEW code \in codes
        PROVE  LET arm == arms[code]
                   tasks == [i \in 0..(TaskCount - 1) |-> TaskSummary(code, i)]
                   members == {p \in Participants : Arm[p] = code}
               IN  /\ \A f \in DOMAIN arm \ {"participants", "completed", "median2"} :
                        arm[f] = SumFunction([i \in DOMAIN tasks |-> tasks[i][f]])
                   /\ arm.assigned = TaskCount * Cardinality(members)
                   /\ arm.assigned = arm.shown + arm.unreached
                   /\ arm.shown =
                        arm.correct + arm.incorrect + arm.gave_up + arm.skipped + arm.unfinished
                   /\ arm.direct <= arm.correct
                   /\ arm.completed = Cardinality({p \in members :
                        \A i \in 0..(TaskCount - 1) : AssignedRow(p, i).outcome \in Outcomes})
                   /\ arm.median2 = Null <=>
                        \A r \in Rows : r.code = code => r.metrics.navigation = Null
    <3> DEFINE arm == arms[code]
               tasks == [i \in 0..(TaskCount - 1) |-> TaskSummary(code, i)]
               members == {p \in Participants : Arm[p] = code}
    <3>0. arm = ArmSummary(code) /\ members = Members(code)
      BY <2>1 DEF Members
    <3> HIDE DEF arms
    <3>1. ASSUME NEW f \in DOMAIN arm \ {"participants", "completed", "median2"}
          PROVE  arm[f] = SumFunction([i \in DOMAIN tasks |-> tasks[i][f]])
      <4>1. f \in Counters \cup {"backtracks"}
        BY <3>0, SummaryColumns DEF ArmSummary, ArmRows
      <4>2. ArmSummary(code)[f] = SumFunction([i \in TaskIndices |-> TaskSummary(code, i)[f]])
        BY <1>2, <4>1, TasksAddUp
      <4>3. [i \in DOMAIN tasks |-> tasks[i][f]] = [i \in TaskIndices |-> TaskSummary(code, i)[f]]
        BY DEF TaskIndices
      <4> QED
        BY <3>0, <4>2, <4>3
    <3>2. /\ arm.assigned = TaskCount * Cardinality(members)
          /\ arm.assigned = arm.shown + arm.unreached
          /\ arm.shown = arm.correct + arm.incorrect + arm.gave_up + arm.skipped + arm.unfinished
          /\ arm.direct <= arm.correct
      BY <1>2, <3>0, OutcomesPartition
    <3>3. arm.completed = Cardinality({p \in members :
             \A i \in 0..(TaskCount - 1) : AssignedRow(p, i).outcome \in Outcomes})
      <4>1. {p \in Members(code) : sessions[p].completed}
              = {p \in members : \A i \in 0..(TaskCount - 1) : AssignedRow(p, i).outcome \in Outcomes}
        BY <1>2, <3>0, CompleteAnswered DEF Members
      <4> QED
        BY <1>2, <3>0, <4>1, ArmPeople
    <3>4. arm.median2 = Null <=> \A r \in Rows : r.code = code => r.metrics.navigation = Null
      BY <1>2, <3>0, MedianOfArm
    <3> HIDE DEF arm, tasks, members
    <3>5. /\ \A f \in DOMAIN arm \ {"participants", "completed", "median2"} :
               arm[f] = SumFunction([i \in DOMAIN tasks |-> tasks[i][f]])
          /\ arm.assigned = TaskCount * Cardinality(members)
          /\ arm.assigned = arm.shown + arm.unreached
          /\ arm.shown = arm.correct + arm.incorrect + arm.gave_up + arm.skipped + arm.unfinished
          /\ arm.direct <= arm.correct
          /\ arm.completed = Cardinality({p \in members :
               \A i \in 0..(TaskCount - 1) : AssignedRow(p, i).outcome \in Outcomes})
          /\ arm.median2 = Null <=> \A r \in Rows : r.code = code => r.metrics.navigation = Null
      BY <3>1, <3>2, <3>3, <3>4
    <3> QED
      BY <3>5 DEF arm, tasks, members
  <2> HIDE DEF arms
  <2>4. /\ Health.completed = SumFunction([code \in codes |-> arms[code].completed])
        /\ Health.enrolled = SumFunction([code \in codes |-> arms[code].participants])
        /\ \A code \in codes :
             LET arm == arms[code]
                 tasks == [i \in 0..(TaskCount - 1) |-> TaskSummary(code, i)]
                 members == {p \in Participants : Arm[p] = code}
             IN  /\ \A f \in DOMAIN arm \ {"participants", "completed", "median2"} :
                      arm[f] = SumFunction([i \in DOMAIN tasks |-> tasks[i][f]])
                 /\ arm.assigned = TaskCount * Cardinality(members)
                 /\ arm.assigned = arm.shown + arm.unreached
                 /\ arm.shown =
                      arm.correct + arm.incorrect + arm.gave_up + arm.skipped + arm.unfinished
                 /\ arm.direct <= arm.correct
                 /\ arm.completed = Cardinality({p \in members :
                      \A i \in 0..(TaskCount - 1) : AssignedRow(p, i).outcome \in Outcomes})
                 /\ arm.median2 = Null <=>
                      \A r \in Rows : r.code = code => r.metrics.navigation = Null
    BY <2>2, <2>3
  <2> QED
    BY <2>4 DEF SummariesAddUp, arms
<1>3. Spec => []EventsSound
  BY <1>1, EventsSoundStep, TypeCorrect, PTL DEF Spec
<1> QED
  BY <1>2, <1>3, TablesHold, ColumnsInvariant, PTL

-----------------------------------------------------------------------------
(* The texts of times. *)

\* Division with a remainder keeps order: quotients do, and where they agree remainders do.
LEMMA Division ==
  ASSUME NEW m \in Nat, NEW n \in Nat, NEW b \in Nat \ {0}
  PROVE  /\ n \div b \in Nat /\ n % b \in Int
         /\ m <= n => m \div b <= n \div b
         /\ m < n /\ m \div b = n \div b => m % b < n % b
<1>1. b \in Nat /\ b > 0
  OBVIOUS
<1>2. n \div b \in Int /\ n \div b >= 0 /\ n % b \in Int
  BY <1>1
<1>3. m <= n => m \div b <= n \div b
  BY <1>1
<1>4. m < n /\ m \div b = n \div b => m % b < n % b
  BY <1>1
<1> QED
  BY <1>2, <1>3, <1>4

\* The recursive function Shifted is one, and loses one digit at a time.
LEMMA ShiftedStep ==
  ASSUME NEW n \in Nat
  PROVE  /\ Shifted(n)[0] = n
         /\ \A j \in 1..Width : Shifted(n)[j] = Shifted(n)[j - 1] \div Base
         /\ \A j \in 0..Width : Shifted(n)[j] \in Nat
<1> DEFINE Step(g, i) == IF i = 0 THEN n ELSE g[i - 1] \div Base
           Is(g, k) == g = [i \in 0..k |-> Step(g, i)]
           bad == {k \in 0..Width : ~\E g : Is(g, k)}
<1>0. Width \in Nat /\ Width \in 0..Width /\ Base \in Nat \ {0}
  BY TimestampAssumption
<1>1. Is([i \in 0..0 |-> n], 0)
  OBVIOUS
<1>2. ASSUME NEW k \in 1..Width, NEW g, Is(g, k - 1)
      PROVE  \E h : Is(h, k)
  <2> DEFINE h == [i \in 0..k |-> Step(g, i)]
  <2>0. k \in Nat /\ k - 1 \in Nat /\ ~(k \in 0..(k - 1)) /\ k # 0
    BY <1>0
  <2>1. \A i \in 0..(k - 1) : i \in 0..k /\ g[i] = Step(g, i)
    BY <1>2, <2>0
  <2>2. \A i \in 0..(k - 1) : h[i] = g[i]
    BY <2>1
  <2>3. \A i \in 0..k : i # 0 => i - 1 \in 0..(k - 1)
    BY <2>0
  <2> HIDE DEF h
  <2>4. \A i \in 0..k : Step(g, i) = Step(h, i)
    BY <2>2, <2>3
  <2>5. h = [i \in 0..k |-> Step(h, i)]
    BY <2>4 DEF h
  <2> QED
    BY <2>5
<1>3. \E g : Is(g, Width)
  <2> SUFFICES ASSUME bad # {} PROVE FALSE
    BY <1>0
  <2> HIDE DEF Is
  <2>1. bad \in SUBSET Nat
    BY <1>0
  <2>2. PICK m \in bad : \A k \in bad : m <= k
    <3> HIDE DEF bad
    <3> QED
      BY <2>1, LeastMember
  <2>3. m # 0
    BY <1>1
  <2>4. m \in 1..Width /\ m - 1 \in 0..Width /\ ~(m <= m - 1)
    BY <1>0, <2>3
  <2>5. m - 1 \notin bad
    BY <2>2, <2>4
  <2>6. \E g : Is(g, m - 1)
    BY <2>4, <2>5
  <2> QED
    BY <1>2, <2>4, <2>6
<1>4. Shifted(n) = CHOOSE g : Is(g, Width)
  BY DEF Shifted
<1> HIDE DEF Is
<1>5. Is(Shifted(n), Width)
  BY <1>3, <1>4, Zenon
<1> DEFINE q == Shifted(n)
<1>6. q[0] = n /\ \A j \in 1..Width : j \in 0..Width /\ q[j] = q[j - 1] \div Base
  BY <1>0, <1>5 DEF Is
<1> HIDE DEF q
<1>7. \A j \in 0..Width : q[j] \in Nat
  <2> DEFINE worse == {j \in 0..Width : q[j] \notin Nat}
  <2> SUFFICES ASSUME worse # {} PROVE FALSE
    OBVIOUS
  <2>1. worse \in SUBSET Nat
    BY <1>0
  <2>2. PICK m \in worse : \A k \in worse : m <= k
    <3> HIDE DEF worse
    <3> QED
      BY <2>1, LeastMember
  <2>3. m \in 1..Width /\ m - 1 \in 0..Width /\ ~(m <= m - 1)
    BY <1>0, <1>6
  <2>4. q[m - 1] \in Nat
    BY <2>2, <2>3
  <2>5. q[m - 1] \div Base \in Nat
    BY <1>0, <2>4, Division
  <2> QED
    BY <1>6, <2>3, <2>5
<1> QED
  BY <1>6, <1>7 DEF q

\* An earlier second stays the smaller one, however many digits are cut off.
LEMMA ShiftedMonotone ==
  ASSUME NEW m \in Nat, NEW n \in Nat, m <= n
  PROVE  \A j \in 0..Width : Shifted(m)[j] <= Shifted(n)[j]
<1> DEFINE p == Shifted(m)
           q == Shifted(n)
           bad == {j \in 0..Width : ~(p[j] <= q[j])}
<1> SUFFICES ASSUME bad # {} PROVE FALSE
  OBVIOUS
<1>0. Width \in Nat /\ Base \in Nat \ {0}
  BY TimestampAssumption
<1>1. /\ p[0] = m /\ q[0] = n
      /\ \A j \in 1..Width : p[j] = p[j - 1] \div Base /\ q[j] = q[j - 1] \div Base
      /\ \A j \in 0..Width : p[j] \in Nat /\ q[j] \in Nat
  BY ShiftedStep
<1> HIDE DEF p, q
<1>2. PICK k \in bad : \A j \in bad : k <= j
  <2>1. bad \in SUBSET Nat
    BY <1>0
  <2> HIDE DEF bad
  <2> QED
    BY <2>1, LeastMember
<1>3. k \in 1..Width /\ k - 1 \in 0..Width /\ ~(k <= k - 1)
  BY <1>0, <1>1
<1>4. p[k - 1] <= q[k - 1]
  BY <1>2, <1>3
<1>5. p[k - 1] \div Base <= q[k - 1] \div Base
  BY <1>0, <1>1, <1>3, <1>4, Division
<1> QED
  BY <1>1, <1>3, <1>5

\* The digits of two seconds differ first where the later one has the greater digit.
LEMMA DigitsInOrder ==
  ASSUME NEW s \in Seconds, NEW t \in Seconds, s < t
  PROVE  \E k \in 1..Width : /\ Digits(s)[k] < Digits(t)[k]
                             /\ \A j \in 1..(k - 1) : Digits(s)[j] = Digits(t)[j]
<1> DEFINE p == Shifted(s)
           q == Shifted(t)
           bad == {k \in 0..Width : p[Width - k] # q[Width - k]}
<1>0. Width \in Nat /\ Base \in Nat \ {0} /\ LastSecond \in Nat
  BY TimestampAssumption
<1>1. s \in Nat /\ t \in Nat /\ s <= t /\ s <= LastSecond /\ t <= LastSecond
  BY <1>0 DEF Seconds
<1>2. /\ p[0] = s /\ q[0] = t
      /\ \A j \in 1..Width : p[j] = p[j - 1] \div Base /\ q[j] = q[j - 1] \div Base
      /\ \A j \in 0..Width : p[j] \in Nat /\ q[j] \in Nat /\ p[j] <= q[j]
  BY <1>1, ShiftedStep, ShiftedMonotone
<1>3. p[Width] = 0 /\ q[Width] = 0
  <2>1. Shifted(LastSecond)[Width] = 0 /\ Width \in 0..Width
    BY <1>0, TimestampAssumption
  <2>2. p[Width] <= 0 /\ q[Width] <= 0
    BY <1>0, <1>1, <2>1, ShiftedMonotone
  <2> QED
    BY <1>2, <2>1, <2>2
<1>d. \A k \in 1..Width : Digits(s)[k] = p[Width - k] % Base /\ Digits(t)[k] = q[Width - k] % Base
  BY DEF Digits
<1> HIDE DEF p, q
<1>4. Width - Width = 0 /\ Width - 0 = Width /\ Width \in 0..Width
  BY <1>0
<1>5. Width \in bad
  BY <1>1, <1>2, <1>4
<1>6. PICK k \in bad : \A j \in bad : k <= j
  <2>1. bad \in SUBSET Nat
    BY <1>0
  <2> HIDE DEF bad
  <2> QED
    BY <1>5, <2>1, LeastMember
<1>7. k \in 0..Width /\ k # 0
  BY <1>3, <1>4
<1>8. /\ k \in 1..Width /\ k - 1 \in 0..Width /\ ~(k <= k - 1)
      /\ Width - k \in 0..Width /\ Width - (k - 1) \in 1..Width
      /\ (Width - (k - 1)) - 1 = Width - k
  BY <1>0, <1>7
<1>9. p[Width - (k - 1)] = q[Width - (k - 1)]
  BY <1>6, <1>8
<1>10. p[Width - k] \div Base = q[Width - k] \div Base
  BY <1>2, <1>8, <1>9
<1>11. p[Width - k] < q[Width - k]
  <2>1. p[Width - k] # q[Width - k]
    OBVIOUS
  <2>2. p[Width - k] \in Nat /\ q[Width - k] \in Nat /\ p[Width - k] <= q[Width - k]
    BY <1>2, <1>8
  <2> QED
    BY <2>1, <2>2
<1>12. p[Width - k] % Base < q[Width - k] % Base
  BY <1>0, <1>2, <1>8, <1>10, <1>11, Division
<1>13. \A j \in 1..(k - 1) : j \in 1..Width /\ j \in 0..Width /\ ~(k <= j)
  BY <1>0, <1>8
<1>14. \A j \in 1..(k - 1) : p[Width - j] = q[Width - j]
  BY <1>6, <1>13
<1> QED
  BY <1>d, <1>8, <1>12, <1>13, <1>14

\* The digits of the second come first in a text.
LEMMA StampBegins ==
  ASSUME NEW s \in Seconds, NEW f \in Fractions
  PROVE  /\ Stamp(s, f) \in Seq(Int) /\ Len(Stamp(s, f)) > Width
         /\ \A k \in 1..Width : Stamp(s, f)[k] = Digits(s)[k] /\ Digits(s)[k] \in Int
<1>0. Width \in Nat /\ Base \in Nat \ {0} /\ Places \in Nat
  BY TimestampAssumption
<1>1. s \in Nat
  BY TimestampAssumption DEF Seconds
<1>2. \A k \in 1..Width : Digits(s)[k] \in Int
  <2> TAKE k \in 1..Width
  <2>1. Shifted(s)[Width - k] \in Nat
    BY <1>0, <1>1, ShiftedStep
  <2>2. Shifted(s)[Width - k] % Base \in Int
    BY <1>0, <2>1, Division
  <2> QED
    BY <2>2 DEF Digits
<1>3. Digits(s) \in Seq(Int) /\ Len(Digits(s)) = Width
  <2>1. DOMAIN Digits(s) = 1..Width /\ Digits(s) = [k \in 1..Width |-> Digits(s)[k]]
    BY DEF Digits
  <2>2. Digits(s) \in [1..Width -> Int]
    BY <1>2, <2>1
  <2> QED
    BY <1>0, <2>1, <2>2
<1>4. Fraction(f) \in Seq(Int)
  <2> DEFINE kept == {i \in 1..Places : f[i] # 0}
             m == CHOOSE i \in kept : \A j \in kept : j <= i
  <2>1. CASE kept = {}
    BY <2>1 DEF Fraction
  <2>2. CASE kept # {}
    <3>1. m \in kept
      <4>1. \E i \in kept : \A j \in kept : j <= i
        <5> DEFINE back == {Places - i : i \in kept}
        <5>1. back \in SUBSET Nat /\ back # {}
          BY <1>0, <2>2
        <5>2. PICK x \in back : \A y \in back : x <= y
          <6> HIDE DEF back
          <6> QED
            BY <5>1, LeastMember
        <5>3. PICK i \in kept : x = Places - i
          OBVIOUS
        <5>4. \A j \in kept : j \in Nat /\ Places - i <= Places - j
          BY <5>2, <5>3
        <5>5. \A j \in kept : j <= i
          BY <1>0, <5>3, <5>4
        <5> QED
          BY <5>5
      <4> HIDE DEF kept
      <4> QED
        BY <4>1
    <3>2. f \in Seq(Int) /\ Len(f) = Places
      BY <1>0 DEF Fractions
    <3>3. m \in 1..Places
      BY <3>1
    <3> HIDE DEF m, kept
    <3>4. SubSeq(f, 1, m) \in Seq(Int)
      BY <3>2, <3>3
    <3>5. <<Point>> \o SubSeq(f, 1, m) \in Seq(Int)
      BY <3>4 DEF Point
    <3> QED
      BY <2>2, <3>5 DEF Fraction, kept, m
  <2> QED
    BY <2>1, <2>2
<1> DEFINE D == Digits(s)
           F == Fraction(f)
<1>5. Zulu \in Int
  BY <1>0 DEF Zulu
<1> HIDE DEF D, F
<1>6. (D \o F) \o <<Zulu>> \in Seq(Int) /\ Len((D \o F) \o <<Zulu>>) > Width
      /\ \A k \in 1..Width : ((D \o F) \o <<Zulu>>)[k] = D[k]
  BY <1>0, <1>3, <1>4, <1>5 DEF D, F
<1> QED
  BY <1>2, <1>6 DEF Stamp, D, F

\* expires_at <= now in SQL: whatever the fractions, the order of the texts is that of
\* the seconds.
LEMMA TextsInOrder ==
  ASSUME NEW s \in Seconds, NEW t \in Seconds
  PROVE  /\ s < t => TextOrder[<<s, t>>] = {TRUE}
         /\ s > t => TextOrder[<<s, t>>] = {FALSE}
<1>1. /\ Fractions \X Fractions # {}
      /\ \A f \in Fractions \X Fractions : f[1] \in Fractions /\ f[2] \in Fractions
  <2>1. [i \in 1..Places |-> 0] \in Fractions
    BY TimestampAssumption DEF Fractions
  <2> HIDE DEF Fractions
  <2>2. \E f : f \in Fractions
    BY <2>1
  <2>3. PICK f : f \in Fractions
    BY <2>2
  <2>4. <<f, f>> \in Fractions \X Fractions
    BY <2>3
  <2> QED
    BY <2>4
<1>2. TextOrder[<<s, t>>] = {AtMost(Stamp(s, f[1]), Stamp(t, f[2])) : f \in Fractions \X Fractions}
  <2>1. <<s, t>> \in Seconds \X Seconds
    OBVIOUS
  <2> QED
    BY <2>1 DEF TextOrder
<1>3. \A x \in Seconds : x \in Int
  BY TimestampAssumption DEF Seconds
<1>4. Width \in Nat
  BY TimestampAssumption
<1>5. ASSUME s < t, NEW f \in Fractions, NEW g \in Fractions
      PROVE  AtMost(Stamp(s, f), Stamp(t, g)) = TRUE
  <2>1. PICK k \in 1..Width : /\ Digits(s)[k] < Digits(t)[k]
                              /\ \A j \in 1..(k - 1) : Digits(s)[j] = Digits(t)[j]
    BY <1>5, DigitsInOrder
  <2> DEFINE S == Stamp(s, f)
             T == Stamp(t, g)
  <2>2. /\ S \in Seq(Int) /\ T \in Seq(Int) /\ Len(S) > Width /\ Len(T) > Width
        /\ \A j \in 1..Width : S[j] = Digits(s)[j] /\ T[j] = Digits(t)[j]
    BY StampBegins
  <2>3. \A j \in 1..(k - 1) : j \in 1..Width
    BY <1>4
  <2> HIDE DEF S, T
  <2>4. k \in DOMAIN S \cap DOMAIN T
    BY <1>4, <2>2
  <2>5. S[k] < T[k] /\ \A j \in 1..(k - 1) : S[j] = T[j]
    BY <2>1, <2>2, <2>3
  <2> QED
    BY <2>4, <2>5 DEF AtMost, S, T
<1>6. ASSUME s > t, NEW f \in Fractions, NEW g \in Fractions
      PROVE  AtMost(Stamp(s, f), Stamp(t, g)) = FALSE
  <2>1. PICK k \in 1..Width : /\ Digits(t)[k] < Digits(s)[k]
                              /\ \A j \in 1..(k - 1) : Digits(t)[j] = Digits(s)[j]
    BY <1>3, <1>6, DigitsInOrder
  <2> DEFINE S == Stamp(s, f)
             T == Stamp(t, g)
  <2>2. /\ S \in Seq(Int) /\ T \in Seq(Int) /\ Len(S) > Width /\ Len(T) > Width
        /\ \A j \in 1..Width : S[j] = Digits(s)[j] /\ T[j] = Digits(t)[j]
                               /\ S[j] \in Int /\ T[j] \in Int
    BY StampBegins
  <2>3. \A j \in 1..(k - 1) : j \in 1..Width
    BY <1>4
  <2> HIDE DEF S, T
  <2>4. k \in DOMAIN S /\ k \in DOMAIN T /\ DOMAIN S \subseteq Nat
    BY <1>4, <2>2
  <2>5. T[k] < S[k] /\ S[k] \in Int /\ T[k] \in Int /\ \A j \in 1..(k - 1) : S[j] = T[j]
    BY <2>1, <2>2, <2>3
  <2>6. S # T
    BY <2>5
  <2>7. ASSUME NEW x \in DOMAIN S \cap DOMAIN T, S[x] < T[x], \A j \in 1..(x - 1) : S[j] = T[j]
        PROVE  FALSE
    <3>1. x \in 1..Len(S) /\ k \in 1..Len(S) /\ S[x] \in Int
      BY <2>2, <2>4, <2>7
    <3>2. CASE x < k
      <4>1. x \in 1..(k - 1)
        BY <3>1, <3>2
      <4> QED
        BY <2>5, <2>7, <3>1, <4>1
    <3>3. CASE x = k
      BY <2>5, <2>7, <3>3
    <3>4. CASE x > k
      <4>1. k \in 1..(x - 1)
        BY <3>1, <3>4
      <4> QED
        BY <2>5, <2>7, <4>1
    <3> QED
      BY <3>1, <3>2, <3>3, <3>4
  <2>8. ~(\A j \in DOMAIN S : S[j] = T[j])
    BY <2>4, <2>5
  <2>9. ~AtMost(S, T)
    BY <2>6, <2>7, <2>8 DEF AtMost
  <2> QED
    BY <2>9 DEF S, T, AtMost
<1>7. ASSUME s < t PROVE TextOrder[<<s, t>>] = {TRUE}
  BY <1>1, <1>2, <1>5, <1>7, ZenonT(30)
<1>8. ASSUME s > t PROVE TextOrder[<<s, t>>] = {FALSE}
  BY <1>1, <1>2, <1>6, <1>8, ZenonT(30)
<1> QED
  BY <1>7, <1>8

\* A receipt expires within what the texts can say.
ExpiryWritten ==
  /\ now <= MaxTime
  /\ \A r \in commands : r.expires_at \in 0..(MaxTime + ReceiptLifetime)

\* saveReceipt adds the lifetime to the time that is, and the clock stops at its bound.
LEMMA ExpiryStep == TypeOK /\ ExpiryWritten /\ [Next]_vars => ExpiryWritten'
<1> SUFFICES ASSUME TypeOK, ExpiryWritten, [Next]_vars PROVE ExpiryWritten'
  OBVIOUS
<1>0. now \in Nat /\ MaxTime \in Nat /\ ReceiptLifetime \in Nat
  BY ResultsAssumption, SessionAssumption DEF TypeOK
<1>1. ASSUME NEW new, new.expires_at = now + ReceiptLifetime,
             commands' = Live \cup {new}, now' = now
      PROVE  ExpiryWritten'
  <2>1. \A r \in Live : r \in commands
    BY DEF Live
  <2>2. now + ReceiptLifetime \in 0..(MaxTime + ReceiptLifetime)
    BY <1>0 DEF ExpiryWritten
  <2> QED
    BY <1>1, <2>1, <2>2 DEF ExpiryWritten
<1>2. ASSUME NEW p \in Participants, NEW c \in Commands, NEW t \in 0..(TaskCount - 1), Start(p, c, t)
      PROVE  ExpiryWritten'
  <2>1. PICK new : new.expires_at = now + ReceiptLifetime /\ commands' = Live \cup {new} /\ now' = now
    BY <1>2, StartEffect
  <2> QED
    BY <1>1, <2>1
<1>3. ASSUME NEW p \in Participants, NEW a \in AttemptIds, NEW batch \in Batches, Events(p, a, batch)
      PROVE  ExpiryWritten'
  BY <1>3 DEF Events, ExpiryWritten
<1>4. ASSUME NEW p \in Participants, NEW c \in Commands, NEW a \in AttemptIds, NEW q \in Submissions,
             Finish(p, c, a, q)
      PROVE  ExpiryWritten'
  <2>1. PICK new : new.expires_at = now + ReceiptLifetime /\ commands' = Live \cup {new} /\ now' = now
    BY <1>4, FinishReceipt
  <2> QED
    BY <1>1, <2>1
<1>5. CASE Tick
  BY <1>0, <1>5 DEF Tick, ExpiryWritten
<1>6. CASE UNCHANGED <<now, commands>>
  BY <1>6 DEF ExpiryWritten
<1> QED
  BY <1>2, <1>3, <1>4, <1>5, <1>6 DEF Next, SetSuspended, vars

\* saveReceipt, whose DELETE compares texts: no receipt is swept in a second before the one
\* in which it expires, and in every later second it is.
THEOREM ReceiptsSweptOnTime == ResultsSpec => []SweptOnTime
<1>1. Init => ExpiryWritten
  BY ResultsAssumption DEF Init, ExpiryWritten
<1>2. ASSUME IInv, ExpiryWritten PROVE SweptOnTime
  <2>0. now \in Nat /\ MaxTime \in Nat /\ ReceiptLifetime \in Nat /\ LastSecond \in Nat
        /\ MaxTime + ReceiptLifetime <= LastSecond
    BY <1>2, ResultsAssumption, SessionAssumption, TimestampAssumption DEF IInv, TypeOK, Seconds
  <2>1. now \in Seconds
    BY <1>2, <2>0 DEF ExpiryWritten, Seconds
  <2>2. \A r \in commands : r.expires_at \in Seconds
    BY <1>2, <2>0 DEF ExpiryWritten, Seconds
  <2> QED
    BY <2>1, <2>2, TextsInOrder DEF SweptOnTime
<1>3. Spec => []ExpiryWritten
  BY <1>1, ExpiryStep, TypeCorrect, PTL DEF Spec
<1> QED
  BY <1>2, <1>3, TablesHold, ColumnsInvariant, PTL
=============================================================================
