-------------------------- MODULE ParticipationProofs --------------------------
(***************************************************************************)
(* Proofs about Participation, for any number of participants, tasks,      *)
(* commands, pages and requests.                                           *)
(***************************************************************************)
EXTENDS Participation, FiniteSetTheorems, WellFoundedInduction, TLAPS

-----------------------------------------------------------------------------
(* The merged stream of appendEvents. *)

LEMMA NewFinite ==
  ASSUME NEW saved, NEW incoming, Len(incoming) \in Nat,
         DOMAIN incoming = 1..Len(incoming)
  PROVE  IsFiniteSet(NewSeqs(saved, incoming))
<1> DEFINE f == [i \in 1..Len(incoming) |-> incoming[i].seq]
<1>1. IsFiniteSet(1..Len(incoming))
  BY FS_Interval
<1>2. f \in Surjection(1..Len(incoming), {incoming[i].seq : i \in DOMAIN incoming})
  BY DEF Surjection
<1>3. IsFiniteSet({incoming[i].seq : i \in DOMAIN incoming})
  BY <1>1, <1>2, FS_Surjection
<1>4. NewSeqs(saved, incoming) \subseteq {incoming[i].seq : i \in DOMAIN incoming}
  BY DEF NewSeqs
<1> QED
  BY <1>3, <1>4, FS_Subset

\* The new sequence numbers of a request without gaps are the next ones.
LEMMA NewUpTo ==
  ASSUME NEW saved, Len(saved) \in Nat, NEW incoming, Len(incoming) \in Nat,
         DOMAIN incoming = 1..Len(incoming), InSequence(saved, incoming)
  PROVE  /\ Cardinality(NewSeqs(saved, incoming)) \in Nat
         /\ NewSeqs(saved, incoming)
              \subseteq (Len(saved) + 1)..(Len(saved) + Cardinality(NewSeqs(saved, incoming)))
<1> DEFINE new == NewSeqs(saved, incoming)
           n == Len(saved)
           k == Cardinality(new)
<1>1. IsFiniteSet(new) /\ k \in Nat
  BY FS_CardinalityType, NewFinite
<1> SUFFICES ASSUME NEW x \in new PROVE x \in (n + 1)..(n + k)
  BY <1>1
<1>2. PICK i \in DOMAIN incoming : x = incoming[i].seq
  BY DEF NewSeqs
<1>3. x \in Nat \ {0} /\ x > n
  BY <1>2 DEF NewSeqs, InSequence
<1>4. \A s \in (n + 1)..x : s \in new
  <2> SUFFICES ASSUME NEW s \in (n + 1)..x PROVE s \in new
    OBVIOUS
  <2>1. CASE s = x
    BY <2>1
  <2>2. CASE s # x
    <3>1. s \in (n + 1)..(incoming[i].seq - 1)
      BY <1>2, <1>3, <2>2
    <3>2. PICK j \in 1..(i - 1) : incoming[j].seq = s
      BY <1>2, <3>1 DEF InSequence
    <3>3. j \in DOMAIN incoming
      BY <1>2
    <3>4. s \notin 1..n
      OBVIOUS
    <3> QED
      BY <3>2, <3>3, <3>4 DEF NewSeqs
  <2> QED
    BY <2>1, <2>2
<1>5. n + 1 \in Int /\ x \in Int
  BY <1>3
<1>6. /\ IsFiniteSet((n + 1)..x)
      /\ Cardinality((n + 1)..x) = IF n + 1 > x THEN 0 ELSE x - (n + 1) + 1
  BY ONLY <1>5, FS_Interval
<1>7. Cardinality((n + 1)..x) <= k
  BY <1>1, <1>4, FS_Subset
<1> QED
  BY <1>1, <1>3, <1>6, <1>7

\* Merging a request without gaps yields a stream that begins with the stored
\* one, and every position it adds holds an event of the request with that
\* sequence number.
LEMMA MergedStream ==
  ASSUME NEW saved \in Seq(Event), NEW incoming \in Seq(Event),
         InSequence(saved, incoming)
  PROVE  /\ Cardinality(NewSeqs(saved, incoming)) \in Nat
         /\ Merged(saved, incoming) \in Seq(Event)
         /\ Len(Merged(saved, incoming))
              = Len(saved) + Cardinality(NewSeqs(saved, incoming))
         /\ \A s \in 1..Len(saved) : Merged(saved, incoming)[s] = saved[s]
         /\ \A s \in (Len(saved) + 1)..Len(Merged(saved, incoming)) :
              \E i \in DOMAIN incoming :
                incoming[i].seq = s /\ Merged(saved, incoming)[s] = incoming[i]
<1> DEFINE new == NewSeqs(saved, incoming)
           n == Len(saved)
           k == Cardinality(new)
<1>1. \A i \in DOMAIN incoming : incoming[i] \in Event /\ incoming[i].seq \in Nat \ {0}
  <2>1. \A e \in Event : e.seq \in Nat \ {0}
    BY DEF Event
  <2>2. DOMAIN incoming = 1..Len(incoming) /\ \A i \in 1..Len(incoming) : incoming[i] \in Event
    OBVIOUS
  <2> QED
    BY <2>1, <2>2
<1>2. IsFiniteSet(new) /\ k \in Nat
  BY NewFinite, FS_CardinalityType
<1>3. ASSUME NEW s \in (n + 1)..(n + k)
      PROVE  \E i \in DOMAIN incoming : incoming[i].seq = s
  <2> SUFFICES ASSUME \A i \in DOMAIN incoming : incoming[i].seq # s
               PROVE  FALSE
    OBVIOUS
  <2>1. \A x \in new : x \in (n + 1)..(s - 1)
    <3> SUFFICES ASSUME NEW i \in DOMAIN incoming, incoming[i].seq \notin 1..n
                 PROVE  incoming[i].seq \in (n + 1)..(s - 1)
      BY DEF NewSeqs
    <3>1. incoming[i].seq <= s - 1
      <4> SUFFICES ASSUME incoming[i].seq > s - 1
                   PROVE  FALSE
        BY <1>1
      <4>1. s \in (n + 1)..(incoming[i].seq - 1)
        BY <1>1
      <4>2. PICK j \in 1..(i - 1) : incoming[j].seq = s
        BY <4>1 DEF InSequence
      <4>3. j \in DOMAIN incoming
        OBVIOUS
      <4> QED
        BY <4>2, <4>3
    <3> QED
      BY <1>1, <3>1
  <2>2. k <= s - 1 - n
    <3>0. n + 1 \in Int /\ s - 1 \in Int
      BY <1>2
    <3>1. /\ IsFiniteSet((n + 1)..(s - 1))
          /\ Cardinality((n + 1)..(s - 1)) = IF n + 1 > s - 1 THEN 0 ELSE (s - 1) - (n + 1) + 1
      BY ONLY <3>0, FS_Interval
    <3>2. k <= Cardinality((n + 1)..(s - 1))
      BY <2>1, <3>1, FS_Subset
    <3> QED
      BY <1>2, <3>1, <3>2
  <2> QED
    BY <1>2, <2>2
<1>4. \A s \in (n + 1)..(n + k) :
        LET i == CHOOSE i \in DOMAIN incoming : incoming[i].seq = s
        IN  i \in DOMAIN incoming /\ incoming[i].seq = s
  BY <1>3
<1>5. Merged(saved, incoming) \in [1..(n + k) -> Event]
  BY <1>1, <1>2, <1>4, SMTT(30) DEF Merged
<1>6. Merged(saved, incoming) \in Seq(Event) /\ Len(Merged(saved, incoming)) = n + k
  BY <1>2, <1>5
<1> QED
  <2>1. \A s \in 1..n : Merged(saved, incoming)[s] = saved[s]
    BY <1>2 DEF Merged
  <2>2. \A s \in (n + 1)..(n + k) :
          \E i \in DOMAIN incoming :
            incoming[i].seq = s /\ Merged(saved, incoming)[s] = incoming[i]
    <3> SUFFICES ASSUME NEW s \in (n + 1)..(n + k)
                 PROVE  \E i \in DOMAIN incoming :
                          incoming[i].seq = s /\ Merged(saved, incoming)[s] = incoming[i]
      OBVIOUS
    <3> DEFINE c == CHOOSE i \in DOMAIN incoming : incoming[i].seq = s
    <3>1. Merged(saved, incoming)[s] = incoming[c]
      BY <1>2 DEF Merged
    <3> QED
      BY <1>4, <3>1
  <2> QED
    BY <1>2, <1>6, <2>1, <2>2

\* The merged stream is as long as the largest sequence number of the request.
LEMMA NewWithin ==
  ASSUME NEW saved \in Seq(Event), NEW incoming \in Seq(Event),
         InSequence(saved, incoming)
  PROVE  NewSeqs(saved, incoming) \subseteq 1..Len(Merged(saved, incoming))
<1>1. /\ Len(saved) \in Nat /\ Len(incoming) \in Nat
      /\ DOMAIN incoming = 1..Len(incoming)
  OBVIOUS
<1>2. Len(Merged(saved, incoming)) = Len(saved) + Cardinality(NewSeqs(saved, incoming))
  BY MergedStream
<1> QED
  BY <1>1, <1>2, NewUpTo

\* The merged stream has every event of a request at its number.
Taken(saved, incoming) ==
  \A i \in DOMAIN incoming :
    /\ incoming[i] \in Event
    /\ incoming[i].seq \in 1..Len(Merged(saved, incoming))
    /\ Merged(saved, incoming)[incoming[i].seq] = incoming[i]

\* The merged stream is the stored one, gone on with events of the request.
Joins(saved, incoming) ==
  LET log == Merged(saved, incoming)
  IN  /\ Len(log) \in Nat
      /\ Len(log) >= Len(saved)
      /\ \A s \in 1..Len(saved) : log[s] = saved[s]
      /\ \A s \in (Len(saved) + 1)..Len(log) :
           \E i \in DOMAIN incoming : incoming[i].seq = s /\ log[s] = incoming[i]

LEMMA MergedJoins ==
  ASSUME NEW saved \in Seq(Event), NEW incoming \in Seq(Event), NEW frozen,
         Appendable(saved, incoming, frozen)
  PROVE  Joins(saved, incoming)
<1>1. InSequence(saved, incoming)
  BY DEF Appendable
<1>2. Len(saved) \in Nat
  OBVIOUS
<1> QED
  BY <1>1, <1>2, MergedStream DEF Joins

\* What a request sends is an event of the merged stream once it is accepted, at
\* its number, so its events are events of the schema whatever was sent.
LEMMA AcceptedEvents ==
  ASSUME NEW saved \in Seq(Event), NEW incoming, NEW frozen, Len(incoming) \in Nat,
         DOMAIN incoming = 1..Len(incoming), Appendable(saved, incoming, frozen)
  PROVE  Taken(saved, incoming)
<1> DEFINE log == Merged(saved, incoming)
           k == Cardinality(NewSeqs(saved, incoming))
<1> SUFFICES ASSUME NEW i \in DOMAIN incoming
             PROVE  /\ incoming[i] \in Event
                    /\ incoming[i].seq \in 1..Len(log)
                    /\ log[incoming[i].seq] = incoming[i]
  BY DEF Taken
<1>1. /\ InSequence(saved, incoming)
      /\ log[incoming[i].seq] = incoming[i]
      /\ \A s \in (Len(saved) + 1)..Len(log) : WellFormed(log[s])
  BY DEF Appendable, Agrees
<1>2. Len(saved) \in Nat /\ k \in Nat
  BY <1>1, NewUpTo
<1>3. DOMAIN log = 1..(Len(saved) + k) /\ Len(log) = Len(saved) + k
  <2>1. DOMAIN log = 1..(Len(saved) + k)
    BY DEF Merged
  <2> HIDE DEF log, k
  <2> QED
    BY <1>2, <2>1
<1>4. incoming[i].seq \in Nat \ {0}
  BY <1>1 DEF InSequence
<1>5. CASE incoming[i].seq <= Len(saved)
  <2>1. incoming[i].seq \in 1..Len(saved)
    BY <1>2, <1>4, <1>5
  <2>2. log[incoming[i].seq] = saved[incoming[i].seq]
    <3>1. incoming[i].seq \in 1..(Len(saved) + k)
      BY <1>2, <2>1
    <3> QED
      BY <1>5, <3>1 DEF Merged
  <2>3. saved[incoming[i].seq] \in Event
    BY <2>1
  <2> HIDE DEF log, k
  <2>4. incoming[i].seq \in 1..(Len(saved) + k)
    BY <1>2, <2>1
  <2> QED
    BY <1>1, <1>3, <2>2, <2>3, <2>4
<1>6. CASE ~(incoming[i].seq <= Len(saved))
  <2>1. incoming[i].seq \in NewSeqs(saved, incoming)
    BY <1>6 DEF NewSeqs
  <2>2. incoming[i].seq \in (Len(saved) + 1)..(Len(saved) + k)
    BY <1>1, <1>2, <2>1, NewUpTo
  <2> HIDE DEF log, k
  <2>3. WellFormed(log[incoming[i].seq])
    BY <1>1, <1>3, <2>2
  <2>4. incoming[i] \in Event
    BY <1>1, <2>3 DEF WellFormed
  <2> QED
    BY <1>1, <1>2, <1>3, <1>4, <2>2, <2>4
<1> QED
  BY <1>5, <1>6

LEMMA NatProduct == \A x, y \in Nat : x * y \in Nat
OBVIOUS

-----------------------------------------------------------------------------
(* Type correctness. *)

\* What an accepted checkpoint or submission does to the stream it extends.
LEMMA AcceptedMerge ==
  ASSUME TypeOK, NEW a \in DOMAIN attempts, NEW batch \in Seq(Event),
         InSequence(attempts[a].log, batch)
  PROVE  /\ attempts[a] \in Attempt
         /\ attempts[a].log \in Seq(Event)
         /\ Merged(attempts[a].log, batch) \in Seq(Event)
         /\ Added(a, batch) \in Nat
<1>1. attempts[a] \in Attempt /\ attempts[a].log \in Seq(Event)
  BY DEF TypeOK, Attempt
<1>2. Cardinality(NewSeqs(attempts[a].log, batch)) \in Nat
  BY <1>1, MergedStream
<1> QED
  BY <1>1, <1>2, MergedStream, NatProduct, SessionAssumption DEF Added

LEMMA TypeInit == Init => TypeOK
<1> SUFFICES ASSUME Init PROVE TypeOK
  OBVIOUS
<1>1. data_bytes \in Nat
  BY FS_CardinalityType, NatProduct, SessionAssumption DEF Init
<1>2. DOMAIN attempts = {} /\ attempts \in [{} -> Attempt]
  BY DEF Init
<1>3. sessions \in [Participants -> SessionRow]
  BY SessionAssumption DEF Init, SessionRow
<1> QED
  BY <1>1, <1>2, <1>3 DEF Init, TypeOK

LEMMA TypeStep == TypeOK /\ [Next]_vars => TypeOK'
<1> SUFFICES ASSUME TypeOK, [Next]_vars PROVE TypeOK'
  OBVIOUS
<1>1. ASSUME NEW p \in Participants, NEW c \in Commands, NEW t \in 0..(TaskCount - 1),
             Start(p, c, t)
      PROVE  TypeOK'
  <2>1. PICK a \in AttemptIds \ DOMAIN attempts :
          /\ attempts' = [x \in DOMAIN attempts \cup {a} |->
               IF x = a
               THEN [session |-> p, index |-> sessions[p].index, command |-> c,
                     started_at |-> now, log |-> <<>>, finish |-> Unfinished]
               ELSE attempts[x]]
          /\ SaveReceipt(p, c, "start", t, sessions[p].index, a)
    BY <1>1 DEF Start
  <2>2. sessions[p].index \in 0..(TaskCount - 1)
    BY <1>1, SessionAssumption DEF Start, IsCurrent, TypeOK
  <2>3. [session |-> p, index |-> sessions[p].index, command |-> c,
         started_at |-> now, log |-> <<>>, finish |-> Unfinished] \in Attempt
    BY <2>2 DEF Attempt, TypeOK
  <2>4. /\ DOMAIN attempts' \subseteq AttemptIds
        /\ attempts' \in [DOMAIN attempts' -> Attempt]
    BY <2>1, <2>3 DEF TypeOK
  <2>5. commands' \subseteq Receipt
    BY <2>1, <2>2, SessionAssumption, SMTT(30) DEF SaveReceipt, Live, Receipt, TypeOK
  <2> QED
    BY <1>1, <2>4, <2>5 DEF Start, TypeOK
<1>2. ASSUME NEW p \in Participants, NEW a \in AttemptIds, NEW batch \in Batches,
             Events(p, a, batch)
      PROVE  TypeOK'
  <2>1. a \in DOMAIN attempts /\ batch \in Seq(Event) /\ InSequence(attempts[a].log, batch)
    BY <1>2, SessionAssumption DEF Events, Owns, AcceptsCheckpoint, Appendable
  <2>2. /\ attempts[a] \in Attempt
        /\ Merged(attempts[a].log, batch) \in Seq(Event)
        /\ Added(a, batch) \in Nat
    BY <2>1, AcceptedMerge
  <2>3. DOMAIN attempts' = DOMAIN attempts /\ attempts' \in [DOMAIN attempts -> Attempt]
    BY <1>2, <2>2 DEF Events, TypeOK, Attempt
  <2>4. sessions' \in [Participants -> SessionRow]
    <3>1. sessions[p] \in SessionRow
      BY DEF TypeOK
    <3>2. [sessions[p] EXCEPT !.event_bytes = @ + Added(a, batch)] \in SessionRow
      BY <2>2, <3>1 DEF SessionRow
    <3>3. sessions' = [sessions EXCEPT
            ![p] = [sessions[p] EXCEPT !.event_bytes = @ + Added(a, batch)]]
      BY <1>2 DEF Events
    <3> QED
      BY <3>2, <3>3 DEF TypeOK
  <2> QED
    BY <1>2, <2>2, <2>3, <2>4 DEF Events, TypeOK
<1>3. ASSUME NEW p \in Participants, NEW c \in Commands, NEW a \in AttemptIds,
             NEW q \in Submissions, Finish(p, c, a, q)
      PROVE  TypeOK'
  <2> DEFINE log == Merged(attempts[a].log, q.events)
             next == sessions[p].index + 1
  <2>1. a \in DOMAIN attempts /\ q.events \in Seq(Event)
        /\ InSequence(attempts[a].log, q.events)
    BY <1>3, SubmissionAssumption DEF Finish, Owns, AcceptsTerminal, Appendable
  <2>2. /\ attempts[a] \in Attempt
        /\ log \in Seq(Event)
        /\ Added(a, q.events) \in Nat
    BY <2>1, AcceptedMerge
  <2>3. next \in 0..TaskCount
    <3>1. attempts[a].index = sessions[p].index
      BY <1>3 DEF Finish, Frozen
    <3>2. attempts[a].index \in 0..(TaskCount - 1)
      BY <2>2 DEF Attempt
    <3> QED
      BY <3>1, <3>2, SessionAssumption
  <2>4. /\ attempts' = [attempts EXCEPT
             ![a].log = log,
             ![a].finish = [at |-> now, command |-> c, request |-> q]]
        /\ sessions' = [sessions EXCEPT
             ![p] = [index |-> next, completed |-> next = TaskCount,
                     event_bytes |-> @.event_bytes + Added(a, q.events)]]
        /\ SaveReceipt(p, c, "finish", <<a, q>>, next, NoAttempt)
        /\ data_bytes' = data_bytes + Added(a, q.events)
        /\ UNCHANGED <<now, suspended>>
    BY <1>3 DEF Finish
  <2>5. [at |-> now, command |-> c, request |-> q]
          \in [at: Nat, command: Commands, request: Submissions]
    BY DEF TypeOK
  <2>6. DOMAIN attempts' = DOMAIN attempts /\ attempts' \in [DOMAIN attempts -> Attempt]
    BY <2>2, <2>4, <2>5 DEF TypeOK, Attempt
  <2>7. sessions' \in [Participants -> SessionRow]
    BY <2>2, <2>3, <2>4 DEF TypeOK, SessionRow
  <2>8. commands' \subseteq Receipt
    BY <2>3, <2>4, SessionAssumption DEF SaveReceipt, Live, Receipt, TypeOK
  <2> QED
    BY <2>2, <2>4, <2>6, <2>7, <2>8 DEF TypeOK
<1>4. ASSUME NEW flag \in BOOLEAN, SetSuspended(flag) PROVE TypeOK'
  BY <1>4 DEF SetSuspended, TypeOK
<1>5. CASE Tick
  BY <1>5 DEF Tick, TypeOK
<1>6. CASE UNCHANGED vars
  BY <1>6 DEF vars, TypeOK
<1> QED
  BY <1>1, <1>2, <1>3, <1>4, <1>5, <1>6 DEF Next

\* Every table holds rows of its schema.
THEOREM TypeCorrect == Spec => []TypeOK
BY TypeInit, TypeStep, PTL DEF Spec
-----------------------------------------------------------------------------
(* What the steps change, in the shape the invariance proofs use. *)

\* The columns start sets and nothing changes later.
SameStart(x) ==
  /\ attempts'[x].session = attempts[x].session
  /\ attempts'[x].index = attempts[x].index
  /\ attempts'[x].command = attempts[x].command
  /\ attempts'[x].started_at = attempts[x].started_at

\* start adds one unfinished attempt for the current task, and its receipt.
LEMMA StartEffect ==
  ASSUME TypeOK, NEW p \in Participants, NEW c \in Commands,
         NEW t \in 0..(TaskCount - 1), Start(p, c, t)
  PROVE  \E a \in AttemptIds \ DOMAIN attempts :
           /\ DOMAIN attempts' = DOMAIN attempts \cup {a}
           /\ \A x \in DOMAIN attempts : attempts'[x] = attempts[x]
           /\ attempts'[a] = [session |-> p, index |-> t, command |-> c,
                              started_at |-> now, log |-> <<>>, finish |-> Unfinished]
           /\ t = sessions[p].index
           /\ AttemptsAt(p, t) = {}
           /\ commands' = Live \cup
                {[session |-> p, command |-> c, operation |-> "start", hash |-> t,
                  response_index |-> t, attempt |-> a,
                  expires_at |-> now + ReceiptLifetime]}
           /\ IsNew(p, c, "start", t)
           /\ UNCHANGED <<now, sessions>>
BY DEF Start, SaveReceipt, IsCurrent, NotStarted, TypeOK

\* events replaces one stream by its merge with the request.
LEMMA EventsEffect ==
  ASSUME TypeOK, NEW p \in Participants, NEW a \in AttemptIds, NEW batch \in Batches,
         Events(p, a, batch)
  PROVE  /\ a \in DOMAIN attempts
         /\ attempts[a].session = p
         /\ DOMAIN attempts' = DOMAIN attempts
         /\ \A x \in DOMAIN attempts : x # a => attempts'[x] = attempts[x]
         /\ attempts'[a].log = Merged(attempts[a].log, batch)
         /\ attempts'[a].finish = attempts[a].finish
         /\ \A x \in DOMAIN attempts : SameStart(x)
         /\ AcceptsCheckpoint(attempts[a].log, batch, Frozen(p, a))
         /\ batch \in Seq(Event)
         /\ \A x \in Participants : /\ sessions'[x].index = sessions[x].index
                                    /\ (sessions'[x].completed <=> sessions[x].completed)
         /\ UNCHANGED <<now, commands>>
<1>1. \A x \in Participants : sessions[x] \in SessionRow
  BY DEF TypeOK
<1>2. a \in DOMAIN attempts /\ attempts[a] \in Attempt
  BY DEF Events, Owns, TypeOK
<1>3. sessions' = [sessions EXCEPT ![p].event_bytes = @ + Added(a, batch)]
  BY DEF Events
<1>4. \A x \in Participants : /\ sessions'[x].index = sessions[x].index
                              /\ (sessions'[x].completed <=> sessions[x].completed)
  BY <1>1, <1>3 DEF TypeOK, SessionRow
<1>5. /\ DOMAIN attempts' = DOMAIN attempts
      /\ \A x \in DOMAIN attempts : x # a => attempts'[x] = attempts[x]
      /\ attempts'[a] = [attempts[a] EXCEPT !.log = Merged(attempts[a].log, batch)]
  BY <1>2 DEF Events, TypeOK
<1>6. /\ attempts'[a].log = Merged(attempts[a].log, batch)
      /\ attempts'[a].finish = attempts[a].finish
      /\ SameStart(a)
  BY <1>2, <1>5 DEF Attempt, SameStart
<1>7. \A x \in DOMAIN attempts : SameStart(x)
  BY <1>5, <1>6 DEF SameStart
<1> QED
  BY <1>2, <1>4, <1>5, <1>6, <1>7, SessionAssumption DEF Events, Owns

\* finish takes the open attempt of the session's current task ...
LEMMA FinishGuards ==
  ASSUME TypeOK, NEW p \in Participants, NEW c \in Commands, NEW a \in AttemptIds,
         NEW q \in Submissions, Finish(p, c, a, q)
  PROVE  /\ a \in DOMAIN attempts
         /\ attempts[a].session = p
         /\ attempts[a].finish = Unfinished
         /\ attempts[a].index = sessions[p].index
         /\ AcceptsTerminal(attempts[a].log, q.events, q.outcome, q.node)
         /\ ChoiceHolds(Merged(attempts[a].log, q.events), q)
         /\ q.events \in Seq(Event)
         /\ IsNew(p, c, "finish", <<a, q>>)
<1>1. q.events \in Seq(Event)
  BY SubmissionAssumption
<1> QED
  BY <1>1 DEF Finish, Owns, Frozen

\* ... ends it ...
LEMMA FinishAttempts ==
  ASSUME TypeOK, NEW p \in Participants, NEW c \in Commands, NEW a \in AttemptIds,
         NEW q \in Submissions, Finish(p, c, a, q)
  PROVE  /\ DOMAIN attempts' = DOMAIN attempts
         /\ \A x \in DOMAIN attempts : x # a => attempts'[x] = attempts[x]
         /\ attempts'[a].log = Merged(attempts[a].log, q.events)
         /\ attempts'[a].finish = [at |-> now, command |-> c, request |-> q]
         /\ \A x \in DOMAIN attempts : SameStart(x)
<1>1. a \in DOMAIN attempts /\ attempts[a] \in Attempt
  BY FinishGuards DEF TypeOK
<1>2. attempts' = [attempts EXCEPT
        ![a].log = Merged(attempts[a].log, q.events),
        ![a].finish = [at |-> now, command |-> c, request |-> q]]
  BY DEF Finish
<1>3. /\ DOMAIN attempts' = DOMAIN attempts
      /\ \A x \in DOMAIN attempts : x # a => attempts'[x] = attempts[x]
      /\ attempts'[a] = [attempts[a] EXCEPT
              !.log = Merged(attempts[a].log, q.events),
              !.finish = [at |-> now, command |-> c, request |-> q]]
  BY <1>1, <1>2 DEF TypeOK
<1>4. /\ attempts'[a].log = Merged(attempts[a].log, q.events)
      /\ attempts'[a].finish = [at |-> now, command |-> c, request |-> q]
      /\ SameStart(a)
  BY <1>1, <1>3 DEF Attempt, SameStart
<1>5. \A x \in DOMAIN attempts : SameStart(x)
  BY <1>3, <1>4 DEF SameStart
<1> QED
  BY <1>3, <1>4, <1>5

\* ... moves the session on ...
LEMMA FinishSessions ==
  ASSUME TypeOK, NEW p \in Participants, NEW c \in Commands, NEW a \in AttemptIds,
         NEW q \in Submissions, Finish(p, c, a, q)
  PROVE  /\ \A x \in Participants : x # p => sessions'[x] = sessions[x]
         /\ sessions'[p].index = sessions[p].index + 1
         /\ (sessions'[p].completed <=> sessions[p].index + 1 = TaskCount)
<1>1. sessions' = [sessions EXCEPT
        ![p] = [index |-> sessions[p].index + 1,
                completed |-> sessions[p].index + 1 = TaskCount,
                event_bytes |-> @.event_bytes + Added(a, q.events)]]
  BY DEF Finish
<1> QED
  BY <1>1 DEF TypeOK

\* ... and saves the receipt.
LEMMA FinishReceipt ==
  ASSUME TypeOK, NEW p \in Participants, NEW c \in Commands, NEW a \in AttemptIds,
         NEW q \in Submissions, Finish(p, c, a, q)
  PROVE  /\ commands' = Live \cup
              {[session |-> p, command |-> c, operation |-> "finish", hash |-> <<a, q>>,
                response_index |-> sessions[p].index + 1, attempt |-> NoAttempt,
                expires_at |-> now + ReceiptLifetime]}
         /\ now' = now
BY DEF Finish, SaveReceipt

-----------------------------------------------------------------------------
(* Tasks are taken in order. *)

LEMMA OrderInit == Init => TasksInOrder
BY SessionAssumption DEF Init, TasksInOrder, AttemptsAt

LEMMA OrderStep == TypeOK /\ TypeOK' /\ TasksInOrder /\ [Next]_vars => TasksInOrder'
<1> SUFFICES ASSUME TypeOK, TypeOK', TasksInOrder, [Next]_vars PROVE TasksInOrder'
  OBVIOUS
<1>0. /\ \A x \in DOMAIN attempts : attempts[x] \in Attempt
      /\ \A p \in Participants : sessions[p] \in SessionRow
  BY DEF TypeOK
<1>1. ASSUME NEW p \in Participants, NEW c \in Commands, NEW t \in 0..(TaskCount - 1),
             Start(p, c, t)
      PROVE  TasksInOrder'
  <2>1. PICK a \in AttemptIds \ DOMAIN attempts :
           /\ DOMAIN attempts' = DOMAIN attempts \cup {a}
           /\ \A x \in DOMAIN attempts : attempts'[x] = attempts[x]
           /\ attempts'[a] = [session |-> p, index |-> t, command |-> c,
                              started_at |-> now, log |-> <<>>, finish |-> Unfinished]
           /\ t = sessions[p].index
           /\ AttemptsAt(p, t) = {}
           /\ UNCHANGED sessions
    BY <1>1, StartEffect
  <2>2. \A x \in DOMAIN attempts : ~(attempts[x].session = p /\ attempts[x].index = t)
    BY <2>1 DEF AttemptsAt
  <2>3. \A x, y \in DOMAIN attempts' :
          attempts'[x].session = attempts'[y].session
            /\ attempts'[x].index = attempts'[y].index => x = y
    BY <2>1, <2>2 DEF TasksInOrder
  <2>4. \A x \in DOMAIN attempts' :
          LET i == sessions'[attempts'[x].session].index
          IN  /\ attempts'[x].index <= i
              /\ attempts'[x].finish # Unfinished <=> attempts'[x].index < i
    BY <2>1 DEF TasksInOrder
  <2>5. \A z \in Participants :
          /\ \A i \in 0..(sessions'[z].index - 1) : AttemptsAt(z, i)' # {}
          /\ sessions'[z].completed <=> sessions'[z].index = TaskCount
    BY <2>1 DEF TasksInOrder, AttemptsAt
  <2> QED
    BY <2>3, <2>4, <2>5 DEF TasksInOrder
<1>2. ASSUME NEW p \in Participants, NEW a \in AttemptIds, NEW batch \in Batches,
             Events(p, a, batch)
      PROVE  TasksInOrder'
  <2>1. /\ DOMAIN attempts' = DOMAIN attempts
        /\ \A x \in DOMAIN attempts : /\ attempts'[x].session = attempts[x].session
                                      /\ attempts'[x].index = attempts[x].index
                                      /\ attempts'[x].finish = attempts[x].finish
        /\ \A x \in Participants : /\ sessions'[x].index = sessions[x].index
                                   /\ (sessions'[x].completed <=> sessions[x].completed)
    BY <1>2, EventsEffect DEF SameStart
  <2>2. \A z \in Participants, i \in Int : AttemptsAt(z, i)' = AttemptsAt(z, i)
    BY <2>1 DEF AttemptsAt
  <2>3. \A x \in DOMAIN attempts : attempts[x].session \in Participants
    BY <1>0 DEF Attempt
  <2>4. \A x, y \in DOMAIN attempts' :
          attempts'[x].session = attempts'[y].session
            /\ attempts'[x].index = attempts'[y].index => x = y
    BY <2>1 DEF TasksInOrder
  <2>5. \A x \in DOMAIN attempts' :
          LET i == sessions'[attempts'[x].session].index
          IN  /\ attempts'[x].index <= i
              /\ attempts'[x].finish # Unfinished <=> attempts'[x].index < i
    BY <2>1, <2>3 DEF TasksInOrder
  <2>6. \A z \in Participants :
          /\ \A i \in 0..(sessions'[z].index - 1) : AttemptsAt(z, i)' # {}
          /\ sessions'[z].completed <=> sessions'[z].index = TaskCount
    BY <2>1, <2>2 DEF TasksInOrder
  <2> QED
    BY <2>4, <2>5, <2>6 DEF TasksInOrder
<1>3. ASSUME NEW p \in Participants, NEW c \in Commands, NEW a \in AttemptIds,
             NEW q \in Submissions, Finish(p, c, a, q)
      PROVE  TasksInOrder'
  <2> DEFINE end == [at |-> now, command |-> c, request |-> q]
  <2>1. /\ a \in DOMAIN attempts
        /\ attempts[a].session = p
        /\ attempts[a].index = sessions[p].index
        /\ DOMAIN attempts' = DOMAIN attempts
        /\ \A x \in DOMAIN attempts : /\ attempts'[x].session = attempts[x].session
                                      /\ attempts'[x].index = attempts[x].index
                                      /\ x # a => attempts'[x].finish = attempts[x].finish
        /\ attempts'[a].finish = end
        /\ \A x \in Participants : x # p => sessions'[x] = sessions[x]
        /\ sessions'[p].index = sessions[p].index + 1
        /\ (sessions'[p].completed <=> sessions[p].index + 1 = TaskCount)
    <3>1. /\ a \in DOMAIN attempts
          /\ attempts[a].session = p
          /\ attempts[a].index = sessions[p].index
      BY <1>3, FinishGuards
    <3>2. /\ DOMAIN attempts' = DOMAIN attempts
          /\ \A x \in DOMAIN attempts : SameStart(x)
          /\ \A x \in DOMAIN attempts : x # a => attempts'[x] = attempts[x]
          /\ attempts'[a].finish = end
      BY <1>3, FinishAttempts
    <3>3. /\ \A x \in Participants : x # p => sessions'[x] = sessions[x]
          /\ sessions'[p].index = sessions[p].index + 1
          /\ (sessions'[p].completed <=> sessions[p].index + 1 = TaskCount)
      BY <1>3, FinishSessions
    <3> QED
      BY <3>1, <3>2, <3>3 DEF SameStart
  <2>2. end # Unfinished
    BY SubmissionAssumption DEF TypeOK
  <2>3. \A x \in DOMAIN attempts : /\ attempts[x].session \in Participants
                                   /\ attempts[x].index \in Int
    BY <1>0 DEF Attempt
  <2>4. \A z \in Participants : sessions[z].index \in Int
    BY <1>0 DEF SessionRow
  <2>5. \A x, y \in DOMAIN attempts' :
          attempts'[x].session = attempts'[y].session
            /\ attempts'[x].index = attempts'[y].index => x = y
    BY <2>1 DEF TasksInOrder
  <2>6. ASSUME NEW x \in DOMAIN attempts'
        PROVE  LET i == sessions'[attempts'[x].session].index
               IN  /\ attempts'[x].index <= i
                   /\ attempts'[x].finish # Unfinished <=> attempts'[x].index < i
    <3>1. CASE x = a
      BY <2>1, <2>2, <2>3, <2>4, <3>1
    <3>2. CASE x # a /\ attempts[x].session = p
      <4>1. attempts[x].index # attempts[a].index
        BY <2>1, <3>2 DEF TasksInOrder
      <4> QED
        BY <2>1, <2>3, <2>4, <3>2, <4>1 DEF TasksInOrder
    <3>3. CASE attempts[x].session # p
      BY <2>1, <2>3, <3>3 DEF TasksInOrder
    <3> QED
      BY <3>1, <3>2, <3>3
  <2>7. \A z \in Participants, i \in Int : AttemptsAt(z, i)' = AttemptsAt(z, i)
    BY <2>1 DEF AttemptsAt
  <2>8. AttemptsAt(p, sessions[p].index) # {}
    BY <2>1 DEF AttemptsAt
  <2>9. \A z \in Participants :
          /\ \A i \in 0..(sessions'[z].index - 1) : AttemptsAt(z, i)' # {}
          /\ sessions'[z].completed <=> sessions'[z].index = TaskCount
    <3> SUFFICES ASSUME NEW z \in Participants
                 PROVE  /\ \A i \in 0..(sessions'[z].index - 1) : AttemptsAt(z, i)' # {}
                        /\ sessions'[z].completed <=> sessions'[z].index = TaskCount
      OBVIOUS
    <3>1. CASE z = p
      <4>1. \A i \in 0..(sessions[p].index - 1) : AttemptsAt(p, i) # {}
        BY DEF TasksInOrder
      <4>2. \A i \in 0..sessions[p].index : AttemptsAt(p, i) # {}
        BY <2>4, <2>8, <4>1
      <4>3. \A i \in 0..sessions[p].index : AttemptsAt(p, i)' # {}
        BY <2>7, <4>2
      <4> QED
        BY <2>1, <2>4, <3>1, <4>3
    <3>2. CASE z # p
      BY <2>1, <2>7, <3>2 DEF TasksInOrder
    <3> QED
      BY <3>1, <3>2
  <2> QED
    BY <2>5, <2>6, <2>9 DEF TasksInOrder
<1>4. ASSUME NEW flag \in BOOLEAN, SetSuspended(flag) PROVE TasksInOrder'
  BY <1>4 DEF SetSuspended, TasksInOrder, AttemptsAt
<1>5. CASE Tick
  BY <1>5 DEF Tick, TasksInOrder, AttemptsAt
<1>6. CASE UNCHANGED vars
  BY <1>6 DEF vars, TasksInOrder, AttemptsAt
<1> QED
  BY <1>1, <1>2, <1>3, <1>4, <1>5, <1>6 DEF Next
-----------------------------------------------------------------------------
(* Streams end as their attempts say. *)

\* A checkpoint keeps the stream of its attempt well ended.
LEMMA CheckpointStream ==
  ASSUME TypeOK, TypeOK', FinishedStreams, NEW p \in Participants, NEW a \in AttemptIds,
         NEW batch \in Batches, Events(p, a, batch)
  PROVE  EndsRight(attempts'[a])
<1> DEFINE saved == attempts[a].log
           log == Merged(saved, batch)
           n == Len(saved)
<1>1. /\ a \in DOMAIN attempts
      /\ batch \in Seq(Event)
      /\ AcceptsCheckpoint(saved, batch, Frozen(p, a))
      /\ attempts'[a].log = log
      /\ attempts'[a].finish = attempts[a].finish
  BY EventsEffect
<1>2. EndsRight(attempts[a]) /\ saved \in Seq(Event)
  BY <1>1 DEF FinishedStreams, TypeOK, Attempt
<1>3. /\ Submits(batch) = {}
      /\ InSequence(saved, batch)
      /\ Frozen(p, a) => (n + 1)..Len(log) = {}
  BY <1>1 DEF AcceptsCheckpoint, Appendable
<1>4. /\ log \in Seq(Event)
      /\ Len(log) \in Nat /\ n \in Nat
      /\ Len(log) >= n
      /\ \A s \in 1..n : log[s] = saved[s]
      /\ \A s \in (n + 1)..Len(log) :
           \E i \in DOMAIN batch : batch[i].seq = s /\ log[s] = batch[i]
  <2>1. /\ Cardinality(NewSeqs(saved, batch)) \in Nat
        /\ log \in Seq(Event)
        /\ Len(log) = n + Cardinality(NewSeqs(saved, batch))
        /\ \A s \in 1..n : log[s] = saved[s]
        /\ \A s \in (n + 1)..Len(log) :
             \E i \in DOMAIN batch : batch[i].seq = s /\ log[s] = batch[i]
    BY <1>1, <1>2, <1>3, MergedStream, Zenon
  <2>2. n \in Nat
    BY <1>2
  <2> HIDE DEF log, n
  <2>3. Len(log) \in Nat /\ Len(log) >= n
    BY <2>1, <2>2
  <2> QED
    BY <2>1, <2>2, <2>3, Zenon
<1>5. \A i \in DOMAIN batch : batch[i].type # "submit"
  BY <1>3 DEF Submits
<1>6. CASE attempts[a].finish # Unfinished
  <2>1. Len(log) = n
    BY <1>3, <1>4, <1>6 DEF Frozen
  <2>2. log = saved
    BY <1>2, <1>4, <2>1
  <2> QED
    BY <1>1, <1>2, <2>2 DEF EndsRight
<1>7. CASE attempts[a].finish = Unfinished
  <2>1. \A s \in 1..Len(log) : log[s].seq = s /\ log[s].type # "submit"
    <3> SUFFICES ASSUME NEW s \in 1..Len(log)
                 PROVE  log[s].seq = s /\ log[s].type # "submit"
      OBVIOUS
    <3>1. CASE s <= n
      BY <1>2, <1>4, <1>7, <3>1 DEF EndsRight
    <3>2. CASE s > n
      BY <1>4, <1>5, <3>2
    <3> QED
      BY <1>4, <3>1, <3>2
  <2> QED
    BY <1>1, <1>7, <2>1 DEF EndsRight
<1> QED
  BY <1>6, <1>7

\* A finish ends the stream with its submit event.
LEMMA SubmittedStream ==
  ASSUME TypeOK, TypeOK', FinishedStreams, NEW p \in Participants, NEW c \in Commands,
         NEW a \in AttemptIds, NEW q \in Submissions, Finish(p, c, a, q)
  PROVE  EndsRight(attempts'[a])
<1> DEFINE saved == attempts[a].log
           log == Merged(saved, q.events)
           n == Len(saved)
           m == Len(q.events)
<1>1. /\ a \in DOMAIN attempts
      /\ q.events \in Seq(Event)
      /\ attempts[a].finish = Unfinished
      /\ AcceptsTerminal(saved, q.events, q.outcome, q.node)
      /\ ChoiceHolds(log, q)
  BY FinishGuards
<1>2. /\ attempts'[a].log = log
      /\ attempts'[a].finish = [at |-> now, command |-> c, request |-> q]
  BY FinishAttempts
<1>3. EndsRight(attempts[a]) /\ saved \in Seq(Event)
  BY <1>1 DEF FinishedStreams, TypeOK, Attempt
<1>4. /\ q.events # <<>>
      /\ Submits(q.events) = {m}
      /\ q.events[m].outcome = q.outcome
      /\ q.events[m].node = q.node
      /\ InSequence(saved, q.events)
      /\ Agrees(log, q.events)
      /\ ValidStream(log)
  BY <1>1 DEF AcceptsTerminal, Appendable
<1>5. /\ log \in Seq(Event)
      /\ Len(log) \in Nat /\ n \in Nat
      /\ Len(log) >= n
      /\ \A s \in 1..n : log[s] = saved[s]
      /\ \A s \in (n + 1)..Len(log) :
           \E i \in DOMAIN q.events : q.events[i].seq = s /\ log[s] = q.events[i]
  <2>1. /\ Cardinality(NewSeqs(saved, q.events)) \in Nat
        /\ log \in Seq(Event)
        /\ Len(log) = n + Cardinality(NewSeqs(saved, q.events))
        /\ \A s \in 1..n : log[s] = saved[s]
        /\ \A s \in (n + 1)..Len(log) :
             \E i \in DOMAIN q.events : q.events[i].seq = s /\ log[s] = q.events[i]
    BY <1>1, <1>3, <1>4, MergedStream, Zenon
  <2>2. n \in Nat
    BY <1>3
  <2>3. Len(log) \in Nat /\ Len(log) >= n
    BY <2>1, <2>2
  <2> QED
    BY <2>1, <2>2, <2>3
<1>6. m \in DOMAIN q.events /\ q.events[m].type = "submit"
  BY <1>4 DEF Submits
<1>7. \A s \in 1..Len(log) : log[s].seq = s
  <2> SUFFICES ASSUME NEW s \in 1..Len(log) PROVE log[s].seq = s
    OBVIOUS
  <2>1. CASE s <= n
    BY <1>3, <1>5, <2>1 DEF EndsRight
  <2>2. CASE s > n
    BY <1>5, <2>2
  <2> QED
    BY <1>5, <2>1, <2>2
<1>8. \A s \in 1..Len(log) : log[s].type = "submit" => s = Len(log)
  BY <1>4 DEF ValidStream, ValidMove
<1>9. log[q.events[m].seq] = q.events[m]
  BY <1>4, <1>6 DEF Agrees
<1>10. q.events[m].seq \in 1..Len(log)
  <2>1. q.events[m].seq \in Nat \ {0}
    BY <1>4, <1>6 DEF InSequence
  <2>2. NewSeqs(saved, q.events) \subseteq 1..Len(log)
    BY <1>1, <1>3, <1>4, NewWithin
  <2>3. q.events[m].seq \in 1..n \/ q.events[m].seq \in NewSeqs(saved, q.events)
    BY <1>6 DEF NewSeqs
  <2> QED
    BY <1>5, <2>1, <2>2, <2>3
<1>11. q.events[m].seq = Len(log)
  BY <1>6, <1>8, <1>9, <1>10
<1>12. /\ log # <<>>
       /\ log[Len(log)] = q.events[m]
  BY <1>5, <1>9, <1>10, <1>11
<1>13. /\ attempts'[a].finish # Unfinished
       /\ attempts'[a].finish.request = q
  BY <1>2, SubmissionAssumption DEF TypeOK
<1>14. q.outcome = "selected" => Chosen(log, q.node)
  BY <1>1 DEF ChoiceHolds
<1> QED
  BY <1>2, <1>4, <1>6, <1>7, <1>8, <1>12, <1>13, <1>14 DEF EndsRight

LEMMA StreamInit == Init => FinishedStreams
BY DEF Init, FinishedStreams

LEMMA StreamStep == TypeOK /\ TypeOK' /\ FinishedStreams /\ [Next]_vars => FinishedStreams'
<1> SUFFICES ASSUME TypeOK, TypeOK', FinishedStreams, [Next]_vars PROVE FinishedStreams'
  OBVIOUS
<1>1. ASSUME NEW p \in Participants, NEW c \in Commands, NEW t \in 0..(TaskCount - 1),
             Start(p, c, t)
      PROVE  FinishedStreams'
  <2>1. PICK a \in AttemptIds \ DOMAIN attempts :
           /\ DOMAIN attempts' = DOMAIN attempts \cup {a}
           /\ \A x \in DOMAIN attempts : attempts'[x] = attempts[x]
           /\ attempts'[a] = [session |-> p, index |-> t, command |-> c,
                              started_at |-> now, log |-> <<>>, finish |-> Unfinished]
    BY <1>1, StartEffect
  <2>2. EndsRight(attempts'[a])
    BY <2>1 DEF EndsRight
  <2> QED
    BY <2>1, <2>2 DEF FinishedStreams
<1>2. ASSUME NEW p \in Participants, NEW a \in AttemptIds, NEW batch \in Batches,
             Events(p, a, batch)
      PROVE  FinishedStreams'
  BY <1>2, EventsEffect, CheckpointStream DEF FinishedStreams
<1>3. ASSUME NEW p \in Participants, NEW c \in Commands, NEW a \in AttemptIds,
             NEW q \in Submissions, Finish(p, c, a, q)
      PROVE  FinishedStreams'
  <2>1. /\ DOMAIN attempts' = DOMAIN attempts
        /\ \A x \in DOMAIN attempts : x # a => attempts'[x] = attempts[x]
    BY <1>3, FinishAttempts
  <2>2. EndsRight(attempts'[a])
    BY <1>3, SubmittedStream
  <2> QED
    BY <2>1, <2>2 DEF FinishedStreams
<1>4. ASSUME NEW flag \in BOOLEAN, SetSuspended(flag) PROVE FinishedStreams'
  BY <1>4 DEF SetSuspended, FinishedStreams
<1>5. CASE Tick
  BY <1>5 DEF Tick, FinishedStreams
<1>6. CASE UNCHANGED vars
  BY <1>6 DEF vars, FinishedStreams
<1> QED
  BY <1>1, <1>2, <1>3, <1>4, <1>5, <1>6 DEF Next
-----------------------------------------------------------------------------
(* Receipts and attempts tell the same story. *)

LEMMA ReceiptInit == Init => ReceiptsTrack
BY DEF Init, ReceiptsTrack, OneRowPerCommand, StartRows, FinishRows, WindowCovered

\* A command that is new to the session has no live row, so the row that
\* saveReceipt inserts meets no other one with its key.
LEMMA FreshKey ==
  ASSUME NEW p, NEW c, NEW operation, NEW hash, IsNew(p, c, operation, hash)
  PROVE  \A r \in Live : ~(r.session = p /\ r.command = c)
BY DEF IsNew, Misused, Replayable, Row, Live

\* The columns of a row, by the operation it records.
LEMMA RowFields ==
  ASSUME TypeOK, NEW r \in commands
  PROVE  /\ r.operation \in {"start", "finish"}
         /\ r.session \in Participants
         /\ r.expires_at \in Nat
         /\ r.response_index \in Nat
         /\ r.operation = "finish" => r.attempt = NoAttempt
         /\ r.operation = "start" => r.attempt \in AttemptIds
BY SessionAssumption, SMTT(30) DEF TypeOK, Receipt

LEMMA ReceiptStep ==
  TypeOK /\ TypeOK' /\ TasksInOrder /\ ReceiptsTrack /\ [Next]_vars => ReceiptsTrack'
<1> SUFFICES ASSUME TypeOK, TypeOK', TasksInOrder, ReceiptsTrack, [Next]_vars
             PROVE  ReceiptsTrack'
  OBVIOUS
<1>0. /\ \A x \in DOMAIN attempts : attempts[x] \in Attempt
      /\ OneRowPerCommand /\ StartRows /\ FinishRows /\ WindowCovered
  BY DEF TypeOK, ReceiptsTrack
<1>00. \A x \in DOMAIN attempts : /\ attempts[x].started_at \in Nat
                                  /\ attempts[x].finish # Unfinished
                                       => attempts[x].finish.at \in Nat
  BY <1>0 DEF Attempt
<1>1. ASSUME NEW p \in Participants, NEW c \in Commands, NEW t \in 0..(TaskCount - 1),
             Start(p, c, t)
      PROVE  ReceiptsTrack'
  <2>1. PICK a \in AttemptIds \ DOMAIN attempts :
           /\ DOMAIN attempts' = DOMAIN attempts \cup {a}
           /\ \A x \in DOMAIN attempts : attempts'[x] = attempts[x]
           /\ attempts'[a] = [session |-> p, index |-> t, command |-> c,
                              started_at |-> now, log |-> <<>>, finish |-> Unfinished]
           /\ commands' = Live \cup
                {[session |-> p, command |-> c, operation |-> "start", hash |-> t,
                  response_index |-> t, attempt |-> a,
                  expires_at |-> now + ReceiptLifetime]}
           /\ IsNew(p, c, "start", t)
           /\ UNCHANGED now
    BY <1>1, StartEffect
  <2> DEFINE row == [session |-> p, command |-> c, operation |-> "start", hash |-> t,
                     response_index |-> t, attempt |-> a,
                     expires_at |-> now + ReceiptLifetime]
  <2>2. \A r \in Live : r \in commands /\ ~(r.session = p /\ r.command = c)
    BY <2>1, FreshKey DEF Live
  <2>3. OneRowPerCommand'
    BY <1>0, <2>1, <2>2 DEF OneRowPerCommand
  <2>4. StartRows'
    <3> SUFFICES ASSUME NEW r \in commands', r.operation = "start"
                 PROVE  /\ r.attempt \in DOMAIN attempts'
                        /\ LET x == attempts'[r.attempt]
                           IN  /\ x.session = r.session
                               /\ x.command = r.command
                               /\ x.index = r.hash
                               /\ x.index = r.response_index
                               /\ r.expires_at = x.started_at + ReceiptLifetime
      BY DEF StartRows
    <3>1. CASE r = row
      BY <2>1, <3>1
    <3>2. CASE r \in Live
      BY <1>0, <2>1, <2>2, <3>2 DEF StartRows
    <3> QED
      BY <2>1, <3>1, <3>2
  <2>5. FinishRows'
    <3> SUFFICES ASSUME NEW r \in commands', r.operation = "finish"
                 PROVE  /\ r.hash[1] \in DOMAIN attempts'
                        /\ LET x == attempts'[r.hash[1]]
                           IN  /\ x.session = r.session
                               /\ x.finish # Unfinished
                               /\ x.finish.command = r.command
                               /\ x.finish.request = r.hash[2]
                               /\ x.index + 1 = r.response_index
                               /\ r.expires_at = x.finish.at + ReceiptLifetime
      BY DEF FinishRows
    <3>1. r # row
      OBVIOUS
    <3>2. r \in Live
      BY <2>1, <3>1
    <3> QED
      BY <1>0, <2>1, <2>2, <3>2 DEF FinishRows
  <2>6. WindowCovered'
    <3> SUFFICES ASSUME NEW x \in DOMAIN attempts'
                 PROVE
      /\ now < attempts'[x].started_at + ReceiptLifetime =>
           \E r \in commands' : r.operation = "start" /\ r.attempt = x
      /\ attempts'[x].finish # Unfinished /\ now < attempts'[x].finish.at + ReceiptLifetime =>
           \E r \in commands' : r.operation = "finish" /\ r.hash[1] = x
      BY <2>1 DEF WindowCovered
    <3>1. CASE x = a
      <4>1. row \in commands' /\ row.operation = "start" /\ row.attempt = x
        BY <2>1, <3>1
      <4>2. attempts'[x].finish = Unfinished
        BY <2>1, <3>1
      <4> HIDE DEF row
      <4> QED
        BY <4>1, <4>2
    <3>2. CASE x \in DOMAIN attempts
      BY <1>0, <2>1, <3>2 DEF WindowCovered, StartRows, FinishRows, Live
    <3> QED
      BY <2>1, <3>1, <3>2
  <2> QED
    BY <2>3, <2>4, <2>5, <2>6 DEF ReceiptsTrack
<1>2. ASSUME NEW p \in Participants, NEW a \in AttemptIds, NEW batch \in Batches,
             Events(p, a, batch)
      PROVE  ReceiptsTrack'
  <2>1. /\ DOMAIN attempts' = DOMAIN attempts
        /\ \A x \in DOMAIN attempts : SameStart(x) /\ attempts'[x].finish = attempts[x].finish
        /\ UNCHANGED <<now, commands>>
    BY <1>2, EventsEffect
  <2>2. OneRowPerCommand'
    BY <1>0, <2>1 DEF OneRowPerCommand
  <2>3. StartRows'
    BY <1>0, <2>1 DEF StartRows, SameStart
  <2>4. FinishRows'
    BY <1>0, <2>1 DEF FinishRows, SameStart
  <2>5. WindowCovered'
    BY <1>0, <2>1 DEF WindowCovered, SameStart
  <2> QED
    BY <2>2, <2>3, <2>4, <2>5 DEF ReceiptsTrack
<1>3. ASSUME NEW p \in Participants, NEW c \in Commands, NEW a \in AttemptIds,
             NEW q \in Submissions, Finish(p, c, a, q)
      PROVE  ReceiptsTrack'
  <2> DEFINE end == [at |-> now, command |-> c, request |-> q]
             row == [session |-> p, command |-> c, operation |-> "finish",
                     hash |-> <<a, q>>, response_index |-> sessions[p].index + 1,
                     attempt |-> NoAttempt, expires_at |-> now + ReceiptLifetime]
  <2>1. /\ a \in DOMAIN attempts
        /\ attempts[a].session = p
        /\ attempts[a].finish = Unfinished
        /\ attempts[a].index = sessions[p].index
        /\ IsNew(p, c, "finish", <<a, q>>)
    BY <1>3, FinishGuards
  <2>2. /\ DOMAIN attempts' = DOMAIN attempts
        /\ \A x \in DOMAIN attempts : SameStart(x)
        /\ \A x \in DOMAIN attempts : x # a => attempts'[x] = attempts[x]
        /\ attempts'[a].finish = end
    BY <1>3, FinishAttempts
  <2>3. commands' = Live \cup {row} /\ now' = now
    BY <1>3, FinishReceipt
  <2>4. end # Unfinished
    BY SubmissionAssumption DEF TypeOK
  <2>5. \A r \in Live : r \in commands /\ ~(r.session = p /\ r.command = c)
    BY <2>1, FreshKey DEF Live
  <2>6. OneRowPerCommand'
    BY <1>0, <2>3, <2>5 DEF OneRowPerCommand
  <2>7. StartRows'
    <3> SUFFICES ASSUME NEW r \in commands', r.operation = "start"
                 PROVE  /\ r.attempt \in DOMAIN attempts'
                        /\ LET x == attempts'[r.attempt]
                           IN  /\ x.session = r.session
                               /\ x.command = r.command
                               /\ x.index = r.hash
                               /\ x.index = r.response_index
                               /\ r.expires_at = x.started_at + ReceiptLifetime
      BY DEF StartRows
    <3>1. r # row
      OBVIOUS
    <3>2. r \in Live
      BY <2>3, <3>1
    <3>3. r \in commands /\ r.attempt \in DOMAIN attempts
      BY <1>0, <2>5, <3>2 DEF StartRows
    <3>4. SameStart(r.attempt)
      BY <2>2, <3>3
    <3> QED
      BY <1>0, <2>2, <3>3, <3>4 DEF StartRows, SameStart
  <2>8. FinishRows'
    <3> SUFFICES ASSUME NEW r \in commands', r.operation = "finish"
                 PROVE  /\ r.hash[1] \in DOMAIN attempts'
                        /\ LET x == attempts'[r.hash[1]]
                           IN  /\ x.session = r.session
                               /\ x.finish # Unfinished
                               /\ x.finish.command = r.command
                               /\ x.finish.request = r.hash[2]
                               /\ x.index + 1 = r.response_index
                               /\ r.expires_at = x.finish.at + ReceiptLifetime
      BY DEF FinishRows
    <3>1. CASE r = row
      <4>1. SameStart(a)
        BY <2>1, <2>2
      <4>2. r.hash[1] = a /\ r.hash[2] = q
        BY <3>1
      <4> QED
        BY <2>1, <2>2, <2>4, <3>1, <4>1, <4>2 DEF SameStart
    <3>2. CASE r \in Live
      <4>1. r \in commands /\ r.hash[1] # a
        BY <1>0, <2>1, <2>5, <3>2 DEF FinishRows
      <4> QED
        BY <1>0, <2>2, <4>1 DEF FinishRows
    <3> QED
      BY <2>3, <3>1, <3>2
  <2>9. WindowCovered'
    <3> SUFFICES ASSUME NEW x \in DOMAIN attempts
                 PROVE
      /\ now < attempts'[x].started_at + ReceiptLifetime =>
           \E r \in commands' : r.operation = "start" /\ r.attempt = x
      /\ attempts'[x].finish # Unfinished /\ now < attempts'[x].finish.at + ReceiptLifetime =>
           \E r \in commands' : r.operation = "finish" /\ r.hash[1] = x
      BY <2>2, <2>3 DEF WindowCovered
    <3>1. now < attempts'[x].started_at + ReceiptLifetime =>
            \E r \in commands' : r.operation = "start" /\ r.attempt = x
      BY <1>0, <2>2, <2>3 DEF WindowCovered, StartRows, Live, SameStart
    <3>2. CASE x = a
      <4>1. row \in commands' /\ row.operation = "finish" /\ row.hash[1] = x
        BY <2>3, <3>2
      <4> QED
        BY <3>1, <4>1
    <3>3. CASE x # a
      BY <1>0, <2>2, <2>3, <3>1, <3>3 DEF WindowCovered, FinishRows, Live
    <3> QED
      BY <3>2, <3>3
  <2> QED
    BY <2>6, <2>7, <2>8, <2>9 DEF ReceiptsTrack
<1>4. ASSUME NEW flag \in BOOLEAN, SetSuspended(flag) PROVE ReceiptsTrack'
  BY <1>4 DEF SetSuspended, ReceiptsTrack, OneRowPerCommand, StartRows, FinishRows,
              WindowCovered
<1>5. CASE Tick
  <2>1. now' = now + 1 /\ now \in Nat /\ UNCHANGED <<attempts, commands>>
    BY <1>5 DEF Tick, TypeOK
  <2>2. WindowCovered'
    BY <1>0, <1>00, <2>1, SessionAssumption DEF WindowCovered
  <2> QED
    BY <1>0, <2>1, <2>2 DEF ReceiptsTrack, OneRowPerCommand, StartRows, FinishRows
<1>6. CASE UNCHANGED vars
  BY <1>6 DEF vars, ReceiptsTrack, OneRowPerCommand, StartRows, FinishRows, WindowCovered
<1> QED
  BY <1>1, <1>2, <1>3, <1>4, <1>5, <1>6 DEF Next

-----------------------------------------------------------------------------
(* The invariant, and what follows from it. *)

\* Every step keeps it.
LEMMA InvariantStep == IInv /\ [Next]_vars => IInv'
<1> SUFFICES ASSUME IInv, [Next]_vars PROVE IInv'
  OBVIOUS
<1>1. TypeOK /\ TasksInOrder /\ FinishedStreams /\ ReceiptsTrack
  BY DEF IInv
<1>2. TypeOK'
  BY <1>1, TypeStep
<1> QED
  BY <1>1, <1>2, OrderStep, StreamStep, ReceiptStep DEF IInv

\* The inductive invariant holds throughout.
THEOREM Invariance == Spec => []IInv
<1>1. Init => IInv
  BY TypeInit, OrderInit, StreamInit, ReceiptInit DEF IInv
<1> QED
  BY <1>1, InvariantStep, PTL DEF Spec

\* A participant takes each task once and in order, however often, late or out
\* of order start and finish arrive.
THEOREM OrderedTasks == Spec => []TasksInOrder
BY Invariance, PTL DEF IInv

\* A finished attempt's stream ends in the submit event that agrees with it.
THEOREM StreamsEndRight == Spec => []FinishedStreams
BY Invariance, PTL DEF IInv

\* A row that records a command exactly is the only one with its key, so the
\* command is neither misused nor answered by anything else.
LEMMA OnlyRow ==
  ASSUME OneRowPerCommand, NEW r \in commands, r.expires_at > now
  PROVE  /\ ~Misused(r.session, r.command, r.operation, r.hash)
         /\ Replayable(r.session, r.command, r.operation, r.hash) = {r}
<1>1. Row(r.session, r.command) = {r}
  BY DEF OneRowPerCommand, Row
<1> QED
  BY <1>1 DEF Misused, Replayable

\* A start or finish that took effect is answered from its receipt with the
\* response it got, for as long as receipts live.
THEOREM RetriesAnswered == Spec => []RetryWindow
<1>1. IInv => RetryWindow
  <2> SUFFICES ASSUME IInv, NEW a \in DOMAIN attempts
               PROVE  LET p == attempts[a].session
                          i == attempts[a].index
                          end == attempts[a].finish
                      IN  /\ now < attempts[a].started_at + ReceiptLifetime =>
                               /\ ~Misused(p, attempts[a].command, "start", i)
                               /\ {Replay(r) : r \in Replayable(p, attempts[a].command, "start", i)}
                                    = {Response(i, a)}
                          /\ end # Unfinished /\ now < end.at + ReceiptLifetime =>
                               /\ ~Misused(p, end.command, "finish", <<a, end.request>>)
                               /\ {Replay(r) : r \in Replayable(p, end.command, "finish", <<a, end.request>>)}
                                    = {Response(i + 1, NoAttempt)}
    BY DEF RetryWindow
  <2> DEFINE p == attempts[a].session
             i == attempts[a].index
             end == attempts[a].finish
  <2>0. /\ TypeOK /\ OneRowPerCommand /\ StartRows /\ FinishRows /\ WindowCovered
        /\ attempts[a] \in Attempt
    BY DEF IInv, ReceiptsTrack, TypeOK
  <2>1. /\ now \in Nat /\ ReceiptLifetime \in Nat /\ attempts[a].started_at \in Nat
        /\ i \in Nat
        /\ end # Unfinished => end.at \in Nat
    BY <2>0, SessionAssumption DEF TypeOK, Attempt
  <2>2. ASSUME now < attempts[a].started_at + ReceiptLifetime
        PROVE  /\ ~Misused(p, attempts[a].command, "start", i)
               /\ {Replay(r) : r \in Replayable(p, attempts[a].command, "start", i)}
                    = {Response(i, a)}
    <3>1. PICK r \in commands : r.operation = "start" /\ r.attempt = a
      BY <2>0, <2>2 DEF WindowCovered
    <3>2. /\ r.session = p /\ r.command = attempts[a].command /\ r.hash = i
          /\ r.response_index = i
          /\ r.expires_at = attempts[a].started_at + ReceiptLifetime
      BY <2>0, <3>1 DEF StartRows
    <3>3. r.expires_at > now
      BY <2>1, <2>2, <3>2
    <3>4. /\ ~Misused(p, attempts[a].command, "start", i)
          /\ Replayable(p, attempts[a].command, "start", i) = {r}
      BY <2>0, <3>1, <3>2, <3>3, OnlyRow
    <3>5. Replay(r) = Response(i, a)
      BY <3>1, <3>2 DEF Replay
    <3> QED
      BY <3>4, <3>5
  <2>3. ASSUME end # Unfinished, now < end.at + ReceiptLifetime
        PROVE  /\ ~Misused(p, end.command, "finish", <<a, end.request>>)
               /\ {Replay(r) : r \in Replayable(p, end.command, "finish", <<a, end.request>>)}
                    = {Response(i + 1, NoAttempt)}
    <3>1. PICK r \in commands : r.operation = "finish" /\ r.hash[1] = a
      BY <2>0, <2>3 DEF WindowCovered
    <3>2. /\ r.session = p /\ r.command = end.command /\ r.hash[2] = end.request
          /\ r.response_index = i + 1
          /\ r.expires_at = end.at + ReceiptLifetime
      BY <2>0, <3>1 DEF FinishRows
    <3>3. r.hash = <<a, end.request>> /\ r.attempt = NoAttempt
      <4>1. r.hash \in AttemptIds \X Submissions /\ r.attempt = NoAttempt
        BY <2>0, <3>1 DEF TypeOK, Receipt
      <4> QED
        BY <3>1, <3>2, <4>1
    <3>4. r.expires_at > now
      BY <2>1, <2>3, <3>2
    <3>5. /\ ~Misused(p, end.command, "finish", <<a, end.request>>)
          /\ Replayable(p, end.command, "finish", <<a, end.request>>) = {r}
      BY <2>0, <3>1, <3>2, <3>3, <3>4, OnlyRow
    <3>6. Replay(r) = Response(i + 1, NoAttempt)
      BY <3>2, <3>3 DEF Replay
    <3> QED
      BY <3>5, <3>6
  <2> QED
    BY <2>2, <2>3
<1> QED
  BY <1>1, Invariance, PTL

\* replayReceipt always finds what a receipt refers to.
THEOREM ReceiptsResolve == Spec => []ReceiptsReconstruct
<1>1. IInv => ReceiptsReconstruct
  <2> SUFFICES ASSUME IInv, NEW r \in commands
               PROVE  /\ r.response_index <= sessions[r.session].index
                      /\ r.attempt # NoAttempt =>
                           /\ r.attempt \in DOMAIN attempts
                           /\ attempts[r.attempt].session = r.session
                           /\ attempts[r.attempt].index = r.response_index
    BY DEF ReceiptsReconstruct
  <2>0. TypeOK /\ TasksInOrder /\ StartRows /\ FinishRows
    BY DEF IInv, ReceiptsTrack
  <2>1. \A a \in DOMAIN attempts :
          /\ attempts[a].index \in Nat
          /\ sessions[attempts[a].session].index \in Nat
          /\ attempts[a].index <= sessions[attempts[a].session].index
          /\ attempts[a].finish # Unfinished
               => attempts[a].index < sessions[attempts[a].session].index
    BY <2>0 DEF TypeOK, Attempt, SessionRow, TasksInOrder
  <2>2. CASE r.operation = "start"
    BY <2>0, <2>1, <2>2 DEF StartRows
  <2>3. CASE r.operation = "finish"
    <3>1. r.attempt = NoAttempt
      BY <2>0, <2>3, RowFields
    <3> QED
      BY <2>0, <2>1, <2>3, <3>1 DEF FinishRows
  <2> QED
    BY <2>0, <2>2, <2>3, RowFields
<1> QED
  BY <1>1, Invariance, PTL

\* Two receipts of a session that lead to the same position by the same
\* operation are the same receipt.
LEMMA OneReceiptPerStep ==
  ASSUME IInv, NEW r \in commands, NEW s \in commands,
         r.session = s.session, r.operation = s.operation,
         r.response_index = s.response_index
  PROVE  r = s
<1>0. TypeOK /\ TasksInOrder /\ OneRowPerCommand /\ StartRows /\ FinishRows
  BY DEF IInv, ReceiptsTrack
<1>1. \A a \in DOMAIN attempts : attempts[a].index \in Nat
  BY <1>0 DEF TypeOK, Attempt
<1>2. r.operation \in {"start", "finish"}
  BY <1>0, RowFields
<1>3. \A a, b \in DOMAIN attempts :
        attempts[a].session = attempts[b].session /\ attempts[a].index = attempts[b].index
          => a = b
  BY <1>0 DEF TasksInOrder
<1>4. r.command = s.command => r = s
  BY <1>0 DEF OneRowPerCommand
<1>5. CASE r.operation = "start"
  <2>1. /\ r.attempt \in DOMAIN attempts /\ s.attempt \in DOMAIN attempts
        /\ attempts[r.attempt].session = r.session
        /\ attempts[s.attempt].session = s.session
        /\ attempts[r.attempt].index = r.response_index
        /\ attempts[s.attempt].index = s.response_index
        /\ attempts[r.attempt].command = r.command
        /\ attempts[s.attempt].command = s.command
    BY <1>0, <1>5 DEF StartRows
  <2>2. r.attempt = s.attempt
    BY <2>1, <1>3
  <2> QED
    BY <2>1, <2>2, <1>4
<1>6. CASE r.operation = "finish"
  <2> DEFINE a == r.hash[1]
             b == s.hash[1]
  <2>1. /\ a \in DOMAIN attempts /\ b \in DOMAIN attempts
        /\ attempts[a].session = r.session
        /\ attempts[b].session = s.session
        /\ attempts[a].index + 1 = r.response_index
        /\ attempts[b].index + 1 = s.response_index
        /\ attempts[a].finish.command = r.command
        /\ attempts[b].finish.command = s.command
    BY <1>0, <1>6 DEF FinishRows
  <2> HIDE DEF a, b
  <2>2. attempts[a].index = attempts[b].index
    BY <2>1, <1>1
  <2>3. a = b
    BY <2>1, <2>2, <1>3
  <2> QED
    BY <2>1, <2>3, <1>4
<1> QED
  BY <1>2, <1>5, <1>6

\* Where a receipt stands among those of its session: the start of the task at
\* position i is number 2i, its finish 2i + 1.
Rank(r) ==
  IF r.operation = "start" THEN 2 * r.response_index ELSE 2 * r.response_index - 1

LEMMA RankBounded ==
  ASSUME IInv, NEW r \in commands
  PROVE  Rank(r) \in 0..(2 * sessions[r.session].index)
<1>0. TypeOK /\ TasksInOrder /\ StartRows /\ FinishRows
  BY DEF IInv, ReceiptsTrack
<1>1. \A a \in DOMAIN attempts :
        /\ attempts[a].index \in Nat
        /\ sessions[attempts[a].session].index \in Nat
        /\ attempts[a].index <= sessions[attempts[a].session].index
        /\ attempts[a].finish # Unfinished
             => attempts[a].index < sessions[attempts[a].session].index
  BY <1>0 DEF TypeOK, Attempt, SessionRow, TasksInOrder
<1>2. CASE r.operation = "start"
  <2>1. /\ r.response_index \in Nat
        /\ sessions[r.session].index \in Nat
        /\ r.response_index <= sessions[r.session].index
    BY <1>0, <1>1, <1>2 DEF StartRows
  <2> QED
    BY <1>2, <2>1 DEF Rank
<1>3. CASE r.operation = "finish"
  <2>1. /\ r.response_index \in Nat \ {0}
        /\ sessions[r.session].index \in Nat
        /\ r.response_index <= sessions[r.session].index
    BY <1>0, <1>1, <1>3 DEF FinishRows
  <2>2. r.operation # "start"
    BY <1>3
  <2> QED
    BY <2>1, <2>2 DEF Rank
<1> QED
  BY <1>0, <1>2, <1>3, RowFields

\* maxCommandReceipts never refuses a participant who still has a task to do.
THEOREM ReceiptsFit == Spec => []ReceiptRoom
<1>1. IInv => ReceiptRoom
  <2> SUFFICES ASSUME IInv, NEW p \in Participants, sessions[p].index < TaskCount
               PROVE  HasRoom(p)
    BY DEF ReceiptRoom
  <2> DEFINE S == {r \in Live : r.session = p}
             last == 2 * sessions[p].index
             f == [r \in S |-> Rank(r)]
  <2>1. /\ TypeOK
        /\ sessions[p].index \in Nat
        /\ TaskCount \in Nat
    BY SessionAssumption DEF IInv, TypeOK, SessionRow
  <2>2. \A r \in S : r \in commands /\ r.session = p
    BY DEF Live
  <2>3. f \in [S -> 0..last]
    BY <2>2, RankBounded
  <2>4. ASSUME NEW r \in S, NEW s \in S, Rank(r) = Rank(s)
        PROVE  r = s
    <3>1. /\ r.operation \in {"start", "finish"} /\ s.operation \in {"start", "finish"}
          /\ r.response_index \in Nat /\ s.response_index \in Nat
      BY <2>1, <2>2, RowFields
    <3>2. r.operation = s.operation /\ r.response_index = s.response_index
      BY <2>4, <3>1 DEF Rank
    <3> QED
      BY <2>2, <3>2, OneReceiptPerStep
  <2>5. f \in Injection(S, 0..last)
    <3>1. \A r, s \in S : f[r] = f[s] => r = s
      BY <2>4
    <3> HIDE DEF S, f, last
    <3> QED
      BY <2>3, <3>1 DEF Injection, IsInjective
  <2>6. 0 \in Int /\ last \in Int /\ last >= 0
    BY <2>1
  <2>7. IsFiniteSet(0..last) /\ Cardinality(0..last) = last + 1
    <3> HIDE DEF last
    <3>1. IsFiniteSet(0..last) /\ Cardinality(0..last) = IF 0 > last THEN 0 ELSE last - 0 + 1
      BY ONLY <2>6, FS_Interval
    <3> QED
      BY ONLY <2>6, <3>1
  <2>8. IsFiniteSet(S) /\ Cardinality(S) <= last + 1
    <3> HIDE DEF S, f, last
    <3> QED
      BY <2>5, <2>7, FS_Injection
  <2>9. Cardinality(S) \in Nat
    BY <2>8, FS_CardinalityType
  <2> QED
    BY <2>1, <2>8, <2>9, ReceiptAssumption DEF HasRoom
<1> QED
  BY <1>1, Invariance, PTL

-----------------------------------------------------------------------------
(* What a step may do to what is stored. *)

\* A stream only grows, and a finished attempt stays as it is.
Kept(a) ==
  /\ a \in DOMAIN attempts'
  /\ \A i \in 1..Len(attempts[a].log) :
       i <= Len(attempts'[a].log) /\ attempts'[a].log[i] = attempts[a].log[i]
  /\ attempts[a].finish # Unfinished => attempts'[a] = attempts[a]

LEMMA KeptStep ==
  ASSUME TypeOK, TypeOK', [Next]_vars, NEW x \in DOMAIN attempts
  PROVE  Kept(x)
<1>0. attempts[x] \in Attempt /\ attempts[x].log \in Seq(Event)
  BY DEF TypeOK, Attempt
<1>5. attempts'[x] = attempts[x] /\ x \in DOMAIN attempts' => Kept(x)
  BY <1>0 DEF Kept
<1>1. ASSUME NEW p \in Participants, NEW c \in Commands, NEW t \in 0..(TaskCount - 1),
             Start(p, c, t)
      PROVE  Kept(x)
  <2>1. x \in DOMAIN attempts' /\ attempts'[x] = attempts[x]
    BY <1>1, StartEffect
  <2> QED
    BY <1>5, <2>1
<1>2. ASSUME NEW p \in Participants, NEW a \in AttemptIds, NEW batch \in Batches,
             Events(p, a, batch)
      PROVE  Kept(x)
  <2> DEFINE log == Merged(attempts[a].log, batch)
  <2>1. /\ DOMAIN attempts' = DOMAIN attempts
        /\ x # a => attempts'[x] = attempts[x]
        /\ attempts'[a].log = log
        /\ attempts'[a].finish = attempts[a].finish
        /\ SameStart(x)
        /\ AcceptsCheckpoint(attempts[a].log, batch, Frozen(p, a))
        /\ batch \in Seq(Event)
    BY <1>2, EventsEffect
  <2>2. CASE x # a
    BY <1>5, <2>1, <2>2
  <2>3. CASE x = a
    <3>1. InSequence(attempts[a].log, batch)
      BY <2>1 DEF AcceptsCheckpoint, Appendable
    <3>2. /\ log \in Seq(Event)
          /\ Cardinality(NewSeqs(attempts[a].log, batch)) \in Nat
          /\ Len(log) = Len(attempts[a].log) + Cardinality(NewSeqs(attempts[a].log, batch))
          /\ \A i \in 1..Len(attempts[a].log) : log[i] = attempts[a].log[i]
      BY <1>0, <2>1, <2>3, <3>1, MergedStream, Zenon
    <3>3. Len(attempts[a].log) \in Nat /\ Len(log) \in Nat /\ Len(attempts[a].log) <= Len(log)
      BY <1>0, <2>3, <3>2
    <3>4. ASSUME attempts[a].finish # Unfinished
          PROVE  attempts'[x] = attempts[x]
      <4>1. (Len(attempts[a].log) + 1)..Len(log) = {}
        BY <2>1, <3>4 DEF AcceptsCheckpoint, Appendable, Frozen
      <4>2. Len(log) = Len(attempts[a].log)
        <5> HIDE DEF log
        <5>1. Len(attempts[a].log) < Len(log)
                => Len(log) \in (Len(attempts[a].log) + 1)..Len(log)
          BY <3>3
        <5> QED
          BY <3>3, <4>1, <5>1
      <4>3. log = attempts[a].log
        BY <1>0, <2>3, <3>2, <4>2
      <4>4. attempts'[x] \in Attempt
        BY <2>1 DEF TypeOK
      <4> QED
        BY <1>0, <2>1, <2>3, <4>3, <4>4 DEF Attempt, SameStart
    <3>5. \A i \in 1..Len(attempts[x].log) :
            i <= Len(attempts'[x].log) /\ attempts'[x].log[i] = attempts[x].log[i]
      <4>1. attempts'[x].log = log /\ attempts[x].log = attempts[a].log
        BY <2>1, <2>3
      <4>2. \A i \in 1..Len(attempts[a].log) : i <= Len(log)
        <5> HIDE DEF log
        <5> QED
          BY <3>3
      <4>3. \A i \in 1..Len(attempts[a].log) : log[i] = attempts[a].log[i]
        BY <3>2
      <4> HIDE DEF log
      <4> QED
        BY <4>1, <4>2, <4>3, Zenon
    <3> QED
      BY <2>1, <2>3, <3>4, <3>5 DEF Kept
  <2> QED
    BY <2>2, <2>3
<1>3. ASSUME NEW p \in Participants, NEW c \in Commands, NEW a \in AttemptIds,
             NEW q \in Submissions, Finish(p, c, a, q)
      PROVE  Kept(x)
  <2> DEFINE log == Merged(attempts[a].log, q.events)
  <2>1. /\ q.events \in Seq(Event)
        /\ attempts[a].finish = Unfinished
        /\ AcceptsTerminal(attempts[a].log, q.events, q.outcome, q.node)
    BY <1>3, FinishGuards
  <2>2. /\ DOMAIN attempts' = DOMAIN attempts
        /\ x # a => attempts'[x] = attempts[x]
        /\ attempts'[a].log = log
    BY <1>3, FinishAttempts
  <2>3. CASE x # a
    BY <1>5, <2>2, <2>3
  <2>4. CASE x = a
    <3>1. InSequence(attempts[a].log, q.events)
      BY <2>1 DEF AcceptsTerminal, Appendable
    <3>2. /\ log \in Seq(Event)
          /\ Cardinality(NewSeqs(attempts[a].log, q.events)) \in Nat
          /\ Len(log) = Len(attempts[a].log) + Cardinality(NewSeqs(attempts[a].log, q.events))
          /\ \A i \in 1..Len(attempts[a].log) : log[i] = attempts[a].log[i]
      BY <1>0, <2>1, <2>4, <3>1, MergedStream, Zenon
    <3>3. Len(attempts[a].log) \in Nat /\ Len(attempts[a].log) <= Len(log)
      BY <1>0, <2>4, <3>2
    <3>4. \A i \in 1..Len(attempts[x].log) :
            i <= Len(attempts'[x].log) /\ attempts'[x].log[i] = attempts[x].log[i]
      <4>1. attempts'[x].log = log /\ attempts[x].log = attempts[a].log
        BY <2>2, <2>4
      <4>2. \A i \in 1..Len(attempts[a].log) : i <= Len(log)
        <5> HIDE DEF log
        <5> QED
          BY <3>2, <3>3
      <4>3. \A i \in 1..Len(attempts[a].log) : log[i] = attempts[a].log[i]
        BY <3>2
      <4> HIDE DEF log
      <4> QED
        BY <4>1, <4>2, <4>3, Zenon
    <3> QED
      BY <2>1, <2>2, <2>4, <3>4 DEF Kept
  <2> QED
    BY <2>3, <2>4
<1>4. CASE UNCHANGED attempts
  BY <1>5, <1>4
<1> QED
  BY <1>1, <1>2, <1>3, <1>4 DEF Next, SetSuspended, Tick, vars

\* An attempt keeps its session and task, and a session never goes back.
LEMMA RowsStep ==
  ASSUME TypeOK, [Next]_vars
  PROVE  /\ \A x \in DOMAIN attempts : x \in DOMAIN attempts' /\ SameStart(x)
         /\ \A p \in Participants : sessions[p].index <= sessions'[p].index
<1>0. \A p \in Participants : sessions[p].index \in Nat
  BY SessionAssumption DEF TypeOK, SessionRow
<1> DEFINE Result ==
      /\ \A x \in DOMAIN attempts : x \in DOMAIN attempts' /\ SameStart(x)
      /\ \A p \in Participants : sessions[p].index <= sessions'[p].index
<1>1. ASSUME NEW p \in Participants, NEW c \in Commands, NEW t \in 0..(TaskCount - 1),
             Start(p, c, t)
      PROVE  Result
  <2>1. PICK a \in AttemptIds \ DOMAIN attempts :
           /\ DOMAIN attempts' = DOMAIN attempts \cup {a}
           /\ \A x \in DOMAIN attempts : attempts'[x] = attempts[x]
           /\ UNCHANGED sessions
    BY <1>1, StartEffect, Zenon
  <2>2. \A x \in DOMAIN attempts : x \in DOMAIN attempts' /\ SameStart(x)
    BY <2>1 DEF SameStart
  <2> QED
    BY <1>0, <2>1, <2>2
<1>2. ASSUME NEW p \in Participants, NEW a \in AttemptIds, NEW batch \in Batches,
             Events(p, a, batch)
      PROVE  Result
  <2>1. \A x \in DOMAIN attempts : x \in DOMAIN attempts' /\ SameStart(x)
    BY <1>2, EventsEffect, Zenon
  <2>2. \A x \in Participants : sessions'[x].index = sessions[x].index
    BY <1>2, EventsEffect, Zenon
  <2> QED
    BY <1>0, <2>1, <2>2
<1>3. ASSUME NEW p \in Participants, NEW c \in Commands, NEW a \in AttemptIds,
             NEW q \in Submissions, Finish(p, c, a, q)
      PROVE  Result
  <2>1. \A x \in DOMAIN attempts : x \in DOMAIN attempts' /\ SameStart(x)
    BY <1>3, FinishAttempts, Zenon
  <2>2. /\ \A x \in Participants : x # p => sessions'[x] = sessions[x]
        /\ sessions'[p].index = sessions[p].index + 1
    BY <1>3, FinishSessions, Zenon
  <2> QED
    BY <1>0, <2>1, <2>2
<1>4. CASE UNCHANGED <<attempts, sessions>>
  BY <1>0, <1>4 DEF SameStart
<1> QED
  BY <1>1, <1>2, <1>3, <1>4 DEF Next, SetSuspended, Tick, vars

\* Nothing that was acknowledged is changed or lost.
THEOREM AcknowledgedKept == Spec => AcknowledgedStays
<1>1. TypeOK /\ TypeOK' /\ [Next]_vars => [\A a \in DOMAIN attempts : Kept(a)]_vars
  BY KeptStep
<1> QED
  BY <1>1, TypeCorrect, PTL DEF Spec, AcknowledgedStays, Kept

\* A new receipt replays to the response that the step itself gives: start
\* answers with its new attempt, finish with the task it has moved on to.
THEOREM OriginalsSaved == Spec => OriginalSaved
<1> DEFINE Original == \A r \in commands' \ commands : Replay(r) = View(r.session)'
<1>1. ASSUME IInv, IInv', [Next]_vars PROVE Original \/ UNCHANGED vars
  <2>0. TypeOK /\ TypeOK' /\ TasksInOrder /\ TaskCount \in Nat
    BY <1>1, SessionAssumption DEF IInv
  <2>1. ASSUME NEW p \in Participants, NEW c \in Commands, NEW t \in 0..(TaskCount - 1),
               Start(p, c, t)
        PROVE  Original
    <3>1. PICK a \in AttemptIds \ DOMAIN attempts :
             /\ DOMAIN attempts' = DOMAIN attempts \cup {a}
             /\ \A x \in DOMAIN attempts : attempts'[x] = attempts[x]
             /\ attempts'[a] = [session |-> p, index |-> t, command |-> c,
                                started_at |-> now, log |-> <<>>, finish |-> Unfinished]
             /\ t = sessions[p].index
             /\ AttemptsAt(p, t) = {}
             /\ commands' = Live \cup
                  {[session |-> p, command |-> c, operation |-> "start", hash |-> t,
                    response_index |-> t, attempt |-> a,
                    expires_at |-> now + ReceiptLifetime]}
             /\ UNCHANGED sessions
      BY <2>0, <2>1, StartEffect
    <3>2. AttemptsAt(p, t)' = {a}
      BY <3>1 DEF AttemptsAt
    <3>3. t < TaskCount /\ sessions'[p].index = t
      BY <2>0, <3>1
    <3>4. View(p)' = Response(t, a)
      BY <3>1, <3>2, <3>3, <2>0 DEF View, Response
    <3>5. \A r \in commands' \ commands :
            r.session = p /\ r.response_index = t /\ r.attempt = a
      BY <3>1 DEF Live
    <3> QED
      BY <3>4, <3>5 DEF Replay
  <2>2. ASSUME NEW p \in Participants, NEW c \in Commands, NEW a \in AttemptIds,
               NEW q \in Submissions, Finish(p, c, a, q)
        PROVE  Original
    <3>0. sessions[p].index \in Nat
      BY <2>0 DEF TypeOK, SessionRow
    <3> PICK next \in Nat : next = sessions[p].index + 1
      BY <3>0
    <3>1. /\ DOMAIN attempts' = DOMAIN attempts
          /\ \A x \in DOMAIN attempts : SameStart(x)
      BY <2>0, <2>2, FinishAttempts
    <3>2. sessions'[p].index = next
      BY <2>0, <2>2, FinishSessions
    <3>3. \A x \in DOMAIN attempts : attempts[x].session = p => attempts[x].index # next
      BY <2>0, <3>0 DEF TasksInOrder, TypeOK, Attempt, SessionRow
    <3>4. AttemptsAt(p, next)' = {}
      BY <3>1, <3>3 DEF AttemptsAt, SameStart
    <3>5. View(p)' = Response(next, NoAttempt)
      BY <3>2, <3>4 DEF View, Response
    <3>6. \A r \in commands' \ commands :
            r.session = p /\ r.response_index = next /\ r.attempt = NoAttempt
      BY <2>0, <2>2, FinishReceipt DEF Live
    <3> QED
      BY <3>5, <3>6 DEF Replay
  <2>3. CASE UNCHANGED commands
    BY <2>3
  <2> QED
    BY <1>1, <2>1, <2>2, <2>3 DEF Next, Events, SetSuspended, Tick, vars
<1>2. IInv /\ IInv' /\ [Next]_vars => [Original]_vars
  BY <1>1
<1> QED
  BY <1>2, Invariance, PTL DEF Spec, OriginalSaved

-----------------------------------------------------------------------------
(* The byte counters. *)

LEMMA StoredMember ==
  ASSUME NEW e
  PROVE  e \in StoredEvents <=>
           \E a \in DOMAIN attempts : \E i \in 1..Len(attempts[a].log) : e = <<a, i>>
BY DEF StoredEvents

LEMMA ProductSum == \A x, y, z \in Nat : x * (y + z) = x * y + x * z
OBVIOUS

\* A stream that takes k events more adds k rows to the events of its session
\* and to no other session's.
LEMMA StreamGrows ==
  ASSUME TypeOK, TypeOK', IsFiniteSet(StoredEvents), NEW a \in DOMAIN attempts, NEW k \in Nat,
         DOMAIN attempts' = DOMAIN attempts,
         \A x \in DOMAIN attempts : SameStart(x) /\ (x # a => attempts'[x] = attempts[x]),
         Len(attempts'[a].log) = Len(attempts[a].log) + k
  PROVE  /\ IsFiniteSet(StoredEvents')
         /\ Cardinality(StoredEvents') = Cardinality(StoredEvents) + k
         /\ \A p \in Participants :
              Cardinality(EventsOf(p)') =
                IF p = attempts[a].session THEN Cardinality(EventsOf(p)) + k
                                           ELSE Cardinality(EventsOf(p))
<1> DEFINE n == Len(attempts[a].log)
<1> PICK New : New = {a} \X ((n + 1)..(n + k))
  OBVIOUS
<1>1. n \in Nat /\ \A x \in DOMAIN attempts : Len(attempts[x].log) \in Nat
  BY DEF TypeOK, Attempt
<1>2. IsFiniteSet(New) /\ Cardinality(New) = k
  <2> DEFINE I == (n + 1)..(n + k)
  <2>1. n + 1 \in Int /\ n + k \in Int
    BY <1>1
  <2>2. IsFiniteSet(I) /\ Cardinality(I) = IF n + 1 > n + k THEN 0 ELSE (n + k) - (n + 1) + 1
    <3> HIDE DEF n
    <3> QED
      BY ONLY <2>1, FS_Interval
  <2>3. Cardinality(I) = k
    BY <1>1, <2>2
  <2>4. IsFiniteSet({a}) /\ Cardinality({a}) = 1
    BY FS_Singleton
  <2>5. IsFiniteSet({a} \X I) /\ Cardinality({a} \X I) = 1 * k
    <3> HIDE DEF I
    <3> QED
      BY <2>2, <2>3, <2>4, FS_Product
  <2> QED
    BY <2>5
<1>3. \A e : e \in New <=> \E i \in (n + 1)..(n + k) : e = <<a, i>>
  OBVIOUS
<1>4. \A e : e \in StoredEvents' <=>
               \E x \in DOMAIN attempts : \E i \in 1..Len(attempts'[x].log) : e = <<x, i>>
  BY DEF StoredEvents
<1>5. StoredEvents' = StoredEvents \cup New
  <2>1. ASSUME NEW e \in StoredEvents' PROVE e \in StoredEvents \cup New
    <3>1. PICK x \in DOMAIN attempts : \E i \in 1..Len(attempts'[x].log) : e = <<x, i>>
      BY <1>4, <2>1
    <3> PICK i \in 1..Len(attempts'[x].log) : e = <<x, i>>
      BY <3>1
    <3>2. CASE x # a \/ i <= n
      BY <3>1, <3>2, <1>1, StoredMember
    <3>3. CASE x = a /\ i > n
      BY <3>1, <3>3, <1>1, <1>3
    <3> QED
      BY <3>1, <3>2, <3>3, <1>1
  <2>2. ASSUME NEW e \in StoredEvents PROVE e \in StoredEvents'
    BY <2>2, <1>1, <1>4, StoredMember
  <2>3. ASSUME NEW e \in New PROVE e \in StoredEvents'
    BY <2>3, <1>1, <1>3, <1>4
  <2> QED
    BY <2>1, <2>2, <2>3
<1>6. StoredEvents \cap New = {}
  BY <1>1, <1>3, StoredMember
<1>7. ASSUME NEW S, S \subseteq StoredEvents
      PROVE  /\ IsFiniteSet(S) /\ IsFiniteSet(S \cup New)
             /\ Cardinality(S \cup New) = Cardinality(S) + k
  <2>1. IsFiniteSet(S) /\ S \cap New = {}
    BY <1>6, <1>7, FS_Subset
  <2>2. Cardinality(S) \in Nat /\ Cardinality(S \cap New) = 0
    BY <2>1, FS_CardinalityType, FS_EmptySet
  <2>3. /\ IsFiniteSet(S \cup New)
        /\ Cardinality(S \cup New) = Cardinality(S) + Cardinality(New) - Cardinality(S \cap New)
    BY <1>2, <2>1, FS_Union
  <2> QED
    BY <1>2, <2>1, <2>2, <2>3, SMT
<1>8. \A x \in DOMAIN attempts : attempts'[x].session = attempts[x].session
  BY DEF SameStart
<1>9. ASSUME NEW p \in Participants
      PROVE  Cardinality(EventsOf(p)') = IF p = attempts[a].session
                                         THEN Cardinality(EventsOf(p)) + k
                                         ELSE Cardinality(EventsOf(p))
  <2>1. EventsOf(p) \subseteq StoredEvents
    BY DEF EventsOf
  <2>2. \A e \in StoredEvents : e[1] \in DOMAIN attempts
    BY StoredMember
  <2>3. \A e \in New : e[1] = a
    BY <1>3
  <2>4. \A e \in StoredEvents' : attempts'[e[1]].session = attempts[e[1]].session
    <3>1. \A e \in StoredEvents' : e \in StoredEvents \/ e \in New
      BY <1>5
    <3>2. \A e \in StoredEvents' : e[1] \in DOMAIN attempts
      BY <2>2, <2>3, <3>1
    <3> QED
      BY <1>8, <3>2
  <2>5. EventsOf(p)' = {e \in StoredEvents \cup New : attempts[e[1]].session = p}
    BY <1>5, <2>4 DEF EventsOf
  <2>6. CASE p = attempts[a].session
    <3>1. EventsOf(p)' = EventsOf(p) \cup New
      BY <2>3, <2>5, <2>6 DEF EventsOf
    <3> QED
      BY <1>7, <2>1, <2>6, <3>1
  <2>7. CASE p # attempts[a].session
    <3>1. EventsOf(p)' = EventsOf(p)
      BY <2>3, <2>5, <2>7 DEF EventsOf
    <3> QED
      BY <2>7, <3>1
  <2> QED
    BY <2>6, <2>7
<1> QED
  BY <1>5, <1>7, <1>9

\* Rows that do not change.
LEMMA StoredSame ==
  ASSUME DOMAIN attempts' = DOMAIN attempts,
         \A x \in DOMAIN attempts : attempts'[x] = attempts[x]
  PROVE  StoredEvents' = StoredEvents /\ \A p : EventsOf(p)' = EventsOf(p)
<1>1. StoredEvents' = StoredEvents
  BY DEF StoredEvents
<1>2. \A e \in StoredEvents : e[1] \in DOMAIN attempts
  BY StoredMember
<1> QED
  BY <1>1, <1>2 DEF EventsOf

\* What a request to events or finish charges.
LEMMA ChargedBytes ==
  ASSUME TypeOK, TypeOK', IsFiniteSet(StoredEvents), BytesBalance,
         NEW p \in Participants, NEW a \in DOMAIN attempts, attempts[a].session = p,
         NEW batch \in Seq(Event), InSequence(attempts[a].log, batch),
         DOMAIN attempts' = DOMAIN attempts,
         \A x \in DOMAIN attempts : SameStart(x) /\ (x # a => attempts'[x] = attempts[x]),
         attempts'[a].log = Merged(attempts[a].log, batch),
         \A x \in Participants : sessions'[x].event_bytes =
           IF x = p THEN sessions[p].event_bytes + Added(a, batch)
                    ELSE sessions[x].event_bytes,
         data_bytes' = data_bytes + Added(a, batch)
  PROVE  IsFiniteSet(StoredEvents') /\ BytesBalance'
<1> PICK k \in Nat : k = Cardinality(NewSeqs(attempts[a].log, batch))
  BY AcceptedMerge, MergedStream
<1>1. attempts[a].log \in Seq(Event)
  BY AcceptedMerge
<1>2. Len(attempts'[a].log) = Len(attempts[a].log) + k
  <2>1. Len(Merged(attempts[a].log, batch)) = Len(attempts[a].log) + k
    BY <1>1, MergedStream, Zenon
  <2> QED
    BY <2>1
<1>3. /\ IsFiniteSet(StoredEvents')
      /\ Cardinality(StoredEvents') = Cardinality(StoredEvents) + k
      /\ \A x \in Participants :
           Cardinality(EventsOf(x)') =
             IF x = p THEN Cardinality(EventsOf(x)) + k ELSE Cardinality(EventsOf(x))
  BY <1>2, StreamGrows
<1>4. Added(a, batch) = EventSize * k
  BY DEF Added
<1>5. /\ EventSize \in Nat /\ SessionStorage * Cardinality(Participants) \in Nat
      /\ Cardinality(StoredEvents) \in Nat
      /\ \A x \in Participants : Cardinality(EventsOf(x)) \in Nat
  <2>1. \A x : EventsOf(x) \in SUBSET StoredEvents
    BY DEF EventsOf
  <2>2. \A x : IsFiniteSet(EventsOf(x))
    BY <2>1, FS_Subset
  <2> QED
    BY <2>2, FS_CardinalityType, NatProduct, SessionAssumption
<1>6. \A c \in Nat : EventSize * (c + k) = EventSize * c + EventSize * k
  BY <1>5, ProductSum
<1>7. ASSUME NEW x \in Participants
      PROVE  sessions'[x].event_bytes = EventSize * Cardinality(EventsOf(x)')
  <2>1. sessions[x].event_bytes = EventSize * Cardinality(EventsOf(x))
    BY DEF BytesBalance
  <2>2. CASE x = p
    <3>1. EventSize * Cardinality(EventsOf(x)') = EventSize * Cardinality(EventsOf(x)) + EventSize * k
      BY <1>3, <1>5, <1>6, <2>2
    <3> QED
      BY <1>4, <2>1, <2>2, <3>1
  <2>3. CASE x # p
    BY <1>3, <2>1, <2>3
  <2> QED
    BY <2>2, <2>3
<1>8. data_bytes' = SessionStorage * Cardinality(Participants)
                      + EventSize * Cardinality(StoredEvents')
  <2>1. EventSize * Cardinality(StoredEvents) \in Nat /\ EventSize * k \in Nat
    BY <1>5, NatProduct
  <2>2. EventSize * Cardinality(StoredEvents')
          = EventSize * Cardinality(StoredEvents) + EventSize * k
    BY <1>3, <1>5, <1>6
  <2>3. data_bytes = SessionStorage * Cardinality(Participants)
                       + EventSize * Cardinality(StoredEvents)
    BY DEF BytesBalance
  <2> QED
    BY <1>4, <1>5, <2>1, <2>2, <2>3, SMTT(30)
<1> QED
  BY <1>3, <1>7, <1>8 DEF BytesBalance

\* The byte counters are charged once for every event that is stored.
THEOREM BytesBalanced == Spec => []BytesBalance
<1> DEFINE BInv == IsFiniteSet(StoredEvents) /\ BytesBalance
<1>1. Init => BInv
  <2> SUFFICES ASSUME Init PROVE BInv
    OBVIOUS
  <2>1. StoredEvents = {} /\ \A p : EventsOf(p) = {}
    BY DEF Init, StoredEvents, EventsOf
  <2>2. SessionStorage * Cardinality(Participants) \in Nat
    BY FS_CardinalityType, NatProduct, SessionAssumption
  <2>3. EventSize * 0 = 0
    BY SessionAssumption
  <2>4. /\ \A p \in Participants : sessions[p].event_bytes = 0
        /\ data_bytes = SessionStorage * Cardinality(Participants)
    BY DEF Init
  <2>5. /\ EventSize * Cardinality(StoredEvents) = 0
        /\ \A p \in Participants : EventSize * Cardinality(EventsOf(p)) = 0
    BY <2>1, <2>3, FS_EmptySet, Zenon
  <2>6. BytesBalance
    BY <2>2, <2>4, <2>5 DEF BytesBalance
  <2> QED
    BY <2>1, <2>6, FS_EmptySet
<1>2. TypeOK /\ TypeOK' /\ BInv /\ [Next]_vars => BInv'
  <2> SUFFICES ASSUME TypeOK, TypeOK', BInv, [Next]_vars PROVE BInv'
    OBVIOUS
  <2>1. ASSUME NEW p \in Participants, NEW c \in Commands, NEW t \in 0..(TaskCount - 1),
               Start(p, c, t)
        PROVE  BInv'
    <3>1. PICK a \in AttemptIds \ DOMAIN attempts :
             /\ DOMAIN attempts' = DOMAIN attempts \cup {a}
             /\ \A x \in DOMAIN attempts : attempts'[x] = attempts[x]
             /\ attempts'[a] = [session |-> p, index |-> t, command |-> c,
                                started_at |-> now, log |-> <<>>, finish |-> Unfinished]
             /\ UNCHANGED sessions
      BY <2>1, StartEffect
    <3>2. StoredEvents' = StoredEvents
      BY <3>1 DEF StoredEvents
    <3>3. \A e \in StoredEvents : e[1] \in DOMAIN attempts
      BY StoredMember
    <3>4. \A s : EventsOf(s)' = EventsOf(s)
      BY <3>1, <3>2, <3>3 DEF EventsOf
    <3>5. data_bytes' = data_bytes
      BY <2>1 DEF Start
    <3> QED
      BY <3>1, <3>2, <3>4, <3>5 DEF BytesBalance
  <2>2. ASSUME NEW p \in Participants, NEW a \in AttemptIds, NEW batch \in Batches,
               Events(p, a, batch)
        PROVE  BInv'
    <3>1. /\ a \in DOMAIN attempts
          /\ attempts[a].session = p
          /\ DOMAIN attempts' = DOMAIN attempts
          /\ \A x \in DOMAIN attempts : SameStart(x) /\ (x # a => attempts'[x] = attempts[x])
          /\ attempts'[a].log = Merged(attempts[a].log, batch)
          /\ batch \in Seq(Event)
          /\ AcceptsCheckpoint(attempts[a].log, batch, Frozen(p, a))
      BY <2>2, EventsEffect
    <3>2. InSequence(attempts[a].log, batch)
      BY <3>1 DEF AcceptsCheckpoint, Appendable
    <3>3. /\ sessions' = [sessions EXCEPT ![p].event_bytes = @ + Added(a, batch)]
          /\ data_bytes' = data_bytes + Added(a, batch)
      BY <2>2 DEF Events
    <3>4. \A x \in Participants : sessions'[x].event_bytes =
            IF x = p THEN sessions[p].event_bytes + Added(a, batch)
                     ELSE sessions[x].event_bytes
      BY <3>3 DEF TypeOK, SessionRow
    <3> QED
      BY <3>1, <3>2, <3>3, <3>4, ChargedBytes
  <2>3. ASSUME NEW p \in Participants, NEW c \in Commands, NEW a \in AttemptIds,
               NEW q \in Submissions, Finish(p, c, a, q)
        PROVE  BInv'
    <3>1. /\ a \in DOMAIN attempts
          /\ attempts[a].session = p
          /\ q.events \in Seq(Event)
          /\ AcceptsTerminal(attempts[a].log, q.events, q.outcome, q.node)
      BY <2>3, FinishGuards
    <3>2. InSequence(attempts[a].log, q.events)
      BY <3>1 DEF AcceptsTerminal, Appendable
    <3>3. /\ DOMAIN attempts' = DOMAIN attempts
          /\ \A x \in DOMAIN attempts : SameStart(x) /\ (x # a => attempts'[x] = attempts[x])
          /\ attempts'[a].log = Merged(attempts[a].log, q.events)
      BY <2>3, FinishAttempts
    <3>4. /\ sessions' = [sessions EXCEPT
               ![p] = [index |-> sessions[p].index + 1,
                       completed |-> sessions[p].index + 1 = TaskCount,
                       event_bytes |-> @.event_bytes + Added(a, q.events)]]
          /\ data_bytes' = data_bytes + Added(a, q.events)
      BY <2>3 DEF Finish
    <3>5. \A x \in Participants : sessions'[x].event_bytes =
            IF x = p THEN sessions[p].event_bytes + Added(a, q.events)
                     ELSE sessions[x].event_bytes
      BY <3>4 DEF TypeOK
    <3> QED
      BY <3>1, <3>2, <3>3, <3>4, <3>5, ChargedBytes
  <2>4. CASE UNCHANGED <<sessions, attempts, data_bytes>>
    BY <2>4, StoredSame DEF BytesBalance
  <2> QED
    BY <2>1, <2>2, <2>3, <2>4 DEF Next, SetSuspended, Tick, vars
<1> QED
  BY <1>1, <1>2, TypeCorrect, PTL DEF Spec

\* A nonempty set of numbers up to n has a largest one.
LEMMA MaxMember ==
  ASSUME NEW n \in Nat, NEW S \in SUBSET (0..n), S # {}
  PROVE  Max(S) \in S /\ \A y \in S : Max(S) >= y
<1> DEFINE less == OpToRel(<, Nat)
           T == {y \in Nat : \A x \in S : x <= y}
<1>1. n \in T
  OBVIOUS
<1>2. \A x, y \in Nat : x < y => <<x, y>> \in less
  BY DEF OpToRel
<1>3. PICK m \in T : \A y \in T : ~(<<y, m>> \in less)
  <2> HIDE DEF less, T
  <2>1. T \subseteq Nat /\ T # {}
    BY <1>1 DEF T
  <2>2. IsWellFoundedOn(less, Nat)
    BY NatLessThanWellFounded DEF less
  <2> QED
    BY <2>1, <2>2, WFMin
<1>4. m \in S
  <2> SUFFICES ASSUME m \notin S PROVE FALSE
    OBVIOUS
  <2>0. m \in Nat /\ \A x \in S : x \in 0..n /\ x <= m /\ x # m
    OBVIOUS
  <2>1. m - 1 \in T
    <3> HIDE DEF less
    <3> PICK z \in S : TRUE
      OBVIOUS
    <3>1. m - 1 \in Nat
      BY <2>0
    <3>2. \A x \in S : x <= m - 1
      BY <2>0
    <3> QED
      BY <3>1, <3>2
  <2>2. <<m - 1, m>> \in less
    <3> HIDE DEF less
    <3>1. m - 1 \in Nat /\ m - 1 < m
      BY <2>0, <2>1
    <3> QED
      BY <1>2, <2>0, <3>1
  <2> QED
    BY <1>3, <2>1, <2>2
<1> QED
  BY <1>4 DEF Max

-----------------------------------------------------------------------------
(* Streams that can still be ended. *)

\* What appendEvents checks of every stream before it writes one.
StreamsValid == \A a \in DOMAIN attempts : ValidStream(attempts[a].log)

LEMMA StreamsValidStep == TypeOK /\ StreamsValid /\ [Next]_vars => StreamsValid'
<1> SUFFICES ASSUME TypeOK, StreamsValid, [Next]_vars PROVE StreamsValid'
  OBVIOUS
<1>1. ASSUME NEW p \in Participants, NEW c \in Commands, NEW t \in 0..(TaskCount - 1),
             Start(p, c, t)
      PROVE  StreamsValid'
  <2>1. PICK a \in AttemptIds \ DOMAIN attempts :
           /\ DOMAIN attempts' = DOMAIN attempts \cup {a}
           /\ \A x \in DOMAIN attempts : attempts'[x] = attempts[x]
           /\ attempts'[a] = [session |-> p, index |-> t, command |-> c,
                              started_at |-> now, log |-> <<>>, finish |-> Unfinished]
    BY <1>1, StartEffect
  <2>2. ValidStream(<<>>)
    BY DEF ValidStream, EpochsInOrder
  <2> QED
    BY <2>1, <2>2 DEF StreamsValid
<1>2. ASSUME NEW p \in Participants, NEW a \in AttemptIds, NEW batch \in Batches,
             Events(p, a, batch)
      PROVE  StreamsValid'
  <2>1. /\ DOMAIN attempts' = DOMAIN attempts
        /\ \A x \in DOMAIN attempts : x # a => attempts'[x] = attempts[x]
        /\ attempts'[a].log = Merged(attempts[a].log, batch)
        /\ AcceptsCheckpoint(attempts[a].log, batch, Frozen(p, a))
    BY <1>2, EventsEffect
  <2>2. ValidStream(attempts'[a].log)
    BY <2>1 DEF AcceptsCheckpoint, Appendable
  <2> QED
    BY <2>1, <2>2 DEF StreamsValid
<1>3. ASSUME NEW p \in Participants, NEW c \in Commands, NEW a \in AttemptIds,
             NEW q \in Submissions, Finish(p, c, a, q)
      PROVE  StreamsValid'
  <2>1. AcceptsTerminal(attempts[a].log, q.events, q.outcome, q.node)
    BY <1>3, FinishGuards
  <2>2. /\ DOMAIN attempts' = DOMAIN attempts
        /\ \A x \in DOMAIN attempts : x # a => attempts'[x] = attempts[x]
        /\ attempts'[a].log = Merged(attempts[a].log, q.events)
    BY <1>3, FinishAttempts
  <2>3. ValidStream(attempts'[a].log)
    BY <2>1, <2>2 DEF AcceptsTerminal, Appendable
  <2> QED
    BY <2>2, <2>3 DEF StreamsValid
<1>4. CASE UNCHANGED attempts
  BY <1>4 DEF StreamsValid
<1> QED
  BY <1>1, <1>2, <1>3, <1>4 DEF Next, SetSuspended, Tick, vars

\* There is always an event ID that a stream below the limit does not use.
LEMMA FreshEventId ==
  ASSUME NEW log \in Seq(Event), Len(log) < MaxEventsPerAttempt
  PROVE  \E x \in EventIds : \A i \in 1..Len(log) : log[i].id # x
<1> SUFFICES ASSUME \A x \in EventIds : \E i \in 1..Len(log) : log[i].id = x
             PROVE  FALSE
  OBVIOUS
<1> DEFINE I == 1..Len(log)
           ids == {log[i].id : i \in I}
           f == [i \in I |-> log[i].id]
<1>1. Len(log) \in Nat /\ IsFiniteSet(I) /\ Cardinality(I) = Len(log)
  BY FS_Interval, SMTT(30)
<1>2. f \in Surjection(I, ids)
  BY DEF Surjection
<1>3. IsFiniteSet(ids) /\ Cardinality(ids) <= Len(log)
  <2> HIDE DEF I, ids, f
  <2> QED
    BY <1>1, <1>2, FS_Surjection
<1>4. EventIds \subseteq ids
  OBVIOUS
<1>5. IsFiniteSet(EventIds) /\ Cardinality(EventIds) <= Cardinality(ids)
  <2> HIDE DEF ids
  <2> QED
    BY <1>3, <1>4, FS_Subset
<1>6. Cardinality(ids) \in Nat /\ Cardinality(EventIds) \in Nat
  <2> HIDE DEF ids
  <2> QED
    BY <1>3, <1>5, FS_CardinalityType
<1> HIDE DEF I, ids, f
<1> QED
  BY <1>1, <1>3, <1>5, <1>6, NameAssumption, LimitAssumption

\* A request of one event with the next number puts it at the end of the stream.
LEMMA MergedWithOne ==
  ASSUME NEW log \in Seq(Event), NEW e \in Event, e.seq = Len(log) + 1
  PROVE  /\ Merged(log, <<e>>) \in Seq(Event)
         /\ Len(Merged(log, <<e>>)) = Len(log) + 1
         /\ \A s \in 1..Len(log) : Merged(log, <<e>>)[s] = log[s]
         /\ Merged(log, <<e>>)[Len(log) + 1] = e
         /\ InSequence(log, <<e>>)
<1> DEFINE one == <<e>>
           n == Len(log)
<1>1. one \in Seq(Event) /\ DOMAIN one = {1} /\ one[1] = e /\ n \in Nat
  OBVIOUS
<1>2. InSequence(log, one)
  BY <1>1 DEF InSequence
<1>3. NewSeqs(log, one) = {n + 1}
  BY <1>1 DEF NewSeqs
<1>4. Cardinality(NewSeqs(log, one)) = 1
  BY <1>3, FS_Singleton
<1> HIDE DEF one
<1>5. /\ Merged(log, one) \in Seq(Event)
      /\ Len(Merged(log, one)) = n + 1
      /\ \A s \in 1..n : Merged(log, one)[s] = log[s]
      /\ \A s \in (n + 1)..(n + 1) :
           \E i \in DOMAIN one : one[i].seq = s /\ Merged(log, one)[s] = one[i]
  <2>1. /\ Merged(log, one) \in Seq(Event)
        /\ Len(Merged(log, one)) = n + Cardinality(NewSeqs(log, one))
        /\ \A s \in 1..n : Merged(log, one)[s] = log[s]
        /\ \A s \in (n + 1)..Len(Merged(log, one)) :
             \E i \in DOMAIN one : one[i].seq = s /\ Merged(log, one)[s] = one[i]
    BY <1>1, <1>2, MergedStream, Zenon
  <2>2. Len(Merged(log, one)) = n + 1
    BY <1>4, <2>1
  <2> QED
    BY <2>1, <2>2
<1>6. Merged(log, one)[n + 1] = e
  BY <1>1, <1>5
<1> QED
  BY <1>2, <1>5, <1>6 DEF one

\* Where a participant is depends on the stored events before alone.
LEMMA SameLocation ==
  ASSUME NEW log \in Seq(Event), NEW more \in Seq(Event), Len(log) <= Len(more),
         \A s \in 1..Len(log) : more[s] = log[s], NEW i \in 1..(Len(log) + 1)
  PROVE  Location(more, i) = Location(log, i)
<1> DEFINE moves(l) == {j \in 1..(i - 1) : l[j].type \in Moves}
<1>1. Len(log) \in Nat /\ i - 1 \in Nat /\ \A j \in 1..(i - 1) : j \in 1..Len(log)
  OBVIOUS
<1>2. moves(more) = moves(log)
  BY <1>1
<1>3. CASE moves(log) = {}
  BY <1>2, <1>3 DEF Location
<1>4. CASE moves(log) # {}
  <2>1. moves(log) \in SUBSET (1..(i - 1)) /\ moves(log) \in SUBSET (0..(i - 1))
    OBVIOUS
  <2>2. Max(moves(log)) \in moves(log)
    <3> HIDE DEF moves
    <3> QED
      BY <1>1, <1>4, <2>1, MaxMember
  <2>3. more[Max(moves(log))] = log[Max(moves(log))]
    BY <1>1, <2>1, <2>2
  <2>4. /\ Location(more, i) = more[Max(moves(more))].node
        /\ Location(log, i) = log[Max(moves(log))].node
    BY <1>2, <1>4 DEF Location
  <2> QED
    BY <1>2, <2>3, <2>4
<1> QED
  BY <1>3, <1>4

\* A skip that continues the last event's page is acceptable after any valid
\* stream that has no submission and is below the limit.
LEMMA SkipAccepted ==
  ASSUME NEW log \in Seq(Event), ValidStream(log), Len(log) < MaxEventsPerAttempt,
         \A i \in 1..Len(log) : log[i].type # "submit"
  PROVE  AcceptsTerminal(log, <<SkipEvent(log)>>, "skipped", Root)
<1> DEFINE n == Len(log)
<1> PICK e : e = SkipEvent(log)
  OBVIOUS
<1>1. n \in Nat /\ \A i \in 1..n : log[i] \in Event
  OBVIOUS
<1>2. /\ e.seq = n + 1 /\ e.type = "submit" /\ e.node = Root
      /\ e.visible = "yes" /\ e.outcome = "skipped"
  BY DEF SkipEvent
<1>3. n > 0 => e.epoch = log[n].epoch /\ e.elapsed = log[n].elapsed
  BY DEF SkipEvent
<1>4. e.id \in EventIds /\ \A i \in 1..n : log[i].id # e.id
  BY FreshEventId DEF SkipEvent
<1>5. e \in Event
  <2>1. e.epoch \in Epochs /\ e.elapsed \in 0..MaxElapsed
    <3>1. CASE n = 0
      <4>1. log = <<>>
        BY <3>1
      <4> QED
        BY <4>1, NameAssumption, LimitAssumption DEF SkipEvent
    <3>2. CASE n > 0
      BY <1>1, <1>3, <3>2 DEF Event
    <3> QED
      BY <1>1, <3>1, <3>2
  <2>2. e = [id |-> e.id, seq |-> n + 1, type |-> "submit", node |-> Root,
             epoch |-> e.epoch, elapsed |-> e.elapsed,
             visible |-> "yes", outcome |-> "skipped"]
    BY DEF SkipEvent
  <2> QED
    BY <1>1, <1>4, <2>1, <2>2 DEF Event, EventTypes, Outcomes
<1> DEFINE new == Merged(log, <<e>>)
<1>6. /\ new \in Seq(Event)
      /\ Len(new) = n + 1
      /\ \A s \in 1..n : new[s] = log[s]
      /\ new[n + 1] = e
      /\ InSequence(log, <<e>>)
  BY <1>2, <1>5, MergedWithOne
<1> HIDE DEF new
<1>7. Submits(<<e>>) = {Len(<<e>>)}
  BY <1>2 DEF Submits
<1>8. Agrees(new, <<e>>) /\ Len(<<e>>) <= MaxEventsPerRequest
  BY <1>2, <1>6, LimitAssumption DEF Agrees
<1>9. UniqueIds(new, n + 1)
  BY <1>1, <1>4, <1>6 DEF UniqueIds
<1>10. \A s \in (n + 1)..Len(new) : WellFormed(new[s])
  BY <1>1, <1>2, <1>5, <1>6 DEF WellFormed, NoOutcome
<1>11. Len(new) <= MaxEventsPerAttempt
  BY <1>1, <1>6, LimitAssumption
<1>12. EpochsInOrder(new)
  <2>1. \A j \in 1..n : Starts(new, j) <=> Starts(log, j)
    BY <1>1, <1>6, SMTT(30) DEF Starts
  <2>2. n > 0 => ~Starts(new, n + 1)
    BY <1>1, <1>3, <1>6 DEF Starts
  <2>3. \A i, j \in 1..(n + 1) : i < j /\ Starts(new, j) => new[i].epoch # new[j].epoch
    <3> SUFFICES ASSUME NEW i \in 1..(n + 1), NEW j \in 1..(n + 1), i < j, Starts(new, j)
                 PROVE  new[i].epoch # new[j].epoch
      OBVIOUS
    <3>1. j \in 1..n /\ i \in 1..n
      BY <1>1, <2>2
    <3> QED
      BY <1>6, <2>1, <3>1 DEF ValidStream, EpochsInOrder
  <2>4. ASSUME NEW i \in 1..(n + 1)
        PROVE  IF Starts(new, i)
               THEN new[i].visible # "absent" /\ (i > 1 => new[i].type = "resume")
               ELSE new[i].elapsed >= new[i - 1].elapsed
    <3>1. CASE i \in 1..n
      <4>1. ~Starts(log, i) => i - 1 \in 1..n
        BY <1>1, <3>1 DEF Starts
      <4> QED
        BY <1>6, <2>1, <3>1, <4>1 DEF ValidStream, EpochsInOrder
    <3>2. CASE i = n + 1 /\ n = 0
      BY <1>2, <1>6, <3>2 DEF Starts
    <3>3. CASE i = n + 1 /\ n > 0
      <4>1. log[n].elapsed \in Int
        BY <1>1, <3>3, LimitAssumption DEF Event
      <4>2. ~Starts(new, i) /\ new[i].elapsed = log[n].elapsed /\ new[i - 1] = log[n]
        BY <1>1, <1>3, <1>6, <2>2, <3>3
      <4> QED
        BY <4>1, <4>2
    <3> QED
      BY <1>1, <3>1, <3>2, <3>3
  <2> QED
    BY <1>6, <2>3, <2>4 DEF EpochsInOrder
<1>13. \A i \in 1..(n + 1) : ValidMove(new[i], i, n + 1, Location(new, i))
  <2>1. ASSUME NEW i \in 1..n
        PROVE  ValidMove(new[i], i, n + 1, Location(new, i))
    <3>1. Location(new, i) = Location(log, i)
      BY <1>1, <1>6, SameLocation
    <3>2. ValidMove(log[i], i, n, Location(log, i))
      BY DEF ValidStream
    <3> QED
      BY <1>6, <3>1, <3>2 DEF ValidMove
  <2>2. ValidMove(new[n + 1], n + 1, n + 1, Location(new, n + 1))
    BY <1>2, <1>6 DEF ValidMove
  <2> QED
    BY <1>1, <2>1, <2>2
<1>14. ValidStream(new)
  BY <1>6, <1>12, <1>13 DEF ValidStream
<1>15. Appendable(log, <<e>>, FALSE)
  BY <1>6, <1>8, <1>9, <1>10, <1>11, <1>14 DEF Appendable, new
<1>16. /\ <<e>> # <<>>
       /\ <<e>>[Len(<<e>>)] = e
  OBVIOUS
<1> QED
  BY <1>2, <1>7, <1>15, <1>16 DEF AcceptsTerminal

\* Below the limits every open attempt can be ended by a skip, whatever mixture
\* of pages, tabs and retries wrote its stream.
THEOREM AlwaysEndable == Spec => []NeverStuck
<1>1. IInv /\ StreamsValid => NeverStuck
  <2> SUFFICES ASSUME IInv, StreamsValid, NEW a \in DOMAIN attempts,
                      attempts[a].finish = Unfinished,
                      Len(attempts[a].log) < MaxEventsPerAttempt,
                      Fits(attempts[a].session, a, EventSize)
               PROVE  CanSkip(a)
    BY DEF NeverStuck
  <2>1. attempts[a].log \in Seq(Event) /\ EndsRight(attempts[a])
    BY DEF IInv, TypeOK, Attempt, FinishedStreams
  <2>2. \A i \in 1..Len(attempts[a].log) : attempts[a].log[i].type # "submit"
    BY <2>1 DEF EndsRight
  <2> QED
    BY <2>1, <2>2, SkipAccepted DEF CanSkip, StreamsValid
<1>2. Init => StreamsValid
  BY DEF Init, StreamsValid
<1>3. IInv /\ StreamsValid /\ [Next]_vars => StreamsValid'
  BY StreamsValidStep DEF IInv
<1> QED
  BY <1>1, <1>2, <1>3, Invariance, PTL DEF Spec

-----------------------------------------------------------------------------
(* Participation implements AnswerBook: every step of the server is a step *)
(* of the answer book or leaves it alone.                                  *)

\* A step that ends no attempt and moves no session changes no answer.
LEMMA AnswersFollow ==
  ASSUME TypeOK,
         DOMAIN attempts' = DOMAIN attempts,
         \A x \in DOMAIN attempts : SameStart(x) /\ attempts'[x].finish = attempts[x].finish,
         \A z \in Participants : /\ sessions'[z].index = sessions[z].index
                                 /\ (sessions'[z].completed <=> sessions[z].completed)
  PROVE  UNCHANGED Book!bookVars
<1>1. \A z, i : AttemptsAt(z, i)' = AttemptsAt(z, i)
  BY DEF AttemptsAt, SameStart
<1>2. \A z, i : AnswersAt(z, i)' = AnswersAt(z, i)
  <2> SUFFICES ASSUME NEW z, NEW i
               PROVE  AnswersAt(z, i)' = AnswersAt(z, i)
    OBVIOUS
  <2>1. AttemptsAt(z, i)' = AttemptsAt(z, i)
    BY <1>1
  <2>2. AttemptsAt(z, i) \subseteq DOMAIN attempts
    BY DEF AttemptsAt
  <2> QED
    BY <2>1, <2>2 DEF AnswersAt
<1>3. \A z \in Participants : Booked(z)' = Booked(z)
  BY <1>2 DEF Booked
<1>4. \A z \in Participants : Unanswered(z)' <=> Unanswered(z)
  BY <1>1 DEF Unanswered
<1> QED
  BY <1>3, <1>4 DEF Book!bookVars

\* The first answer book is empty.
LEMMA BookStarts == Init => Book!BookInit
<1> SUFFICES ASSUME Init PROVE Book!BookInit
  OBVIOUS
<1>1. \A p \in Participants : Booked(p) = <<>>
  BY DEF Init, Booked
<1>2. \A p \in Participants : ~Unanswered(p)
  BY DEF Init, Unanswered, AttemptsAt
<1>3. \A p \in Participants : ~sessions[p].completed
  BY DEF Init
<1> QED
  BY <1>1, <1>2, <1>3 DEF Book!BookInit

\* start shows the next task.
LEMMA StartShows ==
  ASSUME TypeOK, NEW p \in Participants, NEW c \in Commands,
         NEW t \in 0..(TaskCount - 1), Start(p, c, t)
  PROVE  Book!BookShow(p)
<1>1. PICK a \in AttemptIds \ DOMAIN attempts :
         /\ DOMAIN attempts' = DOMAIN attempts \cup {a}
         /\ \A x \in DOMAIN attempts : attempts'[x] = attempts[x]
         /\ attempts'[a] = [session |-> p, index |-> t, command |-> c,
                            started_at |-> now, log |-> <<>>, finish |-> Unfinished]
         /\ t = sessions[p].index
         /\ AttemptsAt(p, t) = {}
         /\ UNCHANGED sessions
  BY StartEffect
<1>2. ASSUME NEW z, NEW i
      PROVE  AttemptsAt(z, i)' = IF z = p /\ i = t THEN AttemptsAt(z, i) \cup {a}
                                                  ELSE AttemptsAt(z, i)
  BY <1>1 DEF AttemptsAt
<1>3. ASSUME NEW z, NEW i
      PROVE  AnswersAt(z, i)' = AnswersAt(z, i)
  <2> DEFINE ended == {x \in AttemptsAt(z, i) : attempts[x].finish # Unfinished}
  <2>1. ended' = ended
    BY <1>1, <1>2 DEF AttemptsAt
  <2>2. \A x \in ended : attempts'[x] = attempts[x]
    BY <1>1 DEF AttemptsAt
  <2> QED
    BY <2>1, <2>2 DEF AnswersAt
<1>4. \A z \in Participants : Booked(z)' = Booked(z)
  BY <1>1, <1>3 DEF Booked
<1>5. \A z \in Participants : Unanswered(z)' <=> (Unanswered(z) \/ z = p)
  BY <1>1, <1>2 DEF Unanswered
<1>6. ~Unanswered(p)
  BY <1>1 DEF Unanswered
<1>7. Len(Booked(p)) < TaskCount
  <2>1. sessions[p].index \in Nat /\ sessions[p].index < TaskCount
    BY <1>1, SessionAssumption
  <2>2. DOMAIN Booked(p) = 1..sessions[p].index
    BY DEF Booked
  <2> QED
    BY <2>1, <2>2
<1> QED
  BY <1>1, <1>4, <1>5, <1>6, <1>7 DEF Book!BookShow

\* finish answers it.
LEMMA FinishAnswers ==
  ASSUME TypeOK, TasksInOrder, NEW p \in Participants, NEW c \in Commands,
         NEW a \in AttemptIds, NEW q \in Submissions, Finish(p, c, a, q)
  PROVE  Book!BookAnswer(p, Given(q))
<1>0. PICK k \in Nat : k = sessions[p].index
  BY DEF TypeOK, SessionRow
<1>1. /\ a \in DOMAIN attempts
      /\ attempts[a].session = p
      /\ attempts[a].index = k
      /\ attempts[a].finish = Unfinished
  BY <1>0, FinishGuards
<1>2. /\ DOMAIN attempts' = DOMAIN attempts
      /\ \A x \in DOMAIN attempts : x # a => attempts'[x] = attempts[x]
      /\ attempts'[a].finish = [at |-> now, command |-> c, request |-> q]
      /\ \A x \in DOMAIN attempts : SameStart(x)
  BY FinishAttempts
<1>3. /\ \A z \in Participants : z # p => sessions'[z] = sessions[z]
      /\ sessions'[p].index = k + 1
      /\ (sessions'[p].completed <=> k + 1 = TaskCount)
  BY <1>0, FinishSessions
<1>4. ASSUME NEW z, NEW i PROVE AttemptsAt(z, i)' = AttemptsAt(z, i)
  BY <1>2 DEF AttemptsAt, SameStart
<1>5. AttemptsAt(p, k) = {a}
  BY <1>1 DEF AttemptsAt, TasksInOrder
<1>6. AttemptsAt(p, k + 1) = {}
  <2> SUFFICES ASSUME NEW x \in DOMAIN attempts, attempts[x].session = p
               PROVE  attempts[x].index # k + 1
    BY DEF AttemptsAt
  <2> QED
    BY <1>0 DEF TasksInOrder
<1>7. ASSUME NEW z, NEW i, ~(z = p /\ i = k)
      PROVE  AnswersAt(z, i)' = AnswersAt(z, i)
  <2>1. a \notin AttemptsAt(z, i)
    BY <1>1, <1>7 DEF AttemptsAt
  <2>2. \A x \in AttemptsAt(z, i) : attempts'[x] = attempts[x]
    BY <1>2, <2>1 DEF AttemptsAt
  <2> QED
    BY <1>4, <2>2 DEF AnswersAt
<1>8. AnswersAt(p, k)' = {Given(q)}
  <2>1. AttemptsAt(p, k)' = {a}
    BY <1>4, <1>5
  <2>2. attempts'[a].finish # Unfinished /\ attempts'[a].finish.request = q
    <3>1. now \in Nat
      BY DEF TypeOK
    <3> QED
      BY <1>2, <3>1, SubmissionAssumption
  <2> QED
    BY <2>1, <2>2 DEF AnswersAt, Given
<1>9. \A z \in Participants : z # p => Booked(z)' = Booked(z)
  BY <1>3, <1>7 DEF Booked
<1>10. Booked(p)' = Append(Booked(p), {Given(q)})
  <2>1. Booked(p)' = [n \in 1..(k + 1) |-> AnswersAt(p, n - 1)']
    BY <1>3 DEF Booked
  <2>2. \A n \in 1..k : AnswersAt(p, n - 1)' = AnswersAt(p, n - 1)
    BY <1>0, <1>7
  <2>3. Booked(p)' = [n \in 1..(k + 1) |-> IF n = k + 1 THEN {Given(q)} ELSE Booked(p)[n]]
    <3>1. \A n \in 1..k : Booked(p)[n] = AnswersAt(p, n - 1)
      BY <1>0 DEF Booked
    <3>2. \A n \in 1..(k + 1) :
            AnswersAt(p, n - 1)' = IF n = k + 1 THEN {Given(q)} ELSE Booked(p)[n]
      <4> SUFFICES ASSUME NEW n \in 1..(k + 1)
                   PROVE  AnswersAt(p, n - 1)' = IF n = k + 1 THEN {Given(q)} ELSE Booked(p)[n]
        OBVIOUS
      <4>1. CASE n = k + 1
        <5>1. n - 1 = k
          BY <1>0, <4>1
        <5> QED
          BY <1>8, <4>1, <5>1
      <4>2. CASE n \in 1..k
        <5>1. n # k + 1
          BY <1>0, <4>2
        <5> QED
          BY <2>2, <3>1, <4>2, <5>1
      <4> QED
        BY <1>0, <4>1, <4>2
    <3> QED
      BY <2>1, <3>2
  <2>4. Len(Booked(p)) = k
    BY <1>0 DEF Booked
  <2> QED
    BY <1>0, <2>3, <2>4
<1>11. Unanswered(p) /\ ~Unanswered(p)'
  BY <1>0, <1>3, <1>4, <1>5, <1>6 DEF Unanswered
<1>12. \A z \in Participants : z # p => (Unanswered(z)' <=> Unanswered(z))
  BY <1>3, <1>4 DEF Unanswered
<1>13. ~sessions[p].completed
  BY <1>0, <1>1 DEF TasksInOrder, TypeOK, Attempt
<1>14. Len(Booked(p)) = k
  BY <1>0 DEF Booked
<1> QED
  BY <1>0, <1>3, <1>9, <1>10, <1>11, <1>12, <1>13, <1>14 DEF Book!BookAnswer

\* Every step of the server is one of the answer book, or none.
LEMMA StepsBooked ==
  TypeOK /\ TasksInOrder /\ [Next]_vars => [Book!BookNext]_Book!bookVars
<1> SUFFICES ASSUME TypeOK, TasksInOrder, [Next]_vars
             PROVE  [Book!BookNext]_Book!bookVars
  OBVIOUS
<1>1. ASSUME NEW p \in Participants, NEW c \in Commands, NEW t \in 0..(TaskCount - 1),
             Start(p, c, t)
      PROVE  Book!BookNext
  BY <1>1, StartShows DEF Book!BookNext
<1>2. ASSUME NEW p \in Participants, NEW a \in AttemptIds, NEW batch \in Batches,
             Events(p, a, batch)
      PROVE  UNCHANGED Book!bookVars
  <2>1. /\ DOMAIN attempts' = DOMAIN attempts
        /\ \A x \in DOMAIN attempts : x # a => attempts'[x] = attempts[x]
        /\ attempts'[a].finish = attempts[a].finish
        /\ \A x \in DOMAIN attempts : SameStart(x)
        /\ \A z \in Participants : /\ sessions'[z].index = sessions[z].index
                                   /\ (sessions'[z].completed <=> sessions[z].completed)
    BY <1>2, EventsEffect
  <2>2. \A x \in DOMAIN attempts : attempts'[x].finish = attempts[x].finish
    BY <2>1
  <2> QED
    BY <2>1, <2>2, AnswersFollow
<1>3. ASSUME NEW p \in Participants, NEW c \in Commands, NEW a \in AttemptIds,
             NEW q \in Submissions, Finish(p, c, a, q)
      PROVE  Book!BookNext
  BY <1>3, FinishAnswers DEF Book!BookNext
<1>4. CASE UNCHANGED <<sessions, attempts>>
  <2>1. \A x \in DOMAIN attempts : SameStart(x) /\ attempts'[x].finish = attempts[x].finish
    BY <1>4 DEF SameStart
  <2> QED
    BY <1>4, <2>1, AnswersFollow
<1> QED
  BY <1>1, <1>2, <1>3, <1>4 DEF Next, SetSuspended, Tick, vars

\* The server implements the answer book: tasks are shown one after the other and
\* each takes one answer that stays, whatever start, events and finish are sent.
THEOREM ServerKeepsBook == Spec => AnswersBooked
<1>1. Spec => []TypeOK /\ []TasksInOrder
  BY TypeCorrect, OrderedTasks
<1> QED
  BY <1>1, BookStarts, StepsBooked, PTL DEF Spec, AnswersBooked, Book!BookSpec
=============================================================================
