----------------------------- MODULE Participation -----------------------------
(***************************************************************************)
(* The participant's side of one run: POST /start, /events and /finish     *)
(* (internal/server/participant.go) over the tables sessions, attempts,    *)
(* events and commands.                                                    *)
(*                                                                         *)
(* Every handler is one immediate SQLite transaction on the only           *)
(* connection of the process, so it is one action here.  A handler that    *)
(* fails rolls back and a handler that replays a receipt writes nothing:   *)
(* neither is a step.  Requests come from pages, retries, second tabs and  *)
(* requests the browser gave up on but the network still delivers, so any  *)
(* request of the constant sets may arrive at any time and any number of   *)
(* times.  A refusal by the rate limiter (limits.go) is a failed request.  *)
(*                                                                         *)
(* The participants are enrolled from the start (join is part of module    *)
(* RunLifecycle); of updateRun only the flag these handlers read is kept.  *)
(***************************************************************************)
EXTENDS EventStream

CONSTANTS
  Participants,      \* enrolled identities, one session each
  TaskCount,         \* tasks of a session, at most 30 (study.Validate)
  AttemptIds,        \* random attempt IDs
  Commands,          \* command IDs chosen by the clients
  Batches,           \* event lists that may be sent to /events
  Submissions,       \* [outcome, node, events] bodies that may be sent to /finish
  ReceiptLifetime,   \* receiptLifetime, 24 hours
  MaxReceipts,       \* maxCommandReceipts, 64
  EventSize,         \* bytes of a stored event
  SessionStorage,    \* bytes join charges for a session
  MaxAttemptBytes,   \* maxAttemptEventData
  MaxSessionBytes,   \* maxSessionEventData
  MaxRunBytes,       \* maxRunEventData
  MaxTime,           \* bound on the model's clock
  Unfinished,        \* attempts.finished_at is NULL
  NoAttempt          \* no attempt in a receipt or a response
(* What the code relies on about the constants. *)

ASSUME SessionAssumption ==
  /\ TaskCount \in Nat \ {0}
  /\ ReceiptLifetime \in Nat \ {0}
  /\ EventSize \in Nat /\ SessionStorage \in Nat
  /\ MaxAttemptBytes \in Nat /\ MaxSessionBytes \in Nat /\ MaxRunBytes \in Nat
  /\ IsFiniteSet(Participants)
  /\ NoAttempt \notin AttemptIds
  /\ Batches \subseteq Seq(Event)

ASSUME SubmissionAssumption ==
  /\ Submissions \subseteq [outcome: Outcomes, node: Nodes \cup {Root}, events: Seq(Event)]
  /\ Unfinished \notin [at: Nat, command: Commands, request: Submissions]

\* tasks_per_session is at most 30 (validate.go), maxCommandReceipts is 64.
ASSUME ReceiptAssumption == MaxReceipts \in Nat /\ 2 * TaskCount <= MaxReceipts

VARIABLES
  now,        \* the server's clock
  suspended,  \* runs.write_suspended
  sessions,   \* per participant: task_index, completed_at set, event_bytes
  attempts,   \* attempts with their events, by attempt ID
  commands,   \* command receipts
  data_bytes  \* runs.data_bytes

vars == <<now, suspended, sessions, attempts, commands, data_bytes>>

-----------------------------------------------------------------------------
(* Receipts. A request hash is the request itself: the public ID of the    *)
(* task (its position in the session's order) or the whole finish body.    *)

Row(p, c) == {r \in commands : r.session = p /\ r.command = c}

\* receipt: the command ID was used with a different request (409).
Misused(p, c, operation, hash) ==
  \E r \in Row(p, c) : r.operation # operation \/ r.hash # hash

\* receipt: the receipts that are replayed, at most one.
Replayable(p, c, operation, hash) ==
  {r \in Row(p, c) : /\ r.operation = operation
                     /\ r.hash = hash
                     /\ r.expires_at > now}

IsNew(p, c, operation, hash) ==
  /\ ~Misused(p, c, operation, hash)
  /\ Replayable(p, c, operation, hash) = {}

\* Mutation: the sweep also drops receipts of the last period before expiry.
SweptEarly == {r \in commands : r.expires_at > now + 1}

\* saveReceipt: what its DELETE leaves, whatever session it belongs to.
Live == {r \in commands : r.expires_at > now}

\* Mutation: the receipts of all sessions count.
CountsEveryone(p) == Cardinality(Live) < MaxReceipts

HasRoom(p) == Cardinality({r \in Live : r.session = p}) < MaxReceipts

\* Mutation: the receipt records the position after the one of its response.
SavesNext(p, c, operation, hash, index, attempt) ==
  /\ HasRoom(p)
  /\ commands' = Live \cup
       {[session |-> p, command |-> c, operation |-> operation, hash |-> hash,
         response_index |-> index + 1, attempt |-> attempt,
         expires_at |-> now + ReceiptLifetime]}

\* saveReceipt.
SaveReceipt(p, c, operation, hash, index, attempt) ==
  /\ HasRoom(p)
  /\ commands' = Live \cup
       {[session |-> p, command |-> c, operation |-> operation, hash |-> hash,
         response_index |-> index, attempt |-> attempt,
         expires_at |-> now + ReceiptLifetime]}

\* The participant's position and open attempt in a response of /start or
\* /finish: a fresh attempt, or none yet for the task just reached.
Response(index, attempt) ==
  [index |-> index, completed |-> index >= TaskCount,
   attempt |-> attempt, next_seq |-> 1, events |-> <<>>]

\* replayReceipt: the response rebuilt from a receipt.
Replay(r) == Response(r.response_index, r.attempt)

\* makeSession: the same response read from the tables.
AttemptsAt(p, i) ==
  {a \in DOMAIN attempts : attempts[a].session = p /\ attempts[a].index = i}

View(p) ==
  LET i == sessions[p].index
      open == IF i >= TaskCount THEN {} ELSE AttemptsAt(p, i)
      a == CHOOSE x \in open : TRUE
  IN  [index |-> i, completed |-> i >= TaskCount,
       attempt |-> IF open = {} THEN NoAttempt ELSE a,
       next_seq |-> IF open = {} THEN 1 ELSE Len(attempts[a].log) + 1,
       events |-> IF open = {} THEN <<>> ELSE attempts[a].log]

-----------------------------------------------------------------------------
Init ==
  /\ now = 0
  /\ suspended = FALSE
  /\ sessions = [p \in Participants |->
                   [index |-> 0, completed |-> FALSE, event_bytes |-> 0]]
  /\ attempts = [a \in {} |-> {}]
  /\ commands = {}
  /\ data_bytes = SessionStorage * Cardinality(Participants)

\* Mutation: start does not look for an attempt that exists already.
IgnoresAttempts(p) == TRUE

\* start: the current task has no attempt yet.
NotStarted(p) == AttemptsAt(p, sessions[p].index) = {}

\* start: the session is not complete and t is its current public task.
IsCurrent(p, t) == sessions[p].index < TaskCount /\ t = sessions[p].index

\* POST /start with command c for the public task t.
Start(p, c, t) ==
  /\ ~suspended
  /\ IsNew(p, c, "start", t)
  /\ IsCurrent(p, t)
  /\ NotStarted(p)
  /\ \E a \in AttemptIds \ DOMAIN attempts :
       /\ attempts' = [x \in DOMAIN attempts \cup {a} |->
            IF x = a
            THEN [session |-> p, index |-> sessions[p].index, command |-> c,
                  started_at |-> now, log |-> <<>>, finish |-> Unfinished]
            ELSE attempts[x]]
       /\ SaveReceipt(p, c, "start", t, sessions[p].index, a)
  /\ UNCHANGED <<now, suspended, sessions, data_bytes>>

\* Mutation: a finished attempt goes on taking events.
NeverFrozen(p, a) == FALSE

\* appendEvents: the attempt is finished or no longer the current one.
Frozen(p, a) == attempts[a].finish # Unfinished \/ attempts[a].index # sessions[p].index

\* loadAttempt: the attempt belongs to the session of the cookie.
Owns(p, a) == a \in DOMAIN attempts /\ attempts[a].session = p

\* appendEvents: the byte budgets of attempt, session and run.
Fits(p, a, added) ==
  /\ EventSize * Len(attempts[a].log) + added <= MaxAttemptBytes
  /\ SessionStorage + sessions[p].event_bytes + added <= MaxSessionBytes
  /\ data_bytes + added <= MaxRunBytes

\* Mutation: events that are sent again are counted again.
CountsDuplicates(a, batch) == EventSize * Len(batch)

\* appendEvents: addedBytes, the bytes of the events that are new.
Added(a, batch) == EventSize * Cardinality(NewSeqs(attempts[a].log, batch))

\* POST /events. attempts.next_seq is Len(log) + 1 throughout.
Events(p, a, batch) ==
  /\ ~suspended
  /\ Owns(p, a)
  /\ AcceptsCheckpoint(attempts[a].log, batch, Frozen(p, a))
  /\ Fits(p, a, Added(a, batch))
  /\ attempts' = [attempts EXCEPT ![a].log = Merged(attempts[a].log, batch)]
  /\ sessions' = [sessions EXCEPT ![p].event_bytes = @ + Added(a, batch)]
  /\ data_bytes' = data_bytes + Added(a, batch)
  /\ UNCHANGED <<now, suspended, commands>>

\* Mutation: finish takes the node of the request without looking at the stream.
TrustsNode(log, q) ==
  IF q.outcome = "selected" THEN q.node \in Selectable ELSE q.node = Root

\* finish: a selected outcome names the selectable node chosen in the stream.
ChoiceHolds(log, q) ==
  IF q.outcome = "selected" THEN q.node \in Selectable /\ Chosen(log, q.node)
                            ELSE q.node = Root

\* POST /finish with command c and body q for attempt a.
Finish(p, c, a, q) ==
  /\ ~suspended
  /\ q.outcome \in Outcomes
  /\ IsNew(p, c, "finish", <<a, q>>)
  /\ Owns(p, a)
  /\ ~Frozen(p, a)
  /\ AcceptsTerminal(attempts[a].log, q.events, q.outcome, q.node)
  /\ Fits(p, a, Added(a, q.events))
  /\ LET log == Merged(attempts[a].log, q.events)
         next == sessions[p].index + 1
     IN  /\ ChoiceHolds(log, q)
         /\ attempts' = [attempts EXCEPT
              ![a].log = log,
              ![a].finish = [at |-> now, command |-> c, request |-> q]]
         /\ sessions' = [sessions EXCEPT
              ![p] = [index |-> next, completed |-> next = TaskCount,
                      event_bytes |-> @.event_bytes + Added(a, q.events)]]
         /\ SaveReceipt(p, c, "finish", <<a, q>>, next, NoAttempt)
  /\ data_bytes' = data_bytes + Added(a, q.events)
  /\ UNCHANGED <<now, suspended>>

\* updateRun, as far as these handlers can tell: "suspended" sets the flag,
\* any other status clears it.
SetSuspended(flag) ==
  /\ flag # suspended
  /\ suspended' = flag
  /\ UNCHANGED <<now, sessions, attempts, commands, data_bytes>>

Tick ==
  /\ now < MaxTime
  /\ now' = now + 1
  /\ UNCHANGED <<suspended, sessions, attempts, commands, data_bytes>>

Next ==
  \/ \E p \in Participants, c \in Commands, t \in 0..(TaskCount - 1) : Start(p, c, t)
  \/ \E p \in Participants, a \in AttemptIds, batch \in Batches : Events(p, a, batch)
  \/ \E p \in Participants, c \in Commands, a \in AttemptIds, q \in Submissions :
       Finish(p, c, a, q)
  \/ \E flag \in BOOLEAN : SetSuspended(flag)
  \/ Tick

Spec == Init /\ [][Next]_vars
-----------------------------------------------------------------------------
(* Properties. *)

Receipt ==
  [session: Participants, command: Commands, operation: {"start"},
   hash: 0..(TaskCount - 1), response_index: 0..TaskCount,
   attempt: AttemptIds, expires_at: Nat]
  \cup
  [session: Participants, command: Commands, operation: {"finish"},
   hash: AttemptIds \X Submissions, response_index: 0..TaskCount,
   attempt: {NoAttempt}, expires_at: Nat]

Attempt ==
  [session: Participants, index: 0..(TaskCount - 1), command: Commands,
   started_at: Nat, log: Seq(Event),
   finish: {Unfinished} \cup [at: Nat, command: Commands, request: Submissions]]

SessionRow == [index: 0..TaskCount, completed: BOOLEAN, event_bytes: Nat]

\* Every table holds rows of its schema (db.go).
TypeOK ==
  /\ now \in Nat
  /\ suspended \in BOOLEAN
  /\ sessions \in [Participants -> SessionRow]
  /\ DOMAIN attempts \subseteq AttemptIds
  /\ attempts \in [DOMAIN attempts -> Attempt]
  /\ commands \subseteq Receipt
  /\ data_bytes \in Nat

\* One attempt per task, taken in the session's order: the tasks before
\* task_index are exactly the finished attempts, the open attempt is the one at
\* task_index, and a session is complete when it is past its last task.  start
\* and finish keep this however often, late or out of order they arrive.
TasksInOrder ==
  /\ \A a, b \in DOMAIN attempts :
       attempts[a].session = attempts[b].session /\ attempts[a].index = attempts[b].index
         => a = b
  /\ \A a \in DOMAIN attempts :
       LET i == sessions[attempts[a].session].index
       IN  /\ attempts[a].index <= i
           /\ attempts[a].finish # Unfinished <=> attempts[a].index < i
  /\ \A p \in Participants :
       /\ \A i \in 0..(sessions[p].index - 1) : AttemptsAt(p, i) # {}
       /\ sessions[p].completed <=> sessions[p].index = TaskCount

\* The stream of an attempt ends as the attempt says.
EndsRight(x) ==
  /\ \A i \in 1..Len(x.log) :
       /\ x.log[i].seq = i
       /\ x.log[i].type = "submit" => i = Len(x.log) /\ x.finish # Unfinished
  /\ x.finish # Unfinished =>
       /\ x.log # <<>>
       /\ x.log[Len(x.log)].type = "submit"
       /\ x.log[Len(x.log)].outcome = x.finish.request.outcome
       /\ x.log[Len(x.log)].node = x.finish.request.node
       /\ x.finish.request.outcome = "selected" => Chosen(x.log, x.finish.request.node)

\* A stored stream is numbered without gaps and holds a submit event exactly
\* when its attempt is finished: as its last event, with the outcome and node the
\* attempt records, which for a selection is the node still chosen in the stream
\* (appendEvents, finish).
FinishedStreams == \A a \in DOMAIN attempts : EndsRight(attempts[a])

\* API.md: "Repeated commands return the original response, even after
\* advancing" and "command receipts expire after 24 hours".  For that long, a
\* start or finish that took effect is answered from its receipt, with the
\* response it got, whatever was done in between by any session.
RetryWindow ==
  \A a \in DOMAIN attempts :
    LET p == attempts[a].session
        i == attempts[a].index
        end == attempts[a].finish
    IN  /\ now < attempts[a].started_at + ReceiptLifetime =>
             /\ ~Misused(p, attempts[a].command, "start", i)
             /\ {Replay(r) : r \in Replayable(p, attempts[a].command, "start", i)}
                  = {Response(i, a)}
        /\ end # Unfinished /\ now < end.at + ReceiptLifetime =>
             /\ ~Misused(p, end.command, "finish", <<a, end.request>>)
             /\ {Replay(r) : r \in Replayable(p, end.command, "finish", <<a, end.request>>)}
                  = {Response(i + 1, NoAttempt)}

\* A receipt can always be turned into a response: the attempt replayReceipt
\* looks up exists, belongs to the session, and is the one of that position; a
\* position reached by a finish is one the session has reached.
ReceiptsReconstruct ==
  \A r \in commands :
    /\ r.response_index <= sessions[r.session].index
    /\ r.attempt # NoAttempt =>
         /\ r.attempt \in DOMAIN attempts
         /\ attempts[r.attempt].session = r.session
         /\ attempts[r.attempt].index = r.response_index

\* The receipt limit never refuses a participant who still has tasks to do
\* (saveReceipt): a session leaves at most one receipt per start and finish.
ReceiptRoom ==
  \A p \in Participants : sessions[p].index < TaskCount => HasRoom(p)

\* The rows of table events, by attempt and position.
StoredEvents == UNION {{a} \X (1..Len(attempts[a].log)) : a \in DOMAIN attempts}

EventsOf(p) == {e \in StoredEvents : attempts[e[1]].session = p}

\* The byte counters charge every stored event once, however often it was sent:
\* sessions.event_bytes those of the session, runs.data_bytes those of the run
\* and every session that joined (appendEvents, join).
BytesBalance ==
  /\ \A p \in Participants :
       sessions[p].event_bytes = EventSize * Cardinality(EventsOf(p))
  /\ data_bytes = SessionStorage * Cardinality(Participants) + EventSize * Cardinality(StoredEvents)

\* The skip a participant could send at this point of a stream.
SkipEvent(log) ==
  [id |-> CHOOSE x \in EventIds : \A i \in 1..Len(log) : log[i].id # x,
   seq |-> Len(log) + 1, type |-> "submit", node |-> Root,
   epoch |-> IF log = <<>> THEN CHOOSE x \in Epochs : TRUE ELSE log[Len(log)].epoch,
   elapsed |-> IF log = <<>> THEN 0 ELSE log[Len(log)].elapsed,
   visible |-> "yes", outcome |-> "skipped"]

CanSkip(a) ==
  /\ AcceptsTerminal(attempts[a].log, <<SkipEvent(attempts[a].log)>>, "skipped", Root)
  /\ Fits(attempts[a].session, a, EventSize)

\* No mixture of pages, tabs and retries leaves a stream that cannot be ended:
\* below the limits a skip is acceptable in every open attempt (appendEvents
\* re-validates the whole stream, so a bad prefix would lock the session).
NeverStuck ==
  \A a \in DOMAIN attempts :
    /\ attempts[a].finish = Unfinished
    /\ Len(attempts[a].log) < MaxEventsPerAttempt
    /\ Fits(attempts[a].session, a, EventSize)
    => CanSkip(a)

\* README: "Participants can give up or mark a task as not understood" -- taken
\* without the proviso on the limits.
CanAlwaysSkip ==
  \A a \in DOMAIN attempts : attempts[a].finish = Unfinished => CanSkip(a)

\* What was acknowledged stays: a stream only grows, an attempt never
\* disappears, and a finished one never changes again (events, finish).
AcknowledgedStays ==
  [][\A a \in DOMAIN attempts :
       /\ a \in DOMAIN attempts'
       /\ \A i \in 1..Len(attempts[a].log) :
            i <= Len(attempts'[a].log) /\ attempts'[a].log[i] = attempts[a].log[i]
       /\ attempts[a].finish # Unfinished => attempts'[a] = attempts[a]]_vars

\* A new receipt replays to the response the handler gives in the same step, the
\* one makeSession reads from the tables (start, finish).
OriginalSaved ==
  [][\A r \in commands' \ commands : Replay(r) = View(r.session)']_vars
-----------------------------------------------------------------------------
(* The abstract specification that start, events and finish implement. *)

Given(q) == <<q.outcome, q.node>>

\* The answers on record for task i of a session.
AnswersAt(p, i) ==
  {Given(attempts[a].finish.request) :
     a \in {x \in AttemptsAt(p, i) : attempts[x].finish # Unfinished}}

Booked(p) == [n \in 1..sessions[p].index |-> AnswersAt(p, n - 1)]

\* The current task has an attempt.
Unanswered(p) == AttemptsAt(p, sessions[p].index) # {}

Book == INSTANCE AnswerBook WITH
  People <- Participants,
  Tasks <- TaskCount,
  Answers <- {Given(q) : q \in Submissions},
  book <- [p \in Participants |-> Booked(p)],
  shown <- {p \in Participants : Unanswered(p)},
  complete <- {p \in Participants : sessions[p].completed}

\* README.md: "Reloads resume the same tree, tasks and order" and "final
\* submissions are retry-safe".  Whatever is retried, delayed, reordered or sent
\* from a second tab, the tables show each task after the answer to the one before
\* it, take one answer and keep it (start, events, finish).
AnswersBooked == Book!BookSpec
-----------------------------------------------------------------------------
(* The inductive invariant behind the properties above. *)

\* The primary key of commands.
OneRowPerCommand ==
  \A r, s \in commands : r.session = s.session /\ r.command = s.command => r = s

\* A receipt of start names the attempt that its command created.
StartRows ==
  \A r \in commands : r.operation = "start" =>
    /\ r.attempt \in DOMAIN attempts
    /\ LET a == attempts[r.attempt]
       IN  /\ a.session = r.session
           /\ a.command = r.command
           /\ a.index = r.hash
           /\ a.index = r.response_index
           /\ r.expires_at = a.started_at + ReceiptLifetime

\* A receipt of finish belongs to the attempt that its command finished.
FinishRows ==
  \A r \in commands : r.operation = "finish" =>
    /\ r.hash[1] \in DOMAIN attempts
    /\ LET a == attempts[r.hash[1]]
       IN  /\ a.session = r.session
           /\ a.finish # Unfinished
           /\ a.finish.command = r.command
           /\ a.finish.request = r.hash[2]
           /\ a.index + 1 = r.response_index
           /\ r.expires_at = a.finish.at + ReceiptLifetime

\* No receipt is swept before its time.
WindowCovered ==
  \A a \in DOMAIN attempts :
    /\ now < attempts[a].started_at + ReceiptLifetime =>
         \E r \in commands : r.operation = "start" /\ r.attempt = a
    /\ attempts[a].finish # Unfinished /\ now < attempts[a].finish.at + ReceiptLifetime =>
         \E r \in commands : r.operation = "finish" /\ r.hash[1] = a

\* The receipts and the attempts tell the same story.
ReceiptsTrack ==
  OneRowPerCommand /\ StartRows /\ FinishRows /\ WindowCovered

IInv == TypeOK /\ TasksInOrder /\ FinishedStreams /\ ReceiptsTrack
=============================================================================
