--------------------------- MODULE ParticipantClient ---------------------------
(***************************************************************************)
(* The participant's pages (web/assets/participant.js, core.mjs) and the   *)
(* server of module Participation, joined by a network that delays, loses  *)
(* and repeats requests and loses answers.                                 *)
(*                                                                         *)
(* A page keeps its state in memory and mirrors the variable saved to the  *)
(* journal in localStorage, which survives reloads and is shared by the    *)
(* tabs.  JavaScript runs to the next await without interruption, so the   *)
(* code between two awaits is one action; the page's async functions       *)
(* become the field doing, and the call they await the fields call and     *)
(* reply.  A page never awaits two calls: finish waits for a checkpoint in *)
(* flight before it sends anything.                                        *)
(*                                                                         *)
(* Data abstraction: a random ID is made of what it has to tell apart (the *)
(* page's epoch, the task, the sequence number), so it is fresh whenever   *)
(* the code draws one; elapsed_ms stays 0, which is monotonic.  The        *)
(* participant is enrolled already (join is in module RunLifecycle).       *)
(***************************************************************************)
EXTENDS Participation

CONSTANTS
  Pages,        \* browser tabs of the participant
  None,         \* no command, call, reply or selection
  Lossy,        \* tabs on a connection that loses requests and answers
  MaxLoads,     \* bound on the page loads nobody asked for
  Clicks,       \* what the participant does while browsing, and the last sequence
                \* number at which
  Answers       \* the outcomes the participant confirms

ASSUME ClientAssumption ==
  /\ Cardinality(Participants) = 1
  /\ IsFiniteSet(Nodes)
  /\ Lossy \subseteq Pages
  /\ DOMAIN Clicks \subseteq
       {"select", "back", "root", "visibility_hidden", "visibility_visible"}
  /\ Answers \subseteq Outcomes
  /\ MaxLoads \in Nat

VARIABLES
  journal,    \* localStorage: the value of saved persisted last
  pages,      \* per tab: the variables of participant.js
  sent,       \* requests the network may still deliver, again too
  loads,      \* pages loaded so far, the source of epochs
  confirmed   \* history: the answers confirmed, with what their page showed

server == <<now, suspended, sessions, attempts, commands, data_bytes>>
client == <<journal, pages, sent, loads, confirmed>>
all == <<server, client>>

Me == CHOOSE p \in Participants : TRUE

-----------------------------------------------------------------------------
(* The journal and the events of a page. *)

\* nextSeq of a journal without an attempt: undefined in the page, and 0 once a
\* request with it is decoded.
NoSeq == 0

\* saved = {sessionId, events: []}
EmptyJournal ==
  [attempt |-> NoAttempt, next |-> NoSeq, events |-> <<>>, start |-> None, finish |-> None]

NewPage ==
  [doing |-> "closed", epoch |-> 0, saved |-> EmptyJournal, index |-> 0,
   completed |-> FALSE, attempt |-> NoAttempt, stream |-> <<>>, here |-> Root,
   selected |-> None, active |-> FALSE, blocked |-> FALSE,
   call |-> None, reply |-> None, news |-> {}]

\* eventStamp: drawn by the page that confirms, sent by whichever page retries.
Stamp(page, n) == [id |-> <<page.epoch, n>>, epoch |-> page.epoch]

\* makeEvent
MakeEvent(stamp, seq, type, node, outcome) ==
  [id |-> stamp.id, seq |-> seq, type |-> type, node |-> node, epoch |-> stamp.epoch,
   elapsed |-> 0, visible |-> IF type = "visibility_hidden" THEN "no" ELSE "yes",
   outcome |-> outcome]

\* record, once per entry of what: nothing while inactive, blocked or frozen.
Recorded(page, what) ==
  LET next == page.saved.next
      new == [i \in 1..Len(what) |->
                MakeEvent(Stamp(page, next + i - 1), next + i - 1,
                          what[i].type, what[i].node, NoOutcome)]
  IN  IF ~page.active \/ page.blocked \/ page.saved.finish # None THEN page
      ELSE [page EXCEPT !.saved.events = @ \o new, !.saved.next = @ + Len(what),
                        !.stream = @ \o new]

\* Mutation: whatever the server has is taken as acknowledged.
TrustsServer(events, next) == TRUE

\* ackEvents: an acknowledgement beyond what was sent is somebody else's.
Acknowledgeable(events, next) ==
  events # <<>> => next <= events[Len(events)].seq + 1

\* ackEvents: the events from number next on.  A page keeps its events in the order
\* of their numbers, so the others are the first ones.
AckEvents(events, next) ==
  SubSeq(events, 1 + Cardinality({i \in DOMAIN events : events[i].seq < next}), Len(events))

\* Mutation: an event that the server has already is a conflict.
NoDuplicates(stored, pending, next) == \A i \in DOMAIN pending : pending[i].seq = next + i - 1

\* reconcileEvents: whether the two streams are one.
Reconcilable(stored, pending, next) ==
  LET rest == AckEvents(pending, next)
  IN  /\ \A i \in DOMAIN pending, j \in DOMAIN stored :
           pending[i].seq = stored[j].seq \/ pending[i].id = stored[j].id
             => pending[i] = stored[j]
      /\ \A i \in DOMAIN pending : pending[i].seq < next
             => \E j \in DOMAIN stored : stored[j].seq = pending[i].seq
      /\ \A i \in DOMAIN rest : rest[i].seq = next + i - 1

\* reconcileEvents: the events still pending.
Reconciled(pending, next) == AckEvents(pending, next)

\* replayNavigation
Here(log) == Location(log, Len(log) + 1)
Selection(log) ==
  LET picks == {i \in DOMAIN log : log[i].type = "select" /\ Chosen(log, log[i].node)}
  IN  IF picks = {} THEN None ELSE log[Max(picks)].node

\* indexTree: the nodes from the top of the tree down to n.
Path(n) ==
  LET up == {x \in Nodes : n # Root /\ (x = n \/ x \in Ancestors[n])}
  IN  [k \in 1..Cardinality(up) |-> CHOOSE x \in up : Cardinality(Ancestors[x]) = k - 1]

\* moveTo without a type: back to the common ancestor, then down.
Route(from, to) ==
  LET a == Path(from)
      b == Path(to)
      common == Max({k \in 0..Len(a) : k <= Len(b) /\ \A i \in 1..k : a[i] = b[i]})
      turn == IF common = 0 THEN Root ELSE a[common]
  IN  (IF common < Len(a) THEN <<[type |-> "back", node |-> turn]>> ELSE <<>>)
        \o [i \in 1..(Len(b) - common) |-> [type |-> "enter", node |-> b[common + i]]]

-----------------------------------------------------------------------------
(* Values of the page's variables. *)

\* The node IDs that a page can record.
Places == Nodes \cup {Root} \cup UNION {{Path(n)[k] : k \in DOMAIN Path(n)} : n \in Nodes}

PageEvent ==
  [id: EventIds \cup (Nat \X Nat), seq: Nat, type: EventTypes, node: Places,
   epoch: Epochs \cup Nat, elapsed: 0..MaxElapsed, visible: {"yes", "no", "absent"},
   outcome: Outcomes \cup {NoOutcome}]

CommandId == {"start", "finish"} \X Nat \X Nat

StartCommand ==
  [command: CommandId, task: Nat, skip: {FALSE}, stamp: {None}]
  \cup [command: CommandId, task: Nat, skip: {TRUE}, stamp: [id: Nat \X Nat, epoch: Nat]]

FinishCommand ==
  [attempt: AttemptIds, outcome: Outcomes, node: Places, events: Seq(PageEvent),
   command: CommandId]

FinishBody(Place, Entry) == [outcome: Outcomes, node: Place, events: Seq(Entry)]

Request ==
  [kind: {"start"}, command: CommandId, task: Nat]
  \cup [kind: {"events"}, attempt: AttemptIds, events: Seq(PageEvent)]
  \cup [kind: {"finish"}, command: CommandId, attempt: AttemptIds,
        body: FinishBody(Places, PageEvent)]

-----------------------------------------------------------------------------
(* Requests and answers. *)

StartRequest(c) == [kind |-> "start", command |-> c.command, task |-> c.task]
EventsRequest(a, batch) == [kind |-> "events", attempt |-> a, events |-> batch]
FinishRequest(c) ==
  [kind |-> "finish", command |-> c.command, attempt |-> c.attempt,
   body |-> [outcome |-> c.outcome, node |-> c.node, events |-> c.events]]
SessionRequest == [kind |-> "session"]

\* null and undefined are no commands and no calls.
ASSUME NoneAssumption ==
  /\ None \notin StartCommand \cup FinishCommand \cup Request \cup {SessionRequest}
  /\ Unfinished \notin
       [at: Nat, command: CommandId, request: FinishBody(Nodes \cup {Root}, Event)]

Ok(value) == [status |-> "ok", value |-> value]
Conflict == [status |-> "conflict", value |-> None]
Failure == [status |-> "error", value |-> None]

\* The handler of a request that takes effect.
Served(m) ==
  \/ m.kind = "start" /\ Start(Me, m.command, m.task)
  \/ m.kind = "events" /\ Events(Me, m.attempt, m.events)
  \/ m.kind = "finish" /\ Finish(Me, m.command, m.attempt, m.body)

\* A refusal of appendEvents with status 409; an event without a sequence number
\* is refused before, with 422. Not among them are an epoch that comes back, a clock
\* that goes back and a location that is not the current one: they are answered as
\* other refusals, and no request of a page meets them.
Contradicts(a, events) ==
  LET log == attempts[a].log
  IN  /\ \A i \in DOMAIN events : events[i].seq # NoSeq
      /\ \/ ~InSequence(log, events)
         \/ ~Agrees(Merged(log, events), events)
         \/ Frozen(Me, a) /\ NewSeqs(log, events) # {}
         \/ ~UniqueIds(Merged(log, events), Len(log) + 1)

\* The answer to a request that changes nothing: a replayed receipt or a refusal.
Answer(m) ==
  LET hash == IF m.kind = "start" THEN m.task ELSE <<m.attempt, m.body>>
  IN  IF suspended THEN Failure
      ELSE IF m.kind = "events"
      THEN IF Owns(Me, m.attempt) /\ Contradicts(m.attempt, m.events)
           THEN Conflict ELSE Failure
      ELSE IF Misused(Me, m.command, m.kind, hash) THEN Conflict
      ELSE IF Replayable(Me, m.command, m.kind, hash) # {}
      THEN Ok(Replay(CHOOSE r \in Replayable(Me, m.command, m.kind, hash) : TRUE))
      ELSE IF m.kind = "start"
      THEN IF IsCurrent(Me, m.task) /\ NotStarted(Me) THEN Failure ELSE Conflict
      ELSE IF Owns(Me, m.attempt)
              /\ (Frozen(Me, m.attempt) \/ Contradicts(m.attempt, m.body.events))
           THEN Conflict ELSE Failure

\* The body of a successful answer, read after the handler.
Body(m) ==
  IF m.kind = "events" THEN [next_seq |-> Len(attempts[m.attempt].log) + 1] ELSE View(Me)

\* Tabs whose call this request may be, and that have no answer yet.
Waiting(m) == {t \in Pages : pages[t].call = m /\ pages[t].reply = None}

\* The server handles a request; the answer reaches who, or nobody.
Deliver(m, who) ==
  /\ \/ Served(m) /\ pages' = [t \in Pages |->
          IF t \in who THEN [pages[t] EXCEPT !.reply = Ok(Body(m)')] ELSE pages[t]]
     \/ /\ ~ENABLED Served(m)
        /\ who # {}
        /\ pages' = [t \in Pages |->
             IF t \in who THEN [pages[t] EXCEPT !.reply = Answer(m)] ELSE pages[t]]
        /\ UNCHANGED server
  /\ UNCHANGED <<journal, sent, loads, confirmed>>

\* GET /session
ReadSession(t) ==
  /\ pages[t].call = SessionRequest
  /\ pages[t].reply = None
  /\ pages' = [pages EXCEPT ![t].reply = Ok(View(Me))]
  /\ UNCHANGED <<server, journal, sent, loads, confirmed>>

\* api: the request or its answer is lost, the 20 seconds are over, or the rate
\* limiter refused it. The request may still arrive.
Lose(t) ==
  /\ t \in Lossy
  /\ pages[t].call # None
  /\ pages[t].reply = None
  /\ pages' = [pages EXCEPT ![t].reply = Failure]
  /\ UNCHANGED <<server, journal, sent, loads, confirmed>>

-----------------------------------------------------------------------------
(* How a page's step ends: its call is on its way and, if it persisted,    *)
(* the journal is written and the other tabs will hear of it.              *)

Sending(page) == IF page.call \in {None, SessionRequest} THEN {} ELSE {page.call}

Step(t, page) ==
  /\ pages' = [pages EXCEPT ![t] = page]
  /\ sent' = sent \cup Sending(page)
  /\ UNCHANGED <<server, journal, loads>>

\* persist
Persist(t, page) ==
  /\ journal' = page.saved
  /\ pages' = [u \in Pages |->
       IF u = t THEN page
       ELSE IF page.saved = journal \/ pages[u].doing = "closed" \/ pages[u].blocked \/ pages[u].completed THEN pages[u]
       ELSE [pages[u] EXCEPT !.news = @ \cup {page.saved}]]
  /\ sent' = sent \cup Sending(page)
  /\ UNCHANGED <<server, loads>>

Idle(page) == [page EXCEPT !.doing = "idle", !.call = None, !.reply = None]

\* showError with a conflict: nothing more until the participant reloads.
Blocked(page) == [Idle(page) EXCEPT !.blocked = TRUE, !.active = FALSE, !.news = {}]

Calling(page, doing, m) == [page EXCEPT !.doing = doing, !.call = m, !.reply = None]

\* The first maxEventBatch events that a checkpoint may carry: all but a submit event,
\* which is the last.
Batch(events) ==
  LET open == Len(events) - Cardinality(Submits(events))
  IN  SubSeq(events, 1, IF open < MaxEventsPerRequest THEN open ELSE MaxEventsPerRequest)

\* flush: the next checkpoint, if there is one.
Flushing(page) ==
  IF page.active /\ ~page.blocked /\ page.saved.finish = None /\ Batch(page.saved.events) # <<>>
  THEN Calling(page, "flushing", EventsRequest(page.saved.attempt, Batch(page.saved.events)))
  ELSE Idle(page)

\* Mutation: the frozen command is sent without its prefix.
FinishAtOnce(page) == Calling(page, "finishing", FinishRequest(page.saved.finish))

\* sendFinish: the outbox before the frozen tail first, then the command.
SendFinish(page) ==
  LET c == page.saved.finish
  IN  IF page.blocked THEN Blocked(page)
      ELSE IF \E i \in DOMAIN page.saved.events : page.saved.events[i].seq < c.events[1].seq
      THEN Calling(page, "draining", EventsRequest(c.attempt, Batch(page.saved.events)))
      ELSE Calling(page, "finishing", FinishRequest(c))

-----------------------------------------------------------------------------
(* acceptSession *)

Pending(page, v) == IF page.saved.attempt = v.attempt THEN page.saved.events ELSE <<>>

\* acceptSession or reconcileEvents throws.
Unacceptable(page, v) ==
  /\ v.attempt # NoAttempt
  /\ \/ page.saved.attempt \notin {NoAttempt, v.attempt} /\ page.saved.events # <<>>
     \/ ~Reconcilable(v.events, Pending(page, v), v.next_seq)

\* The session is taken over, the page still inactive.
Shown(page, v) ==
  [page EXCEPT !.index = v.index, !.completed = v.completed, !.attempt = v.attempt,
               !.stream = <<>>, !.here = Root, !.selected = None, !.active = FALSE]

\* acceptSession up to its last lines.
Restored(page, v, skipTree) ==
  LET rest == Reconciled(Pending(page, v), v.next_seq)
      log == v.events \o rest
      new == [Shown(page, v) EXCEPT
                !.saved = [attempt |-> v.attempt, next |-> v.next_seq + Len(rest),
                           events |-> rest, finish |-> None,
                           start |-> IF skipTree THEN page.saved.start ELSE None],
                !.stream = log, !.here = Here(log), !.selected = Selection(log),
                !.active = ~skipTree]
  IN  IF v.attempt = NoAttempt THEN [Shown(page, v) EXCEPT !.saved = EmptyJournal] ELSE new

\* acceptSession: the first view of the tree, or the return to it.
Entered(page, resuming) ==
  IF page.attempt = NoAttempt THEN page
  ELSE IF \A i \in DOMAIN page.stream : page.stream[i].type # "tree_shown"
  THEN Recorded(page, <<[type |-> "tree_shown", node |-> Root]>>)
  ELSE IF resuming THEN Recorded(page, <<[type |-> "resume", node |-> page.here]>>)
  ELSE page

\* start: the call, with a durable command.
Starting(page, skip) ==
  LET c == [command |-> <<"start", page.epoch, page.index>>, task |-> page.index,
            skip |-> skip, stamp |-> IF skip THEN Stamp(page, 0) ELSE None]
      new == IF page.saved.start = None THEN [page EXCEPT !.saved.start = c] ELSE page
  IN  Calling(new, "starting", StartRequest(new.saved.start))

\* Mutation: the start command is kept beside the frozen finish command.
KeepsStart(page, outcome, node, stamp) ==
  LET submit == MakeEvent(stamp, page.saved.next, "submit", node, outcome)
  IN  [page EXCEPT
         !.saved.events = Append(@, submit), !.saved.next = @ + 1,
         !.saved.finish = [attempt |-> page.attempt, outcome |-> outcome, node |-> node,
                           events |-> Append(page.saved.events, submit),
                           command |-> <<"finish", page.epoch, page.index>>],
         !.stream = Append(@, submit), !.active = FALSE]

\* finish: submit event and frozen command in one durable update.
Freeze(page, outcome, node, stamp) ==
  LET seq == page.saved.next
      submit == MakeEvent(stamp, seq, "submit", node, outcome)
      events == Append(page.saved.events, submit)
      tail == SubSeq(events, Max({1, Len(events) - MaxEventsPerRequest + 1}), Len(events))
  IN  [page EXCEPT
         !.saved = [attempt |-> @.attempt, events |-> events, start |-> None,
                    next |-> IF seq = NoSeq THEN NoSeq ELSE seq + 1,
                    finish |-> [attempt |-> page.attempt, outcome |-> outcome,
                                node |-> node, events |-> tail,
                                command |-> <<"finish", page.epoch, page.index>>]],
         !.stream = Append(@, submit), !.active = FALSE]

\* History: what the participant saw when confirming.
Confirmation(page) ==
  [task |-> page.index, answer |-> <<page.saved.finish.outcome, page.saved.finish.node>>,
   command |-> page.saved.finish.command, stream |-> page.stream]

-----------------------------------------------------------------------------
(* Loading a page, and what follows each awaited call. *)

Loading(n) ==
  [NewPage EXCEPT !.doing = "loading", !.epoch = n, !.call = SessionRequest]

\* The tab is opened, reloaded, or comes back after a crash.
Open(t) ==
  /\ loads < MaxLoads
  /\ loads' = loads + 1
  /\ pages' = [pages EXCEPT ![t] = [Loading(loads + 1) EXCEPT !.saved = journal]]
  /\ UNCHANGED <<server, journal, sent, confirmed>>

Answered(t, doing) == pages[t].doing \in doing /\ pages[t].reply # None

\* init, when the session cannot be read: the page offers to reload. It has drawn
\* no ID yet, so it is not told apart from its successor.
LoadFails(t) ==
  /\ Answered(t, {"loading"})
  /\ pages[t].reply = Failure
  /\ Step(t, [pages[t] EXCEPT !.saved = journal, !.reply = None])
  /\ UNCHANGED confirmed

\* init, once the session is read.
Load(t) ==
  /\ Answered(t, {"loading"})
  /\ pages[t].reply # Failure
  /\ LET v == pages[t].reply.value
         page == Shown(pages[t], v)
         c == page.saved.finish
         rest == [page EXCEPT !.saved.events = Reconciled(@, v.next_seq)]
     IN  IF c # None
         THEN IF v.attempt # c.attempt THEN Step(t, SendFinish(page))
              ELSE IF Reconcilable(v.events, page.saved.events, v.next_seq)
              THEN Persist(t, SendFinish(rest))
              ELSE Step(t, Blocked(page))
         ELSE IF page.saved.start # None THEN Step(t, Starting(page, FALSE))
         ELSE IF Unacceptable(page, v) THEN Step(t, Blocked(page))
         ELSE Persist(t, Idle(Entered(Restored(page, v, FALSE), TRUE)))
  /\ UNCHANGED confirmed

\* start, after the call.
Started(t) ==
  /\ Answered(t, {"starting"})
  /\ LET page == pages[t]
         v == page.reply.value
         shown == Restored(page, v, page.saved.start.skip)
         skipped == Freeze(shown, "skipped", Root, page.saved.start.stamp)
     IN  IF page.reply = Failure THEN Step(t, Idle(page)) /\ UNCHANGED confirmed
         ELSE IF page.reply = Conflict THEN Step(t, Blocked(page)) /\ UNCHANGED confirmed
         ELSE IF Unacceptable(page, v)
         THEN Step(t, Blocked(Shown(page, v))) /\ UNCHANGED confirmed
         ELSE IF page.saved.start.skip /\ ~page.blocked
         THEN /\ Persist(t, SendFinish(skipped))
              /\ confirmed' = confirmed \cup {Confirmation(skipped)}
         ELSE /\ Persist(t, Idle(IF page.saved.start.skip THEN shown ELSE Entered(shown, TRUE)))
              /\ UNCHANGED confirmed

\* checkpoint, after the call: flush or finish goes on.
Checkpointed(t) ==
  /\ Answered(t, {"flushing", "waiting", "draining"})
  /\ LET page == pages[t]
         n == page.reply.value.next_seq
         mine == /\ page.saved.attempt = page.call.attempt
                 /\ Acknowledgeable(page.call.events, n)
                 /\ AckEvents(page.call.events, n) = <<>>
         pruned == [page EXCEPT !.saved.events = AckEvents(@, n)]
     IN  IF page.reply = Failure
         THEN Step(t, IF page.doing = "waiting" THEN SendFinish(page) ELSE Idle(page))
         ELSE IF page.reply = Conflict \/ ~mine THEN Step(t, Blocked(page))
         ELSE Persist(t, IF page.doing = "flushing" THEN Flushing(pruned) ELSE SendFinish(pruned))
  /\ UNCHANGED confirmed

\* Mutation: a failed finish is taken for an acknowledged one.
FinishedAnyway(t) ==
  /\ Answered(t, {"finishing"})
  /\ Persist(t, Idle([pages[t] EXCEPT !.saved = EmptyJournal, !.attempt = NoAttempt,
                                      !.index = @ + 1]))
  /\ UNCHANGED confirmed

\* finish, after the call: only an acknowledgement advances the task.
Finished(t) ==
  /\ Answered(t, {"finishing"})
  /\ LET page == pages[t]
         v == page.reply.value
     IN  IF page.reply = Failure THEN Step(t, Idle(page))
         ELSE IF page.reply = Conflict THEN Step(t, Blocked(page))
         ELSE Persist(t, Idle(Restored([page EXCEPT !.saved = EmptyJournal], v, FALSE)))
  /\ UNCHANGED confirmed

-----------------------------------------------------------------------------
(* What the participant and the browser do. *)

\* Controls are neither disabled nor guarded away.
Free(t) == pages[t].doing \in {"idle", "flushing"} /\ ~pages[t].blocked

\* start: the buttons of the prompt, and "Try again".
StartTask(t, skip) ==
  /\ Free(t)
  /\ skip => "skipped" \in Answers
  /\ pages[t].saved.finish = None
  /\ ~pages[t].completed
  /\ IF pages[t].saved.start = None
     THEN pages[t].attempt = NoAttempt /\ Persist(t, Starting(pages[t], skip))
     ELSE ~skip /\ Step(t, Starting(pages[t], FALSE))
  /\ UNCHANGED confirmed

\* The tree is on screen, was opened by acceptSession, and the participant does
\* something there.
Browsing(t, click) ==
  /\ Free(t) /\ pages[t].active /\ pages[t].saved.finish = None
  /\ pages[t].attempt # NoAttempt
  /\ click \in DOMAIN Clicks
  /\ pages[t].saved.next <= Clicks[click]
  /\ UNCHANGED confirmed

\* treeView choose: down to the page's parent, then the page.
Choose(t, n) ==
  /\ Browsing(t, "select")
  /\ LET page == pages[t]
         way == IF n = page.here THEN <<>> ELSE Route(page.here, Parent[n])
     IN  Persist(t, [Recorded(page, Append(way, [type |-> "select", node |-> n])) EXCEPT
           !.here = IF n = page.here THEN n ELSE Parent[n], !.selected = n])

\* treeView navigate: back to an ancestor, or to the top.
Navigate(t, type, n) ==
  /\ Browsing(t, type)
  /\ pages[t].here # Root
  /\ n \in IF type = "root" THEN {Root} ELSE Ancestors[pages[t].here] \cup {Root}
  /\ Persist(t, [Recorded(pages[t], <<[type |-> type, node |-> n]>>) EXCEPT
                   !.here = n, !.selected = None])

\* The visibilitychange listener: hiding the page also saves.
Visibility(t, type) ==
  /\ Browsing(t, type)
  /\ LET page == pages[t]
         new == Recorded(page, <<[type |-> type, node |-> page.here]>>)
     IN  Persist(t, IF type = "visibility_hidden" /\ page.doing = "idle"
                    THEN Flushing(new) ELSE new)

\* flush: the timer, the online event or "Try again".
Flush(t) ==
  /\ pages[t].doing = "idle"
  /\ pages[t].attempt # NoAttempt
  /\ Flushing(pages[t]) # Idle(pages[t])
  /\ Step(t, Flushing(pages[t]))
  /\ UNCHANGED confirmed

\* finish: the participant confirms. A checkpoint in flight is awaited first.
Confirm(t, outcome) ==
  /\ Free(t)
  /\ pages[t].attempt # NoAttempt
  /\ pages[t].saved.finish = None
  /\ outcome = "selected" => pages[t].selected # None
  /\ LET node == IF outcome = "selected" THEN pages[t].selected ELSE Root
         new == Freeze(pages[t], outcome, node, Stamp(pages[t], pages[t].saved.next))
     IN  /\ Persist(t, IF new.doing = "flushing" THEN [new EXCEPT !.doing = "waiting"]
                                                 ELSE SendFinish(new))
         /\ confirmed' = confirmed \cup {Confirmation(new)}

\* Mutation: only a page that is active retries.
RetryWhileActive(t) ==
  /\ Free(t) /\ pages[t].active
  /\ pages[t].saved.finish # None
  /\ Step(t, SendFinish(pages[t]))
  /\ UNCHANGED confirmed

\* finish, with the command that is frozen: "Retry saving response".
RetryFinish(t) ==
  /\ Free(t)
  /\ pages[t].saved.finish # None
  /\ Step(t, SendFinish(pages[t]))
  /\ UNCHANGED confirmed

\* The storage listener: another tab wrote something else.
Notice(t, v) ==
  /\ v \in pages[t].news
  /\ LET page == [pages[t] EXCEPT !.news = @ \ {v}]
     IN  Step(t, IF v # page.saved /\ page.doing # "loading" /\ ~page.completed
                 THEN [page EXCEPT !.blocked = TRUE, !.active = FALSE, !.news = {}] ELSE page)
  /\ UNCHANGED confirmed

\* showError: the participant gives up the journal for the server's progress.
ReloadProgress(t) ==
  /\ pages[t].blocked
  /\ loads + 1 \in Epochs
  /\ loads' = loads + 1
  /\ journal' = EmptyJournal
  /\ pages' = [u \in Pages |->
       IF u = t THEN Loading(loads + 1)
       ELSE IF pages[u].doing = "closed" THEN pages[u]
       ELSE [pages[u] EXCEPT !.news = @ \cup {None}]]
  /\ UNCHANGED <<server, sent, confirmed>>

ClientInit ==
  /\ Init
  /\ journal = EmptyJournal
  /\ pages = [t \in Pages |-> NewPage]
  /\ sent = {}
  /\ loads = 0
  /\ confirmed = {}

PageStep(t) ==
  \/ Open(t) \/ LoadFails(t) \/ Load(t) \/ Started(t) \/ Checkpointed(t) \/ Finished(t)
  \/ \E skip \in BOOLEAN : StartTask(t, skip)
  \/ \E n \in Selectable : Choose(t, n)
  \/ \E type \in {"back", "root"}, n \in Nodes \cup {Root} : Navigate(t, type, n)
  \/ \E type \in {"visibility_hidden", "visibility_visible"} : Visibility(t, type)
  \/ Flush(t) \/ RetryFinish(t) \/ ReloadProgress(t)
  \/ \E outcome \in Answers : Confirm(t, outcome)
  \/ \E v \in pages[t].news : Notice(t, v)
  \/ ReadSession(t) \/ Lose(t)

ClientNext ==
  \/ \E t \in Pages : PageStep(t)
  \/ \E m \in sent : \E who \in SUBSET Waiting(m) : Cardinality(who) <= 1 /\ Deliver(m, who)
  \/ Tick /\ UNCHANGED client

ClientSpec == ClientInit /\ [][ClientNext]_all

-----------------------------------------------------------------------------
(* Fairness: a request that is sent again and again is answered at last,   *)
(* a page goes on when its call returns, and the participant uses the      *)
(* buttons a page offers to go on.  Nobody is made to open, answer or      *)
(* reload anything else.                                                   *)

Returned(t) ==
  LoadFails(t) \/ Load(t) \/ Started(t) \/ Checkpointed(t) \/ Finished(t)

GoOn(t) ==
  \/ Flush(t) \/ RetryFinish(t) \/ ReloadProgress(t)
  \/ pages[t].saved.start # None /\ StartTask(t, FALSE)

Fairness ==
  \A t \in Pages :
    /\ SF_all(ReadSession(t))
    /\ SF_all(\E m \in sent : t \in Waiting(m) /\ Deliver(m, {t}))
    /\ WF_all(Returned(t))
    /\ WF_all(GoOn(t))

FairClientSpec == ClientSpec /\ Fairness

-----------------------------------------------------------------------------
(* Properties. *)

Journal ==
  [attempt: AttemptIds \cup {NoAttempt}, next: Nat, events: Seq(PageEvent),
   start: {None} \cup StartCommand, finish: {None} \cup FinishCommand]

SessionView ==
  [index: Nat, completed: BOOLEAN, attempt: AttemptIds \cup {NoAttempt},
   next_seq: Nat, events: Seq(Event)]

Page ==
  [doing: {"closed", "loading", "idle", "starting", "flushing", "waiting", "draining",
           "finishing"},
   epoch: Nat, saved: Journal, index: Nat, completed: BOOLEAN,
   attempt: AttemptIds \cup {NoAttempt}, stream: Seq(PageEvent), here: Places,
   selected: {None} \cup Places, active: BOOLEAN, blocked: BOOLEAN,
   call: {None, SessionRequest} \cup Request,
   reply: {None, Conflict, Failure} \cup [status: {"ok"}, value: [next_seq: Nat] \cup SessionView],
   news: SUBSET ({None} \cup Journal)]

\* Every variable holds values of its shape, a call is on its way while an async
\* function awaits it, and a journal holds one command at most.
ClientTypeOK ==
  /\ journal \in Journal
  /\ journal.start = None \/ journal.finish = None
  /\ pages \in [Pages -> Page]
  /\ \A t \in Pages :
       /\ pages[t].call = None <=> pages[t].doing \in {"closed", "idle"}
       /\ pages[t].call \in sent \cup {None, SessionRequest}
  /\ sent \subseteq Request
  /\ loads \in Nat

\* finish ran on a page that showed a task it had not opened: its command has an
\* event without a sequence number.
Unnumbered(c) == c # None /\ c.events[Len(c.events)].seq = NoSeq

StoredBy(c) ==
  Owns(Me, c.attempt) /\ attempts[c.attempt].finish # Unfinished
    /\ attempts[c.attempt].finish.command = c.command

\* A single tab never runs into a conflict with itself while its receipts live:
\* whatever was lost, delayed, repeated or reloaded, start, checkpoint and finish
\* are recognised as its own (reconcileEvents, ackEvents, the frozen command).
QuietRecovery ==
  now < ReceiptLifetime =>
    \A t \in Pages : pages[t].blocked => Unnumbered(pages[t].saved.finish)

\* After a conflict the page offers to throw its journal away.  With one tab this
\* never costs an answer: the command it still holds has been stored, and only
\* its receipt is gone.
NothingToDiscard ==
  \A t \in Pages :
    LET c == pages[t].saved.finish
    IN  pages[t].blocked /\ c # None /\ ~Unnumbered(c) => StoredBy(c)

\* README: "final submissions are retry-safe".
RetrySafe ==
  \A t \in Pages :
    LET c == pages[t].saved.finish
    IN  pages[t].blocked /\ c # None => StoredBy(c)

\* API.md: "stale tabs cannot silently finalize another tab's stream".  The
\* stored stream of a finished attempt is, event by event, what the page that
\* confirmed the answer had recorded or restored.
WholeStream ==
  \A a \in DOMAIN attempts : attempts[a].finish # Unfinished =>
    \E c \in confirmed :
      /\ c.command = attempts[a].finish.command
      /\ c.task = attempts[a].index
      /\ c.stream = attempts[a].log

\* "Progress saved": an event that a page has dropped from its outbox is stored,
\* as that page recorded it, in the attempt that the page shows.
SavedIsStored ==
  \A t \in Pages : \A i \in DOMAIN pages[t].stream :
    LET e == pages[t].stream[i]
        outbox == pages[t].saved.events
    IN  (\A j \in DOMAIN outbox : outbox[j] # e) =>
          /\ pages[t].attempt \in DOMAIN attempts
          /\ e.seq \in DOMAIN attempts[pages[t].attempt].log
          /\ attempts[pages[t].attempt].log[e.seq] = e

\* What a page has yet to hand over, its frozen answer included, is handed over in
\* the end, by this page or by one that is loaded later (flush, finish, init), on a
\* connection that may lose any number of requests and answers; a journal given up
\* after a conflict counts, as NothingToDiscard says what that costs.
Settles ==
  (journal.events # <<>> /\ ~Unnumbered(journal.finish)) ~> (journal.events = <<>>)

-----------------------------------------------------------------------------
(* The abstract answer log. *)

KeptAttempt(i) == CHOOSE a \in AttemptsAt(Me, i) : TRUE

Kept(i) == LET q == attempts[KeptAttempt(i)].finish.request IN <<q.outcome, q.node>>

\* Not yet: a task is revealed only when no frozen answer awaits its receipt.
Reveals(t) ==
  pages[t].doing \notin {"closed", "loading"} /\ pages[t].saved.finish = None

Log == INSTANCE AnswerLog WITH
  Tabs <- Pages,
  Replies <- Outcomes \X Places,
  Tasks <- TaskCount,
  pending <- {<<c.task, c.answer>> : c \in {x \in confirmed : x.task = sessions[Me].index}},
  stored <- [i \in 1..sessions[Me].index |-> Kept(i - 1)],
  shown <- [t \in Pages |-> IF Reveals(t) THEN pages[t].index ELSE 0]

\* Pages, network and server together keep the answer log.
AnswersKept == Log!LogSpec
=============================================================================
