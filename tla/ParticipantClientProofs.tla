---------------------- MODULE ParticipantClientProofs -----------------------
(***************************************************************************)
(* Proofs about the participant's pages of module ParticipantClient, for   *)
(* any number of tabs: the server under them is the server of module       *)
(* Participation, a stored stream is what one page had recorded, progress  *)
(* that a page shows as saved is stored, and pages, network and server     *)
(* together keep the answer log.                                           *)
(***************************************************************************)
EXTENDS ParticipantClient, FiniteSetTheorems, SequenceTheorems, TLAPS

-----------------------------------------------------------------------------
(* The server under the pages. A page may send any request of its type;    *)
(* the theorems about the server are instantiated with all of them.        *)

S == INSTANCE ParticipationProofs WITH
  Batches <- Seq(Event),
  Submissions <- FinishBody(Nodes \cup {Root}, Event),
  Commands <- CommandId

\* The instance speaks of the same operators as the specification of the pages.
LEMMA SameFinite == \A s : S!IsFiniteSet(s) <=> IsFiniteSet(s)
BY DEF IsFiniteSet, S!IsFiniteSet
LEMMA SameCard == \A s : S!Cardinality(s) = Cardinality(s)
BY SameFinite DEF Cardinality, S!Cardinality

LEMMA SameMax == \A s : S!Max(s) = Max(s)
BY DEF Max, S!Max

LEMMA SameAncestors == S!Ancestors = Ancestors
BY DEF Ancestors, S!Ancestors

LEMMA SameStarts == \A log, i : S!Starts(log, i) = Starts(log, i)
BY DEF S!Starts, Starts

LEMMA SameLocation == \A log, i : S!Location(log, i) = Location(log, i)
BY SameMax DEF S!Location, Location, Moves, S!Moves

LEMMA SameEvent == S!Event = Event
BY DEF S!Event, Event, S!EventTypes, EventTypes, S!Outcomes, Outcomes, NoOutcome, S!NoOutcome,
       Moves, S!Moves

LEMMA SameNew == \A saved, incoming : S!NewSeqs(saved, incoming) = NewSeqs(saved, incoming)
BY DEF S!NewSeqs, NewSeqs

LEMMA SameMerged == \A saved, incoming : S!Merged(saved, incoming) = Merged(saved, incoming)
BY SameCard, SameNew DEF S!Merged, Merged

LEMMA SameStream == \A log : S!ValidStream(log) = ValidStream(log)
BY SameStarts, SameLocation, SameAncestors
   DEF S!ValidStream, ValidStream, S!EpochsInOrder, EpochsInOrder, S!ValidMove, ValidMove, Moves,
       S!Moves

LEMMA SameWell == \A e : S!WellFormed(e) = WellFormed(e)
BY SameEvent DEF S!WellFormed, WellFormed, NoOutcome, S!NoOutcome

LEMMA SameAppendable == \A saved, incoming, frozen :
  S!Appendable(saved, incoming, frozen) = Appendable(saved, incoming, frozen)
BY SameMerged, SameStream, SameWell
   DEF S!Appendable, Appendable, S!InSequence, InSequence, S!Agrees, Agrees, S!UniqueIds, UniqueIds

LEMMA SameReceipts ==
  /\ \A p, c, operation, hash : S!IsNew(p, c, operation, hash) <=> IsNew(p, c, operation, hash)
  /\ \A p, c, operation, hash, index, attempt :
       S!SaveReceipt(p, c, operation, hash, index, attempt)
         <=> SaveReceipt(p, c, operation, hash, index, attempt)
<1>1. S!Live = Live
  BY DEF S!Live, Live
<1>2. \A p : S!HasRoom(p) <=> HasRoom(p)
  BY <1>1, SameCard DEF S!HasRoom, HasRoom
<1>3. \A p, c : S!Row(p, c) = Row(p, c)
  BY DEF S!Row, Row
<1>4. \A p, c, operation, hash : S!IsNew(p, c, operation, hash) <=> IsNew(p, c, operation, hash)
  BY <1>3 DEF S!IsNew, IsNew, S!Misused, Misused, S!Replayable, Replayable
<1>5. \A p, c, operation, hash, index, attempt :
       S!SaveReceipt(p, c, operation, hash, index, attempt)
         <=> SaveReceipt(p, c, operation, hash, index, attempt)
  BY <1>1, <1>2 DEF S!SaveReceipt, SaveReceipt
<1> QED
  BY <1>4, <1>5

LEMMA SameStart == \A p, c, t : S!Start(p, c, t) <=> Start(p, c, t)
<1> SUFFICES ASSUME NEW p, NEW c, NEW t PROVE S!Start(p, c, t) <=> Start(p, c, t)
  OBVIOUS
<1>1. /\ S!IsNew(p, c, "start", t) <=> IsNew(p, c, "start", t)
      /\ S!IsCurrent(p, t) <=> IsCurrent(p, t)
      /\ S!NotStarted(p) <=> NotStarted(p)
  BY SameReceipts DEF S!IsCurrent, IsCurrent, S!NotStarted, NotStarted, S!AttemptsAt, AttemptsAt
<1>2. \A a : S!SaveReceipt(p, c, "start", t, sessions[p].index, a)
               <=> SaveReceipt(p, c, "start", t, sessions[p].index, a)
  BY SameReceipts
<1> QED
  BY <1>1, <1>2, Zenon DEF S!Start, Start

LEMMA SameGuards ==
  /\ \A p, a : (S!Owns(p, a) <=> Owns(p, a)) /\ (S!Frozen(p, a) <=> Frozen(p, a))
  /\ \A p, a, added : S!Fits(p, a, added) <=> Fits(p, a, added)
  /\ \A a, batch : S!Added(a, batch) = Added(a, batch)
BY SameCard, SameNew DEF S!Owns, Owns, S!Frozen, Frozen, S!Fits, Fits, S!Added, Added

LEMMA SameEvents == \A p, a, batch : S!Events(p, a, batch) <=> Events(p, a, batch)
<1> SUFFICES ASSUME NEW p, NEW a, NEW batch
             PROVE  S!Events(p, a, batch) <=> Events(p, a, batch)
  OBVIOUS
<1>1. S!AcceptsCheckpoint(attempts[a].log, batch, S!Frozen(p, a))
        <=> AcceptsCheckpoint(attempts[a].log, batch, Frozen(p, a))
  <2>1. S!Frozen(p, a) = Frozen(p, a)
    BY DEF S!Frozen, Frozen
  <2> QED
    BY <2>1, SameAppendable DEF S!AcceptsCheckpoint, AcceptsCheckpoint, S!Submits, Submits
<1>2. /\ S!Owns(p, a) <=> Owns(p, a)
      /\ S!Added(a, batch) = Added(a, batch)
      /\ S!Fits(p, a, Added(a, batch)) <=> Fits(p, a, Added(a, batch))
      /\ S!Merged(attempts[a].log, batch) = Merged(attempts[a].log, batch)
  BY SameGuards, SameMerged
<1> QED
  BY <1>1, <1>2, Zenon DEF S!Events, Events

LEMMA SameChoice == \A log, q : S!ChoiceHolds(log, q) <=> ChoiceHolds(log, q)
BY DEF S!ChoiceHolds, ChoiceHolds, S!Chosen, Chosen, S!Moves, Moves

LEMMA SameTerminal == \A saved, incoming, outcome, node :
  S!AcceptsTerminal(saved, incoming, outcome, node) <=> AcceptsTerminal(saved, incoming, outcome, node)
BY SameAppendable DEF S!AcceptsTerminal, AcceptsTerminal, S!Submits, Submits

LEMMA SameFinish == \A p, c, a, q : S!Finish(p, c, a, q) <=> Finish(p, c, a, q)
BY SameGuards, SameMerged, SameChoice, SameTerminal, SameReceipts
   DEF S!Finish, Finish, S!Outcomes, Outcomes

LEMMA SameInit == S!Init <=> Init
BY SameCard DEF S!Init, Init
\* What the server assumes of its constants holds for these.
LEMMA ServerAssumptions ==
  /\ S!SessionAssumption /\ S!SubmissionAssumption /\ S!ReceiptAssumption
  /\ S!TreeAssumption /\ S!LimitAssumption /\ S!NameAssumption
<1>1. S!TreeAssumption /\ S!LimitAssumption
  BY TreeAssumption, LimitAssumption DEF S!TreeAssumption, S!LimitAssumption
<1>2. S!NameAssumption
  BY NameAssumption, SameFinite, SameCard DEF S!NameAssumption
<1>3. S!SessionAssumption
  BY SessionAssumption, SameFinite, SameEvent DEF S!SessionAssumption
<1>4. S!ReceiptAssumption
  BY ReceiptAssumption DEF S!ReceiptAssumption
<1>5. S!SubmissionAssumption
  <2>1. S!Outcomes = Outcomes
    BY DEF S!Outcomes, Outcomes
  <2> QED
    BY <2>1, NoneAssumption, SameEvent DEF S!SubmissionAssumption, FinishBody
<1> QED
  BY <1>1, <1>2, <1>3, <1>4, <1>5

\* There is one participant.
LEMMA OneParticipant == Participants = {Me}
<1>1. IsFiniteSet(Participants) /\ Cardinality(Participants) = 1
  BY SessionAssumption, ClientAssumption
<1>2. \E p : Participants = {p}
  BY <1>1, FS_Singleton
<1> QED
  BY <1>2 DEF Me

-----------------------------------------------------------------------------
(* The inductive invariant.                                                *)

\* The attempt is the participant's, for task i.
AttemptAt(a, i) == Owns(Me, a) /\ attempts[a].index = i

\* The stream of attempt a has e where e says.
Stored(a, e) ==
  /\ Owns(Me, a)
  /\ e.seq \in DOMAIN attempts[a].log
  /\ attempts[a].log[e.seq] = e

Among(e, events) == \E i \in DOMAIN events : events[i] = e

\* Numbered one after the other, and by position.
Chain(events) == \A i \in DOMAIN events : events[i].seq = events[1].seq + i - 1
Numbered(stream) == \A i \in DOMAIN stream : stream[i].seq = i

\* The events are what the stream ends with, and what it has before them is still
\* in the outbox or stored in attempt a.
EndsWith(stream, events, a, outbox) ==
  /\ stream \in Seq(PageEvent)
  /\ Numbered(stream)
  /\ events[Len(events)].seq = Len(stream)
  /\ events[1].seq \in 1..Len(stream)
  /\ Len(events) = Len(stream) + 1 - events[1].seq
  /\ \A i \in 1..(events[1].seq - 1) : Among(stream[i], outbox) \/ Stored(a, stream[i])
  /\ \A i \in DOMAIN events : events[i] = stream[events[1].seq + i - 1]

\* An answer confirmed for the task of attempt a stands behind a command.
Backed(command, a, answer, events, outbox) ==
  /\ events # <<>>
  /\ \E x \in confirmed :
       /\ x.command = command
       /\ x.answer = answer
       /\ AttemptAt(a, x.task)
       /\ events[Len(events)].seq = NoSeq \/ EndsWith(x.stream, events, a, outbox)

\* What a journal holds: an outbox without gaps, whose submit event belongs to the
\* frozen command, and one command at most.
GoodJournal(saved) ==
  LET c == saved.finish
      outbox == saved.events
  IN  /\ saved \in Journal
      /\ Chain(outbox)
      /\ \A i \in DOMAIN outbox : outbox[i].type = "submit" =>
           i = Len(outbox) /\ c # None /\ outbox[i].seq >= c.events[1].seq
      /\ c = None /\ outbox # <<>> => saved.next = outbox[1].seq + Len(outbox)
      /\ saved.start # None => c = None /\ outbox = <<>> /\ saved.next \in {NoSeq, 1}
      /\ c # None => Backed(c.command, c.attempt, <<c.outcome, c.node>>, c.events, outbox)

GoodRequest(m) ==
  /\ m \in Request
  /\ m.kind = "finish" =>
       Backed(m.command, m.attempt, <<m.body.outcome, m.body.node>>, m.body.events, <<>>)

\* A session as the server described it, now or some time ago.
GoodView(v) ==
  /\ v \in SessionView
  /\ v.next_seq = Len(v.events) + 1
  /\ v.index <= sessions[Me].index
  /\ v.attempt = NoAttempt => v.events = <<>>
  /\ v.attempt # NoAttempt =>
       /\ AttemptAt(v.attempt, v.index)
       /\ Numbered(v.events)
       /\ \A i \in DOMAIN v.events : Stored(v.attempt, v.events[i])

\* The attempt whose events the outbox of a page holds.
OutboxAttempt(page) ==
  IF page.saved.finish = None THEN page.saved.attempt ELSE page.saved.finish.attempt

\* What a page shows and holds, whatever it is doing.
Core(page) ==
  /\ page \in Page
  /\ GoodJournal(page.saved)
  /\ page.index <= sessions[Me].index
  /\ page.attempt # NoAttempt => AttemptAt(page.attempt, page.index)
  /\ page.active =>
       /\ page.attempt # NoAttempt
       /\ page.saved.attempt = page.attempt
       /\ page.saved.start = None
  /\ page.stream # <<>> => page.saved.start = None /\ page.attempt = OutboxAttempt(page)
  /\ \A i \in DOMAIN page.stream :
       Among(page.stream[i], page.saved.events) \/ Stored(page.attempt, page.stream[i])

\* The outbox is what the stream on the screen ends with.
Placed(page) ==
  LET n == Len(page.stream) - Len(page.saved.events)
  IN  /\ Numbered(page.stream)
      /\ page.saved.next = Len(page.stream) + 1
      /\ n \in Nat
      /\ \A i \in DOMAIN page.saved.events : page.saved.events[i] = page.stream[n + i]

\* A page with nothing to retry is open at the task that its journal is about.
Ready(page) ==
  ~page.blocked /\ page.saved.start = None /\ page.saved.finish = None =>
    IF page.attempt = NoAttempt THEN page.saved = EmptyJournal /\ page.stream = <<>>
    ELSE page.saved.attempt = page.attempt /\ Placed(page)

\* A page that has not read the session yet.
Fresh(page) ==
  /\ page.attempt = NoAttempt
  /\ page.stream = <<>>
  /\ ~page.active

\* A checkpoint on its way carries the head of the outbox.
Carries(page) ==
  LET batch == page.call.events
      outbox == page.saved.events
  IN  /\ page.call.kind = "events"
      /\ page.saved.start = None
      /\ Len(batch) \in 1..Len(outbox)
      /\ \A i \in DOMAIN batch : batch[i] = outbox[i]
      /\ page.stream # <<>> \/ page.saved.finish # None => page.call.attempt = OutboxAttempt(page)

Checkpoints == {"flushing", "waiting", "draining"}

\* What a page is doing, and the call that it awaits.
Busy(page) ==
  /\ page.call = None <=> page.doing \in {"closed", "idle"}
  /\ page.doing = "loading" => page.call = SessionRequest
  /\ page.doing = "starting" => page.call.kind = "start" /\ page.saved.start # None
  /\ page.doing \in Checkpoints => Carries(page)
  /\ page.doing = "flushing" => page.saved.finish = None
  /\ page.doing \in {"waiting", "draining", "finishing"} => page.saved.finish # None
  /\ page.doing = "finishing" => page.call.kind = "finish"

\* An answer that has arrived: only an accepted checkpoint is acknowledged, and
\* only an attempt that exists is opened.
Told(page) ==
  LET v == page.reply.value
  IN  /\ page.doing = "loading" /\ page.reply # None => page.reply # Conflict
      /\ page.reply \notin {None, Conflict, Failure} =>
           /\ page.doing \in Checkpoints =>
                /\ v \in [next_seq: Nat]
                /\ \A i \in DOMAIN page.call.events : Stored(page.call.attempt, page.call.events[i])
           /\ page.doing \notin Checkpoints => GoodView(v)
           /\ page.doing = "starting" => v.attempt # NoAttempt /\ v.events = <<>>

Sound(page) ==
  /\ Core(page)
  /\ IF page.doing \in {"closed", "loading"} THEN Fresh(page) ELSE Ready(page)
  /\ Busy(page)
  /\ Told(page)

ClientInv ==
  /\ S!IInv
  /\ GoodJournal(journal)
  /\ pages = [t \in Pages |-> pages[t]]
  /\ \A t \in Pages : Sound(pages[t]) /\ pages[t].call \in sent \cup {None, SessionRequest}
  /\ \A m \in sent : GoodRequest(m)
  /\ loads \in Nat
  /\ \A c \in confirmed : c.task \in 0..sessions[Me].index
  /\ WholeStream

-----------------------------------------------------------------------------
(* The operators on events. *)

LEMMA LargestMember ==
  ASSUME NEW n \in Nat, NEW T \in SUBSET (0..n), T # {}
  PROVE  Max(T) \in T /\ \A y \in T : Max(T) >= y
BY SameMax, ServerAssumptions, S!MaxMember

\* Every node that a path names is a place.
LEMMA PlacesHold ==
  /\ Root \in Places /\ Nodes \subseteq Places
  /\ \A n \in Nodes : \A k \in DOMAIN Path(n) : Path(n)[k] \in Places
BY DEF Places

\* An event of the server is one that a page may hold.
LEMMA ServedEvent == Event \subseteq PageEvent
BY PlacesHold DEF Event, PageEvent

\* So is a sequence of them.
LEMMA ServedEvents == Seq(Event) \subseteq Seq(PageEvent)
BY ServedEvent

\* makeEvent makes events.
LEMMA EventMade ==
  ASSUME NEW stamp \in [id: Nat \X Nat, epoch: Nat], NEW seq \in Nat, NEW type \in EventTypes,
         NEW node \in Places, NEW outcome \in Outcomes \cup {NoOutcome}
  PROVE  /\ MakeEvent(stamp, seq, type, node, outcome) \in PageEvent
         /\ MakeEvent(stamp, seq, type, node, outcome).seq = seq
         /\ MakeEvent(stamp, seq, type, node, outcome).type = type
BY LimitAssumption DEF MakeEvent, PageEvent

\* Every stamp a page draws is of the type.
LEMMA StampMade ==
  ASSUME NEW page \in Page, NEW n \in Nat
  PROVE  Stamp(page, n) \in [id: Nat \X Nat, epoch: Nat]
BY DEF Page, Stamp

\* A path is a finite sequence.
LEMMA PathFinite ==
  ASSUME NEW n
  PROVE  Len(Path(n)) \in Nat /\ DOMAIN Path(n) = 1..Len(Path(n)) /\ Len(Path(Root)) = 0
<1> DEFINE up(m) == {x \in Nodes : m # Root /\ (x = m \/ x \in Ancestors[m])}
<1>1. \A m : IsFiniteSet(up(m))
  <2> SUFFICES ASSUME NEW m PROVE IsFiniteSet(up(m))
    OBVIOUS
  <2>1. up(m) \subseteq Nodes
    OBVIOUS
  <2> QED
    BY <2>1, ClientAssumption, FS_Subset, Zenon
<1>2. \A m : Cardinality(up(m)) \in Nat
  BY <1>1, FS_CardinalityType
<1>3. up(Root) = {}
  OBVIOUS
<1>4. Cardinality(up(Root)) = 0
  BY <1>1, <1>3, FS_EmptySet
<1>5. \A m : Path(m) = [k \in 1..Cardinality(up(m)) |-> CHOOSE x \in up(m) : Cardinality(Ancestors[x]) = k - 1]
  BY DEF Path
<1> HIDE DEF up
<1>6. \A m : DOMAIN Path(m) = 1..Cardinality(up(m))
  BY <1>5
<1>7. \A m : Len(Path(m)) = Cardinality(up(m))
  BY <1>2, <1>6
<1> QED
  BY <1>2, <1>4, <1>6, <1>7

\* What a page can record while the participant browses.
Deed == [type: EventTypes \ {"submit"}, node: Places]

\* The way between two nodes is made of deeds.
LEMMA RouteTyped ==
  ASSUME NEW from, NEW to \in Nodes \cup {Root}
  PROVE  Route(from, to) \in Seq(Deed)
<1> DEFINE a == Path(from)
           b == Path(to)
           shared == {k \in 0..Len(a) : k <= Len(b) /\ \A i \in 1..k : a[i] = b[i]}
           common == Max(shared)
           turn == IF common = 0 THEN Root ELSE a[common]
           back == IF common < Len(a) THEN <<[type |-> "back", node |-> turn]>> ELSE <<>>
           down == [i \in 1..(Len(b) - common) |-> [type |-> "enter", node |-> b[common + i]]]
<1>1. Len(a) \in Nat /\ Len(b) \in Nat /\ DOMAIN b = 1..Len(b)
  BY PathFinite
<1>2. \A k \in 1..Len(b) : b[k] \in Places
  <2>1. CASE to = Root
    BY <2>1, PathFinite
  <2>2. CASE to \in Nodes
    BY <1>1, <2>2, PlacesHold
  <2> QED
    BY <2>1, <2>2
<1>3. 0 \in shared /\ shared \in SUBSET (0..Len(a))
  BY <1>1
<1>4. common \in shared
  <2> HIDE DEF a, shared
  <2> QED
    BY <1>1, <1>3, LargestMember
<1>5. /\ common \in 0..Len(a)
      /\ common <= Len(b)
      /\ \A i \in 1..common : a[i] = b[i]
  BY <1>4
<1> HIDE DEF shared, a, b, common
<1>6. turn \in Places
  <2>1. CASE common = 0
    BY <2>1, PlacesHold
  <2>2. CASE common # 0
    BY <1>1, <1>2, <1>5, <2>2
  <2> QED
    BY <2>1, <2>2
<1>7. back \in Seq(Deed)
  <2> HIDE DEF turn
  <2>1. [type |-> "back", node |-> turn] \in Deed
    BY <1>6 DEF Deed, EventTypes, Moves
  <2> HIDE DEF Deed
  <2> QED
    BY <2>1
<1>8. down \in Seq(Deed)
  <2>1. Len(b) - common \in Nat
    BY <1>1, <1>5
  <2>2. \A i \in 1..(Len(b) - common) : down[i] \in Deed
    <3> SUFFICES ASSUME NEW i \in 1..(Len(b) - common) PROVE down[i] \in Deed
      OBVIOUS
    <3>1. common + i \in 1..Len(b)
      BY <1>1, <1>5
    <3>2. b[common + i] \in Places
      BY <1>2, <3>1
    <3> QED
      BY <3>2 DEF Deed, EventTypes, Moves
  <2> QED
    BY <2>1, <2>2
<1> HIDE DEF back, down
<1>9. back \o down \in Seq(Deed)
  BY <1>7, <1>8
<1> QED
  BY <1>9 DEF Route, back, down, turn, common, shared, a, b

\* replayNavigation finds a place of the tree and a selection among the events.
LEMMA ReplayTyped ==
  ASSUME NEW log \in Seq(PageEvent)
  PROVE  Here(log) \in Places /\ Selection(log) \in {None} \cup Places
<1>0. Len(log) \in Nat /\ DOMAIN log = 1..Len(log) /\ \A i \in 1..Len(log) : log[i].node \in Places
  <2>1. \A i \in 1..Len(log) : log[i] \in PageEvent
    OBVIOUS
  <2> QED
    BY <2>1 DEF PageEvent
<1>1. Here(log) \in Places
  <2> DEFINE moves == {j \in 1..(Len(log) + 1 - 1) : log[j].type \in Moves}
  <2>1. moves \in SUBSET (0..Len(log)) /\ moves \subseteq 1..Len(log)
    BY <1>0
  <2>2. CASE moves = {}
    BY <2>2, PlacesHold DEF Here, Location
  <2>3. CASE moves # {}
    <3>1. Max(moves) \in moves
      <4> HIDE DEF moves
      <4> QED
        BY <1>0, <2>1, <2>3, LargestMember
    <3>2. log[Max(moves)].node \in Places
      BY <1>0, <2>1, <3>1
    <3> QED
      BY <2>3, <3>2 DEF Here, Location
  <2> QED
    BY <2>2, <2>3
<1>2. Selection(log) \in {None} \cup Places
  <2> DEFINE picks == {i \in DOMAIN log : log[i].type = "select" /\ Chosen(log, log[i].node)}
  <2>1. picks \in SUBSET (0..Len(log)) /\ picks \subseteq 1..Len(log)
    BY <1>0
  <2>2. CASE picks = {}
    BY <2>2 DEF Selection
  <2>3. CASE picks # {}
    <3>1. Max(picks) \in picks
      <4> HIDE DEF picks
      <4> QED
        BY <1>0, <2>1, <2>3, LargestMember
    <3>2. log[Max(picks)].node \in Places
      BY <1>0, <2>1, <3>1
    <3> QED
      BY <2>3, <3>2 DEF Selection
  <2> QED
    BY <2>2, <2>3
<1> QED
  BY <1>1, <1>2

\* The part of a sequence from position k + 1 on.
LEMMA TailOf ==
  ASSUME NEW X, NEW s \in Seq(X), NEW k \in 0..Len(s)
  PROVE  /\ SubSeq(s, k + 1, Len(s)) \in Seq(X)
         /\ Len(SubSeq(s, k + 1, Len(s))) = Len(s) - k
         /\ \A i \in 1..(Len(s) - k) : SubSeq(s, k + 1, Len(s))[i] = s[k + i]
<1> DEFINE t == SubSeq(s, k + 1, Len(s))
<1>1. t = [i \in 1..(Len(s) - k) |-> s[k + i]]
  OBVIOUS
<1>2. Len(s) - k \in Nat /\ \A i \in 1..(Len(s) - k) : s[k + i] \in X
  OBVIOUS
<1> HIDE DEF t
<1>3. t \in Seq(X) /\ Len(t) = Len(s) - k
  BY <1>1, <1>2
<1> QED
  BY <1>1, <1>3 DEF t

\* The first k elements of a sequence.
LEMMA HeadOf ==
  ASSUME NEW X, NEW s \in Seq(X), NEW k \in 0..Len(s)
  PROVE  /\ SubSeq(s, 1, k) \in Seq(X)
         /\ Len(SubSeq(s, 1, k)) = k
         /\ \A i \in 1..k : SubSeq(s, 1, k)[i] = s[i]
<1> DEFINE t == SubSeq(s, 1, k)
<1>1. t = [i \in 1..k |-> s[i]]
  OBVIOUS
<1>2. k \in Nat /\ \A i \in 1..k : s[i] \in X
  OBVIOUS
<1> HIDE DEF t
<1>3. t \in Seq(X) /\ Len(t) = k
  BY <1>1, <1>2
<1> QED
  BY <1>1, <1>3 DEF t

\* The fields of an event in an outbox.
LEMMA EventFields ==
  ASSUME NEW events \in Seq(PageEvent)
  PROVE  /\ Len(events) \in Nat
         /\ DOMAIN events = 1..Len(events)
         /\ \A i \in DOMAIN events :
              events[i] \in PageEvent /\ events[i].seq \in Nat /\ events[i].type \in EventTypes
<1>1. \A i \in DOMAIN events : events[i] \in PageEvent
  OBVIOUS
<1>2. \A e \in PageEvent : e.seq \in Nat /\ e.type \in EventTypes
  BY DEF PageEvent
<1> QED
  BY <1>1, <1>2

\* ackEvents drops the head of an outbox without gaps: the events below the number.
LEMMA Acknowledged ==
  ASSUME NEW events \in Seq(PageEvent), NEW next \in Nat, Chain(events)
  PROVE  \E k \in 0..Len(events) :
           /\ AckEvents(events, next) = SubSeq(events, k + 1, Len(events))
           /\ AckEvents(events, next) \in Seq(PageEvent)
           /\ Len(AckEvents(events, next)) = Len(events) - k
           /\ \A i \in 1..(Len(events) - k) : AckEvents(events, next)[i] = events[k + i]
           /\ \A i \in 1..Len(events) : events[i].seq < next <=> i <= k
<1> DEFINE low == {i \in DOMAIN events : events[i].seq < next}
<1>1. /\ Len(events) \in Nat /\ DOMAIN events = 1..Len(events)
      /\ \A i \in 1..Len(events) : events[i].seq \in Nat /\ events[i].seq = events[1].seq + i - 1
  BY EventFields DEF Chain
<1>2. PICK k \in 0..Len(events) : \A i \in 1..Len(events) : events[i].seq < next <=> i <= k
  <2>1. CASE Len(events) = 0
    BY <1>1, <2>1
  <2>2. CASE Len(events) # 0 /\ next <= events[1].seq
    <3>1. \A i \in 1..Len(events) : events[i].seq < next <=> i <= 0
      BY <1>1, <2>2
    <3>2. 0 \in 0..Len(events)
      BY <1>1
    <3> QED
      BY <3>1, <3>2, Zenon
  <2>3. CASE Len(events) # 0 /\ next > events[1].seq /\ next - events[1].seq >= Len(events)
    <3>0. 1 \in 1..Len(events)
      BY <1>1, <2>3
    <3>1. \A i \in 1..Len(events) : events[i].seq < next <=> i <= Len(events)
      BY <1>1, <2>3, <3>0
    <3>2. Len(events) \in 0..Len(events)
      BY <1>1
    <3> QED
      BY <3>1, <3>2, Zenon
  <2>4. CASE Len(events) # 0 /\ next > events[1].seq /\ next - events[1].seq < Len(events)
    <3>0. 1 \in 1..Len(events)
      BY <1>1, <2>4
    <3>1. next - events[1].seq \in 0..Len(events)
      BY <1>1, <2>4, <3>0
    <3>2. \A i \in 1..Len(events) : events[i].seq < next <=> i <= next - events[1].seq
      BY <1>1, <3>0
    <3> QED
      BY <3>1, <3>2
  <2> QED
    <3>1. Len(events) # 0 => events[1].seq \in Nat
      BY <1>1
    <3> QED
      BY <2>1, <2>2, <2>3, <2>4, <3>1
<1>3. low = 1..k
  BY <1>1, <1>2
<1>4. Cardinality(1..k) = k
  <2>1. k \in Nat
    OBVIOUS
  <2>2. Cardinality(1..k) = IF 1 > k THEN 0 ELSE k - 1 + 1
    BY <2>1, FS_Interval
  <2> QED
    BY <2>1, <2>2
<1>5. AckEvents(events, next) = SubSeq(events, k + 1, Len(events))
  <2>1. AckEvents(events, next) = SubSeq(events, 1 + Cardinality(low), Len(events))
    BY DEF AckEvents
  <2>2. 1 + Cardinality(low) = k + 1
    <3>1. Cardinality(low) = k
      BY <1>3, <1>4, Zenon
    <3> HIDE DEF low
    <3> QED
      BY <3>1
  <2> QED
    BY <2>1, <2>2
<1> HIDE DEF low
<1> QED
  BY <1>2, <1>5, TailOf

\* An event that a page makes of each deed, numbered from the journal's next.
NewEvents(page, what) ==
  [i \in 1..Len(what) |->
     MakeEvent(Stamp(page, page.saved.next + i - 1), page.saved.next + i - 1,
               what[i].type, what[i].node, NoOutcome)]

\* Recorded deeds are numbered one after the other (record).
LEMMA NewEventsTyped ==
  ASSUME NEW page \in Page, NEW what \in Seq(Deed)
  PROVE  /\ NewEvents(page, what) \in Seq(PageEvent)
         /\ Len(NewEvents(page, what)) = Len(what)
         /\ \A i \in 1..Len(what) :
              /\ NewEvents(page, what)[i].seq = page.saved.next + i - 1
              /\ NewEvents(page, what)[i].type # "submit"
<1>1. \A i \in 1..Len(what) :
        what[i].type \in EventTypes /\ what[i].node \in Places /\ what[i].type # "submit"
  <2>1. \A i \in 1..Len(what) : what[i] \in Deed
    OBVIOUS
  <2> QED
    BY <2>1 DEF Deed
<1>2. \A i \in 1..Len(what) : page.saved.next + i - 1 \in Nat
  BY DEF Page, Journal
<1>3. \A i \in 1..Len(what) :
        /\ NewEvents(page, what)[i] \in PageEvent
        /\ NewEvents(page, what)[i].seq = page.saved.next + i - 1
        /\ NewEvents(page, what)[i].type = what[i].type
  <2> SUFFICES ASSUME NEW i \in 1..Len(what)
               PROVE  /\ NewEvents(page, what)[i] \in PageEvent
                      /\ NewEvents(page, what)[i].seq = page.saved.next + i - 1
                      /\ NewEvents(page, what)[i].type = what[i].type
    OBVIOUS
  <2> DEFINE n == page.saved.next + i - 1
  <2>1. Stamp(page, n) \in [id: Nat \X Nat, epoch: Nat]
    BY <1>2, StampMade
  <2>2. NewEvents(page, what)[i] = MakeEvent(Stamp(page, n), n, what[i].type, what[i].node, NoOutcome)
    BY DEF NewEvents
  <2>3. n \in Nat
    BY <1>2
  <2> HIDE DEF n
  <2>4. NoOutcome \in Outcomes \cup {NoOutcome}
    OBVIOUS
  <2>5. /\ MakeEvent(Stamp(page, n), n, what[i].type, what[i].node, NoOutcome) \in PageEvent
        /\ MakeEvent(Stamp(page, n), n, what[i].type, what[i].node, NoOutcome).seq = n
        /\ MakeEvent(Stamp(page, n), n, what[i].type, what[i].node, NoOutcome).type = what[i].type
    BY <1>1, <2>1, <2>3, <2>4, EventMade
  <2> QED
    BY <2>2, <2>5 DEF n
<1>4. Len(what) \in Nat /\ DOMAIN NewEvents(page, what) = 1..Len(what)
  BY DEF NewEvents
<1>5. Len(NewEvents(page, what)) = Len(what)
  BY <1>4
<1>6. NewEvents(page, what) \in Seq(PageEvent)
  BY <1>3, <1>4 DEF NewEvents
<1> QED
  BY <1>1, <1>3, <1>5, <1>6

LEMMA LargerOf ==
  ASSUME NEW x \in Int, NEW y \in Int
  PROVE  Max({x, y}) = IF x < y THEN y ELSE x
BY DEF Max

\* The last events of an outbox that a finish command carries.
TailEvents(events) ==
  SubSeq(events, Max({1, Len(events) - MaxEventsPerRequest + 1}), Len(events))

\* The frozen tail is the end of the outbox (freeze).
LEMMA FrozenTail ==
  ASSUME NEW events \in Seq(PageEvent), events # <<>>
  PROVE  \E k \in 0..(Len(events) - 1) :
           /\ TailEvents(events) = SubSeq(events, k + 1, Len(events))
           /\ TailEvents(events) \in Seq(PageEvent)
           /\ Len(TailEvents(events)) = Len(events) - k
           /\ \A i \in 1..(Len(events) - k) : TailEvents(events)[i] = events[k + i]
<1> DEFINE m == Max({1, Len(events) - MaxEventsPerRequest + 1})
<1>1. Len(events) \in Nat /\ Len(events) >= 1 /\ MaxEventsPerRequest \in Nat \ {0}
  BY LimitAssumption
<1>2. Len(events) - MaxEventsPerRequest + 1 \in Int /\ 1 \in Int
  BY <1>1
<1>3. m \in 1..Len(events)
  BY <1>1, <1>2, LargerOf
<1> HIDE DEF m
<1>4. m - 1 \in 0..(Len(events) - 1) /\ (m - 1) + 1 = m /\ m - 1 \in 0..Len(events)
  BY <1>1, <1>3
<1>a. PICK k : k = m - 1
  OBVIOUS
<1>5. /\ TailEvents(events) = SubSeq(events, k + 1, Len(events))
      /\ k \in 0..(Len(events) - 1) /\ k \in 0..Len(events)
  BY <1>4, <1>a DEF TailEvents, m
<1>6. /\ SubSeq(events, k + 1, Len(events)) \in Seq(PageEvent)
      /\ Len(SubSeq(events, k + 1, Len(events))) = Len(events) - k
      /\ \A i \in 1..(Len(events) - k) : SubSeq(events, k + 1, Len(events))[i] = events[k + i]
  BY <1>5, TailOf
<1> QED
  BY <1>5, <1>6

\* The checkpoint that a page can send is the head of its outbox, and there is one
\* unless the outbox is empty or begins with the submit event.
LEMMA BatchHead ==
  ASSUME NEW events \in Seq(PageEvent),
         \A i \in DOMAIN events : events[i].type = "submit" => i = Len(events)
  PROVE  \E k \in 0..Len(events) :
           /\ Batch(events) \in Seq(PageEvent)
           /\ Len(Batch(events)) = k
           /\ \A i \in 1..k : Batch(events)[i] = events[i]
           /\ events # <<>> /\ events[1].type # "submit" => k > 0
<1> DEFINE open == Len(events) - Cardinality(Submits(events))
           k == IF open < MaxEventsPerRequest THEN open ELSE MaxEventsPerRequest
<1>1. Len(events) \in Nat /\ DOMAIN events = 1..Len(events) /\ MaxEventsPerRequest \in Nat \ {0}
  BY LimitAssumption
<1>2. Submits(events) = {} \/ (Submits(events) = {Len(events)} /\ Len(events) > 0)
  BY <1>1 DEF Submits
<1>3. /\ Cardinality(Submits(events)) \in {0, 1}
      /\ Cardinality(Submits(events)) = 1 => Submits(events) = {Len(events)} /\ Len(events) > 0
  <2>1. CASE Submits(events) = {}
    BY <2>1, FS_EmptySet
  <2>2. CASE Submits(events) = {Len(events)} /\ Len(events) > 0
    <3>1. Cardinality({Len(events)}) = 1
      BY FS_Singleton
    <3> QED
      BY <2>2, <3>1
  <2> QED
    BY <1>2, <2>1, <2>2
<1>4. open \in 0..Len(events)
  BY <1>1, <1>3
<1>5. events # <<>> /\ events[1].type # "submit" => open > 0
  <2> SUFFICES ASSUME events # <<>>, events[1].type # "submit" PROVE open > 0
    OBVIOUS
  <2>1. Len(events) > 0
    BY <1>1
  <2>2. Len(events) = 1 => Submits(events) # {Len(events)}
    BY <1>1 DEF Submits
  <2> QED
    BY <1>1, <1>3, <2>1, <2>2
<1> HIDE DEF open
<1>6. k \in 0..Len(events) /\ (open > 0 => k > 0)
  BY <1>1, <1>4
<1>7. Batch(events) = SubSeq(events, 1, k)
  BY DEF Batch, open
<1> HIDE DEF k
<1> QED
  BY <1>5, <1>6, <1>7, HeadOf

-----------------------------------------------------------------------------
(* What a page relies on stays true while the server and the other pages   *)
(* go on.                                                                  *)

\* The tables take no row back, and a confirmed answer is not forgotten.
Grown ==
  /\ \A a \in DOMAIN attempts :
       /\ a \in DOMAIN attempts'
       /\ attempts'[a].session = attempts[a].session
       /\ attempts'[a].index = attempts[a].index
       /\ \A i \in DOMAIN attempts[a].log :
            i \in DOMAIN attempts'[a].log /\ attempts'[a].log[i] = attempts[a].log[i]
  /\ sessions[Me].index \in Nat
  /\ sessions'[Me].index \in Nat
  /\ sessions[Me].index <= sessions'[Me].index
  /\ confirmed \subseteq confirmed'

\* The tables, in the words of the pages.
LEMMA ServerTyped ==
  ASSUME S!TypeOK
  PROVE  /\ DOMAIN attempts \subseteq AttemptIds
         /\ \A a \in DOMAIN attempts :
              /\ attempts[a].log \in Seq(Event)
              /\ attempts[a].index \in 0..(TaskCount - 1)
              /\ attempts[a].session = Me
         /\ sessions[Me].index \in 0..TaskCount
         /\ sessions[Me].index \in Nat
<1>1. /\ \A a \in DOMAIN attempts : attempts[a] \in S!Attempt
      /\ sessions[Me] \in S!SessionRow
      /\ DOMAIN attempts \subseteq AttemptIds
  BY OneParticipant DEF S!TypeOK
<1>2. \A x \in S!Attempt : x.log \in Seq(Event) /\ x.index \in 0..(TaskCount - 1) /\ x.session = Me
  BY SameEvent, OneParticipant DEF S!Attempt
<1>3. sessions[Me].index \in 0..TaskCount /\ TaskCount \in Nat
  BY <1>1, SessionAssumption DEF S!SessionRow
<1> QED
  BY <1>1, <1>2, <1>3

\* No step of the server takes back what a page has been told.
LEMMA ServerStep ==
  ASSUME S!IInv, [S!Next]_(S!vars), confirmed \subseteq confirmed'
  PROVE  S!IInv' /\ Grown
<1>1. S!IInv' /\ S!TypeOK /\ S!TypeOK'
  <2>1. S!IInv'
    BY ServerAssumptions, S!InvariantStep
  <2> QED
    BY <2>1 DEF S!IInv
<1>2. \A x \in DOMAIN attempts : S!Kept(x)
  BY <1>1, ServerAssumptions, S!KeptStep
<1>3. /\ \A x \in DOMAIN attempts : x \in DOMAIN attempts' /\ S!SameStart(x)
      /\ sessions[Me].index <= sessions'[Me].index
  BY <1>1, OneParticipant, ServerAssumptions, S!RowsStep
<1>4. \A a \in DOMAIN attempts : \A i \in DOMAIN attempts[a].log :
        i \in DOMAIN attempts'[a].log /\ attempts'[a].log[i] = attempts[a].log[i]
  <2> SUFFICES ASSUME NEW a \in DOMAIN attempts, NEW i \in DOMAIN attempts[a].log
               PROVE  i \in DOMAIN attempts'[a].log /\ attempts'[a].log[i] = attempts[a].log[i]
    OBVIOUS
  <2>1. attempts[a].log \in Seq(Event)
    BY <1>1, ServerTyped
  <2>2. attempts'[a].log \in Seq(Event)
    <3>1. \A x \in DOMAIN attempts' : attempts'[x] \in S!Attempt
      BY <1>1 DEF S!TypeOK
    <3> QED
      BY <1>3, <3>1, SameEvent DEF S!Attempt
  <2>3. i \in 1..Len(attempts[a].log)
    BY <2>1
  <2>4. i <= Len(attempts'[a].log) /\ attempts'[a].log[i] = attempts[a].log[i]
    BY <1>2, <2>3 DEF S!Kept
  <2> QED
    BY <2>2, <2>3, <2>4
<1>5. sessions[Me].index \in Nat /\ sessions'[Me].index \in Nat
  <2>1. sessions'[Me] \in S!SessionRow
    BY <1>1, OneParticipant DEF S!TypeOK
  <2> QED
    BY <1>1, <2>1, ServerTyped, SessionAssumption DEF S!SessionRow
<1> QED
  BY <1>1, <1>3, <1>4, <1>5 DEF Grown, S!SameStart

\* What was true of attempts and confirmations stays true as they grow.
LEMMA Stays ==
  ASSUME Grown
  PROVE  /\ \A a, i : AttemptAt(a, i) => AttemptAt(a, i)'
         /\ \A a, e : Stored(a, e) => Stored(a, e)'
         /\ \A command, a, answer, events, outbox :
              Backed(command, a, answer, events, outbox)
                => Backed(command, a, answer, events, outbox)'
<1>1. \A a : Owns(Me, a) => Owns(Me, a)'
  BY DEF Grown, Owns
<1>2. \A a, i : AttemptAt(a, i) => AttemptAt(a, i)'
  BY <1>1 DEF Grown, Owns, AttemptAt
<1>3. \A a, e : Stored(a, e) => Stored(a, e)'
  BY <1>1 DEF Grown, Owns, Stored
<1>4. \A stream, events, a, outbox :
        EndsWith(stream, events, a, outbox) => EndsWith(stream, events, a, outbox)'
  <2> SUFFICES ASSUME NEW stream, NEW events, NEW a, NEW outbox,
                      EndsWith(stream, events, a, outbox)
               PROVE  EndsWith(stream, events, a, outbox)'
    OBVIOUS
  <2>1. \A i \in 1..(events[1].seq - 1) : Among(stream[i], outbox) \/ Stored(a, stream[i])'
    BY <1>3 DEF EndsWith
  <2> QED
    BY <2>1, Zenon DEF EndsWith
<1>5. \A command, a, answer, events, outbox :
        Backed(command, a, answer, events, outbox) => Backed(command, a, answer, events, outbox)'
  BY <1>2, <1>4 DEF Backed, Grown
<1> QED
  BY <1>2, <1>3, <1>5

\* A good journal, request or answer stays good while the server goes on.
LEMMA JournalStays ==
  ASSUME Grown
  PROVE  /\ \A saved : GoodJournal(saved) => GoodJournal(saved)'
         /\ \A m : GoodRequest(m) => GoodRequest(m)'
         /\ \A v : GoodView(v) => GoodView(v)'
<1>1. \A saved : GoodJournal(saved) => GoodJournal(saved)'
  BY Stays DEF GoodJournal
<1>2. \A m : GoodRequest(m) => GoodRequest(m)'
  BY Stays DEF GoodRequest
<1>3. \A v : GoodView(v) => GoodView(v)'
  <2> SUFFICES ASSUME NEW v, GoodView(v) PROVE GoodView(v)'
    OBVIOUS
  <2>1. v.index \in Nat
    BY DEF GoodView, SessionView
  <2>2. v.index <= sessions'[Me].index
    BY <2>1 DEF GoodView, Grown
  <2> QED
    BY <2>2, Stays DEF GoodView
<1> QED
  BY <1>1, <1>2, <1>3

\* So does a sound page.
LEMMA PageStays ==
  ASSUME Grown
  PROVE  /\ \A page : Core(page) => Core(page)'
         /\ \A page : Told(page) => Told(page)'
         /\ \A page : Sound(page) => Sound(page)'
<1>1. \A page : Core(page) => Core(page)'
  <2> SUFFICES ASSUME NEW page, Core(page) PROVE Core(page)'
    OBVIOUS
  <2>1. page.index \in Nat
    BY DEF Core, Page
  <2>2. page.index <= sessions'[Me].index
    BY <2>1 DEF Core, Grown
  <2> QED
    BY <2>2, Stays, JournalStays DEF Core
<1>2. \A page : Told(page) => Told(page)'
  BY Stays, JournalStays DEF Told
<1> QED
  BY <1>1, <1>2 DEF Sound

-----------------------------------------------------------------------------
(* The operators on pages.                                                 *)

\* A page and the requests it sends are as the invariant has them.
Fit(page) == Sound(page) /\ \A m \in Sending(page) : GoodRequest(m)

\* The fields of a journal.
LEMMA JournalFields ==
  ASSUME NEW saved \in Journal
  PROVE  /\ saved.events \in Seq(PageEvent)
         /\ saved.next \in Nat
         /\ saved.attempt \in AttemptIds \cup {NoAttempt}
         /\ saved.finish # None => saved.finish \in FinishCommand
         /\ saved.start # None => saved.start \in StartCommand
BY DEF Journal

\* Pages with other fields of the right type: a step's page is named by the fields it replaces.
WithStream(p, saved, stream) == [p EXCEPT !.saved = saved, !.stream = stream]
WithFrozen(p, saved, stream) ==
  [p EXCEPT !.saved = saved, !.stream = stream, !.active = FALSE]
WithPlace(p, here, selected) == [p EXCEPT !.here = here, !.selected = selected]

LEMMA PageStream ==
  ASSUME NEW p \in Page, NEW saved \in Journal, NEW stream \in Seq(PageEvent)
  PROVE  WithStream(p, saved, stream) \in Page
BY Zenon DEF Page, WithStream

LEMMA PageFrozen ==
  ASSUME NEW p \in Page, NEW saved \in Journal, NEW stream \in Seq(PageEvent)
  PROVE  WithFrozen(p, saved, stream) \in Page
BY Zenon DEF Page, WithFrozen

LEMMA PagePlace ==
  ASSUME NEW p \in Page, NEW here \in Places, NEW selected \in {None} \cup Places
  PROVE  WithPlace(p, here, selected) \in Page
BY Zenon DEF Page, WithPlace

\* Core depends on what the page shows and holds only.
LEMMA CoreSame ==
  ASSUME NEW p, Core(p), NEW q \in Page, q.saved = p.saved, q.index = p.index,
         q.attempt = p.attempt, q.stream = p.stream, q.active \in {p.active, FALSE}
  PROVE  Core(q)
BY DEF Core, OutboxAttempt

\* A page whose journal and stream are untouched stays ready.
LEMMA ReadySame ==
  ASSUME NEW p, Ready(p), NEW q, q.saved = p.saved, q.attempt = p.attempt,
         q.stream = p.stream, q.blocked \in {p.blocked, TRUE}
  PROVE  Ready(q)
BY DEF Ready, Placed

\* Pages that have stopped waiting, pages that a conflict has blocked, and pages
\* that send their next call.
LEMMA IdleSound ==
  ASSUME NEW page, Core(page), Ready(page)
  PROVE  Fit(Idle(page)) /\ Idle(page).saved = page.saved
<1> DEFINE q == Idle(page)
<1>1. page \in Page
  BY DEF Core
<1>2. q \in Page
  BY <1>1, Zenon DEF Idle, Page
<1>3. /\ q.saved = page.saved /\ q.index = page.index /\ q.attempt = page.attempt
      /\ q.stream = page.stream /\ q.active = page.active /\ q.blocked = page.blocked
      /\ q.doing = "idle" /\ q.call = None /\ q.reply = None
  BY <1>1 DEF Idle, Page
<1> HIDE DEF q
<1>4. Core(q)
  BY <1>2, <1>3, CoreSame
<1>5. Ready(q)
  BY <1>3, ReadySame
<1>6. Busy(q) /\ Told(q) /\ Sending(q) = {}
  BY <1>3 DEF Busy, Told, Checkpoints, Sending
<1> QED
  BY <1>3, <1>4, <1>5, <1>6 DEF Fit, Sound, q

LEMMA BlockedSound ==
  ASSUME NEW page, Core(page)
  PROVE  Fit(Blocked(page)) /\ Blocked(page).saved = page.saved
<1> DEFINE q == Blocked(page)
<1>1. page \in Page
  BY DEF Core
<1>2. q \in Page
  BY <1>1, Zenon DEF Blocked, Idle, Page
<1>3. /\ q.saved = page.saved /\ q.index = page.index /\ q.attempt = page.attempt
      /\ q.stream = page.stream /\ q.active = FALSE /\ q.blocked = TRUE
      /\ q.doing = "idle" /\ q.call = None /\ q.reply = None
  BY <1>1 DEF Blocked, Idle, Page
<1> HIDE DEF q
<1>4. Core(q)
  BY <1>2, <1>3, CoreSame
<1>5. Ready(q)
  BY <1>3 DEF Ready
<1>6. Busy(q) /\ Told(q) /\ Sending(q) = {}
  BY <1>3 DEF Busy, Told, Checkpoints, Sending
<1> QED
  BY <1>3, <1>4, <1>5, <1>6 DEF Fit, Sound, q

\* A request is a call that is on its way, and neither null nor the session's.
LEMMA RequestCall ==
  ASSUME NEW m \in Request
  PROVE  m # None /\ m # SessionRequest
<1>1. m # None
  BY NoneAssumption
<1>2. m.kind \in {"start", "events", "finish"}
  BY DEF Request
<1>3. SessionRequest.kind = "session"
  BY DEF SessionRequest
<1> QED
  BY <1>1, <1>2, <1>3

LEMMA CallingSound ==
  ASSUME NEW page, Core(page), Ready(page), NEW m, GoodRequest(m),
         NEW doing \in {"starting", "flushing", "waiting", "draining", "finishing"},
         Busy(Calling(page, doing, m))
  PROVE  Fit(Calling(page, doing, m))
<1> DEFINE q == Calling(page, doing, m)
<1>1. page \in Page /\ m \in Request
  BY DEF Core, GoodRequest
<1>2. q \in Page
  BY <1>1, Zenon DEF Calling, Page
<1>3. /\ q.saved = page.saved /\ q.index = page.index /\ q.attempt = page.attempt
      /\ q.stream = page.stream /\ q.active = page.active /\ q.blocked = page.blocked
      /\ q.doing = doing /\ q.call = m /\ q.reply = None
  BY <1>1 DEF Calling, Page
<1> HIDE DEF q
<1>4. Core(q)
  BY <1>2, <1>3, CoreSame
<1>5. Ready(q)
  BY <1>3, ReadySame
<1>6. Told(q) /\ Sending(q) \subseteq {m}
  BY <1>3 DEF Told, Sending
<1> QED
  BY <1>3, <1>4, <1>5, <1>6 DEF Fit, Sound, q

LEMMA CallingFields ==
  ASSUME NEW page \in Page, NEW m, NEW doing
  PROVE  /\ Calling(page, doing, m).saved = page.saved
         /\ Calling(page, doing, m).attempt = page.attempt
         /\ Calling(page, doing, m).stream = page.stream
         /\ Calling(page, doing, m).doing = doing
         /\ Calling(page, doing, m).call = m
BY DEF Calling, Page

\* A checkpoint of the outbox of an attempt.
LEMMA CheckpointMade ==
  ASSUME NEW page, Core(page), page.saved.start = None,
         NEW a \in AttemptIds, a = OutboxAttempt(page),
         Batch(page.saved.events) # <<>>, NEW doing \in Checkpoints
  PROVE  /\ GoodRequest(EventsRequest(a, Batch(page.saved.events)))
         /\ Carries(Calling(page, doing, EventsRequest(a, Batch(page.saved.events))))
<1> DEFINE batch == Batch(page.saved.events)
           m == EventsRequest(a, batch)
<1>1. page \in Page /\ page.saved \in Journal /\ page.saved.events \in Seq(PageEvent)
  BY JournalFields DEF Core, GoodJournal
<1>2. \A i \in DOMAIN page.saved.events :
        page.saved.events[i].type = "submit" => i = Len(page.saved.events)
  BY DEF Core, GoodJournal
<1>3. PICK k \in 0..Len(page.saved.events) :
        /\ batch \in Seq(PageEvent)
        /\ Len(batch) = k
        /\ \A i \in 1..k : batch[i] = page.saved.events[i]
  BY <1>1, <1>2, BatchHead
<1> HIDE DEF batch
<1>4. Len(batch) \in 1..Len(page.saved.events) /\ DOMAIN batch = 1..k
  <2>1. Len(batch) # 0
    BY <1>3 DEF batch
  <2> QED
    BY <1>3, <2>1
<1>5. m.kind = "events" /\ m.attempt = a /\ m.events = batch /\ m \in Request
  BY <1>3 DEF EventsRequest, Request
<1>6. GoodRequest(m)
  BY <1>5 DEF GoodRequest
<1> HIDE DEF m
<1>7. Carries(Calling(page, doing, m))
  <2> DEFINE q == Calling(page, doing, m)
  <2>1. q.saved = page.saved /\ q.stream = page.stream /\ q.call = m
    BY <1>1, CallingFields
  <2> HIDE DEF q
  <2>2. OutboxAttempt(q) = OutboxAttempt(page)
    BY <2>1 DEF OutboxAttempt
  <2> QED
    BY <1>3, <1>4, <1>5, <2>1, <2>2 DEF Carries, q
<1> QED
  BY <1>6, <1>7 DEF m, batch

\* flush sends the head of the outbox, or nothing.
LEMMA FlushingSound ==
  ASSUME NEW page, Core(page), Ready(page)
  PROVE  Fit(Flushing(page)) /\ Flushing(page).saved = page.saved
<1>1. page \in Page
  BY DEF Core
<1>2. CASE page.active /\ ~page.blocked /\ page.saved.finish = None /\ Batch(page.saved.events) # <<>>
  <2> DEFINE m == EventsRequest(page.saved.attempt, Batch(page.saved.events))
             q == Calling(page, "flushing", m)
  <2>1. page.saved.start = None /\ page.saved.attempt = OutboxAttempt(page) /\ page.attempt # NoAttempt
        /\ page.saved.attempt = page.attempt
    BY <1>2 DEF Core, OutboxAttempt
  <2>2. page.saved.attempt \in AttemptIds
    BY <1>1, <2>1 DEF Page
  <2>3. "flushing" \in Checkpoints
    BY DEF Checkpoints
  <2>4. GoodRequest(m) /\ Carries(q)
    BY <1>2, <2>1, <2>2, <2>3, CheckpointMade
  <2>5. q.saved = page.saved /\ q.doing = "flushing" /\ q.call = m
    BY <1>1, CallingFields
  <2>6. m # None
    BY <2>4, RequestCall DEF GoodRequest
  <2>7. Busy(q)
    <3> HIDE DEF q, m
    <3> QED
      BY <1>2, <2>4, <2>5, <2>6 DEF Busy, Checkpoints
  <2>8. Fit(q)
    <3> HIDE DEF m
    <3> QED
      BY <2>4, <2>7, CallingSound
  <2> QED
    BY <1>2, <2>5, <2>8 DEF Flushing
<1>3. CASE ~(page.active /\ ~page.blocked /\ page.saved.finish = None /\ Batch(page.saved.events) # <<>>)
  BY <1>3, IdleSound DEF Flushing
<1> QED
  BY <1>2, <1>3

\* The frozen command leaves only when what the page had recorded before it is stored.
LEMMA SendFinishSound ==
  ASSUME NEW page, Core(page), page.saved.finish # None
  PROVE  Fit(SendFinish(page)) /\ SendFinish(page).saved = page.saved
<1> DEFINE c == page.saved.finish
           outbox == page.saved.events
           early == \E i \in DOMAIN outbox : outbox[i].seq < c.events[1].seq
<1>1. /\ page \in Page /\ page.saved \in Journal /\ c \in FinishCommand
      /\ outbox \in Seq(PageEvent) /\ page.saved.start = None
      /\ GoodJournal(page.saved)
  BY JournalFields DEF Core, GoodJournal
<1>2. /\ c.attempt \in AttemptIds /\ c.events \in Seq(PageEvent) /\ c.outcome \in Outcomes
      /\ c.node \in Places /\ c.command \in CommandId
  BY <1>1 DEF FinishCommand
<1>3. Backed(c.command, c.attempt, <<c.outcome, c.node>>, c.events, outbox)
  BY DEF Core, GoodJournal
<1>4. Ready(page)
  BY DEF Ready
<1>5. CASE page.blocked
  BY <1>5, BlockedSound DEF SendFinish
<1>6. CASE ~page.blocked /\ early
  <2> DEFINE m == EventsRequest(c.attempt, Batch(outbox))
             q == Calling(page, "draining", m)
  <2>1. outbox # <<>> /\ outbox[1].type # "submit"
    <3>1. PICK i \in DOMAIN outbox : outbox[i].seq < c.events[1].seq
      BY <1>6
    <3>2. Len(outbox) \in Nat /\ DOMAIN outbox = 1..Len(outbox) /\ outbox[1].seq \in Nat /\ 1 \in DOMAIN outbox
      BY <1>1, <3>1, EventFields
    <3>3. outbox[i].seq = outbox[1].seq + i - 1
      BY <1>1, <3>1 DEF GoodJournal, Chain
    <3>4. c.events[1].seq \in Nat
      <4>1. 1 \in DOMAIN c.events
        BY <1>2, <1>3 DEF Backed
      <4> QED
        BY <1>2, <4>1, EventFields
    <3>5. outbox[1].type = "submit" => outbox[1].seq >= c.events[1].seq
      BY <1>1, <3>2 DEF GoodJournal
    <3>6. i >= 1
      BY <3>2
    <3> HIDE DEF outbox, c
    <3>7. outbox[1].seq < c.events[1].seq
      BY <3>1, <3>2, <3>3, <3>4, <3>6
    <3> QED
      BY <3>2, <3>4, <3>5, <3>7
  <2>2. Batch(outbox) # <<>>
    <3>1. \A i \in DOMAIN outbox : outbox[i].type = "submit" => i = Len(outbox)
      BY <1>1 DEF GoodJournal
    <3>2. PICK k \in 0..Len(outbox) : Len(Batch(outbox)) = k /\ k > 0
      BY <1>1, <2>1, <3>1, BatchHead
    <3> QED
      BY <3>2
  <2>3. c.attempt = OutboxAttempt(page)
    BY DEF OutboxAttempt
  <2>4. GoodRequest(m) /\ Carries(q)
    <3>1. "draining" \in Checkpoints
      BY DEF Checkpoints
    <3> QED
      BY <1>1, <1>2, <2>2, <2>3, <3>1, CheckpointMade
  <2>5. q.saved = page.saved /\ q.doing = "draining" /\ q.call = m
    BY <1>1, CallingFields
  <2>6. m # None
    BY <2>4, RequestCall DEF GoodRequest
  <2>7. Busy(q)
    <3> HIDE DEF q, m
    <3> QED
      BY <2>4, <2>5, <2>6 DEF Busy, Checkpoints
  <2>8. Fit(q)
    <3> HIDE DEF m
    <3> QED
      BY <1>4, <2>4, <2>7, CallingSound
  <2> QED
    BY <1>6, <2>5, <2>8 DEF SendFinish
<1>7. CASE ~page.blocked /\ ~early
  <2> DEFINE m == FinishRequest(c)
             q == Calling(page, "finishing", m)
  <2>1. /\ m.kind = "finish" /\ m.command = c.command /\ m.attempt = c.attempt
        /\ m.body.outcome = c.outcome /\ m.body.node = c.node /\ m.body.events = c.events
        /\ m \in Request
    BY <1>2 DEF FinishRequest, Request, FinishBody
  <2>2. Backed(c.command, c.attempt, <<c.outcome, c.node>>, c.events, <<>>)
    <3>1. PICK x \in confirmed :
            /\ x.command = c.command
            /\ x.answer = <<c.outcome, c.node>>
            /\ AttemptAt(c.attempt, x.task)
            /\ c.events[Len(c.events)].seq = NoSeq \/ EndsWith(x.stream, c.events, c.attempt, outbox)
      BY <1>3 DEF Backed
    <3>2. ASSUME EndsWith(x.stream, c.events, c.attempt, outbox)
          PROVE  EndsWith(x.stream, c.events, c.attempt, <<>>)
      <4>1. ASSUME NEW i \in 1..(c.events[1].seq - 1) PROVE Stored(c.attempt, x.stream[i])
        <5>0. 1 \in DOMAIN c.events
          BY <1>2, <1>3 DEF Backed
        <5>1. c.events[1].seq \in Nat
          BY <1>2, <5>0, EventFields, SMTT(20)
        <5>2. i \in DOMAIN x.stream /\ x.stream[i].seq = i
          <6>1. c.events[1].seq \in 1..Len(x.stream)
            BY <3>2 DEF EndsWith
          <6>2. i \in 1..Len(x.stream)
            BY <5>1, <6>1
          <6> QED
            BY <3>2, <6>2, EventFields DEF EndsWith, Numbered
        <5>3. ~Among(x.stream[i], outbox)
          <6>1. i < c.events[1].seq
            BY <5>1
          <6> HIDE DEF outbox, c
          <6> QED
            BY <1>7, <5>2, <6>1 DEF Among, early
        <5> QED
          BY <3>2, <5>3 DEF EndsWith
      <4> HIDE DEF c, outbox
      <4> QED
        BY <3>2, <4>1, SMTT(20) DEF EndsWith
    <3> QED
      BY <1>3, <3>1, <3>2 DEF Backed
  <2>3. GoodRequest(m)
    BY <2>1, <2>2 DEF GoodRequest
  <2>4. m # None
    BY <2>3, RequestCall DEF GoodRequest
  <2>5. q.saved = page.saved /\ q.doing = "finishing" /\ q.call = m
    BY <1>1, CallingFields
  <2>6. Busy(q)
    <3>1. m.kind = "finish"
      BY <2>1
    <3> HIDE DEF q, m
    <3> QED
      BY <2>4, <2>5, <3>1 DEF Busy, Checkpoints
  <2>7. Fit(q)
    <3> HIDE DEF m
    <3> QED
      BY <1>4, <2>3, <2>6, CallingSound
  <2> QED
    BY <1>7, <2>5, <2>7 DEF SendFinish
<1> QED
  BY <1>5, <1>6, <1>7

\* Two sequences one after the other.
LEMMA Joined ==
  ASSUME NEW s \in Seq(PageEvent), NEW t \in Seq(PageEvent)
  PROVE  /\ s \o t \in Seq(PageEvent)
         /\ Len(s \o t) = Len(s) + Len(t)
         /\ DOMAIN (s \o t) = 1..(Len(s) + Len(t))
         /\ \A i \in 1..Len(s) : (s \o t)[i] = s[i]
         /\ \A i \in 1..Len(t) : (s \o t)[Len(s) + i] = t[i]
OBVIOUS

EndOf(outbox, stream, n) == \A i \in DOMAIN outbox : outbox[i] = stream[n + i]
NumberedFrom(new, n) == \A i \in DOMAIN new : new[i].seq = n + i

\* s extends the stream and o the outbox, and still o is the end of s.
GrownTo(stream, outbox, s, o, n) ==
  /\ Numbered(s)
  /\ Len(s) = n + Len(o)
  /\ EndOf(o, s, n)
  /\ NumberedFrom(o, n)
  /\ Chain(o)
  /\ \A i \in DOMAIN s : (i \in DOMAIN stream /\ s[i] = stream[i]) \/ Among(s[i], o)
  /\ \A e : Among(e, outbox) => Among(e, o)

\* A stream numbered by position and an outbox that is its end stay so when the
\* same events are added to both.
LEMMA GrowTogether ==
  ASSUME NEW stream \in Seq(PageEvent), NEW outbox \in Seq(PageEvent),
         NEW new \in Seq(PageEvent), NEW n \in Nat, Len(stream) = n + Len(outbox),
         Numbered(stream), EndOf(outbox, stream, n), NumberedFrom(new, Len(stream)),
         NEW s, s = stream \o new, NEW o, o = outbox \o new
  PROVE  GrownTo(stream, outbox, s, o, n)
<1>0. /\ \A i \in DOMAIN outbox : outbox[i] = stream[n + i]
      /\ \A i \in DOMAIN new : new[i].seq = Len(stream) + i
  BY DEF EndOf, NumberedFrom
<1> PICK ls \in Nat : ls = Len(stream)
  OBVIOUS
<1> PICK lo \in Nat : lo = Len(outbox)
  OBVIOUS
<1> PICK k \in Nat : k = Len(new)
  OBVIOUS
<1>1. /\ s \in Seq(PageEvent) /\ Len(s) = ls + k /\ DOMAIN s = 1..(ls + k)
      /\ \A i \in 1..ls : s[i] = stream[i]
      /\ \A i \in 1..k : s[ls + i] = new[i]
  <2>1. /\ stream \o new \in Seq(PageEvent)
        /\ Len(stream \o new) = Len(stream) + Len(new)
        /\ DOMAIN (stream \o new) = 1..(Len(stream) + Len(new))
        /\ \A i \in 1..Len(stream) : (stream \o new)[i] = stream[i]
        /\ \A i \in 1..Len(new) : (stream \o new)[Len(stream) + i] = new[i]
    BY Joined, Zenon
  <2> QED
    BY <2>1, Zenon
<1>2. /\ o \in Seq(PageEvent) /\ Len(o) = lo + k /\ DOMAIN o = 1..(lo + k)
      /\ \A i \in 1..lo : o[i] = outbox[i]
      /\ \A i \in 1..k : o[lo + i] = new[i]
  BY Joined
<1>3. DOMAIN stream = 1..ls /\ DOMAIN outbox = 1..lo /\ DOMAIN new = 1..k /\ ls = n + lo
  OBVIOUS
<1>4. \A i \in 1..(ls + k) : i \in 1..ls \/ (i - ls \in 1..k /\ i = ls + (i - ls))
  OBVIOUS
<1>5. \A i \in 1..(lo + k) : i \in 1..lo \/ (i - lo \in 1..k /\ i = lo + (i - lo) /\ n + i = ls + (i - lo))
  BY <1>3
<1>6. Numbered(s)
  <2> SUFFICES ASSUME NEW i \in 1..(ls + k) PROVE s[i].seq = i
    BY <1>1 DEF Numbered
  <2>1. CASE i \in 1..ls
    BY <1>1, <1>3, <2>1 DEF Numbered
  <2>2. CASE i - ls \in 1..k /\ i = ls + (i - ls)
    <3>1. s[i] = new[i - ls]
      BY <1>1, <2>2
    <3>2. new[i - ls].seq = ls + (i - ls)
      BY <1>0, <1>3, <2>2
    <3> QED
      BY <2>2, <3>1, <3>2
  <2> QED
    BY <1>4, <2>1, <2>2
<1>7. \A i \in 1..(lo + k) : o[i] = s[n + i] /\ n + i \in 1..(ls + k)
  <2> SUFFICES ASSUME NEW i \in 1..(lo + k) PROVE o[i] = s[n + i] /\ n + i \in 1..(ls + k)
    OBVIOUS
  <2>0. n + i \in 1..(ls + k)
    BY <1>3
  <2>1. CASE i \in 1..lo
    <3>1. n + i \in 1..ls
      BY <1>3, <2>1
    <3> QED
      BY <1>0, <1>1, <1>2, <1>3, <2>0, <2>1, <3>1
  <2>2. CASE i - lo \in 1..k /\ i = lo + (i - lo) /\ n + i = ls + (i - lo)
    <3>1. o[i] = new[i - lo]
      BY <1>2, <2>2
    <3>2. s[n + i] = new[i - lo]
      BY <1>1, <2>2
    <3> QED
      BY <2>0, <3>1, <3>2
  <2> QED
    BY <1>5, <2>1, <2>2
<1>8. \A i \in 1..(lo + k) : o[i].seq = n + i
  BY <1>1, <1>6, <1>7 DEF Numbered
<1>9. Chain(o)
  <2> SUFFICES ASSUME NEW i \in 1..(lo + k) PROVE o[i].seq = o[1].seq + i - 1
    BY <1>2 DEF Chain
  <2>1. 1 \in 1..(lo + k)
    OBVIOUS
  <2>2. o[i].seq = n + i /\ o[1].seq = n + 1
    BY <1>8, <2>1
  <2> QED
    BY <2>2
<1>10. \A i \in 1..(ls + k) : (i \in 1..ls /\ s[i] = stream[i]) \/ Among(s[i], o)
  <2> SUFFICES ASSUME NEW i \in 1..(ls + k), i \notin 1..ls PROVE Among(s[i], o)
    BY <1>1
  <2>1. i - n \in 1..(lo + k) /\ n + (i - n) = i
    BY <1>3
  <2>2. o[i - n] = s[n + (i - n)]
    BY <1>7, <2>1
  <2> QED
    BY <1>2, <2>1, <2>2 DEF Among
<1>11. \A e : Among(e, outbox) => Among(e, o)
  BY <1>2, <1>3 DEF Among
<1>12. Len(s) = n + Len(o)
  BY <1>1, <1>2, <1>3
<1> QED
  BY <1>1, <1>2, <1>3, <1>6, <1>7, <1>8, <1>9, <1>10, <1>11, <1>12 DEF EndOf, NumberedFrom, GrownTo

\* What a step on the tree leaves alone.
SameCall(p, q) ==
  /\ q.doing = p.doing /\ q.call = p.call /\ q.reply = p.reply /\ q.blocked = p.blocked
  /\ q.index = p.index /\ q.attempt = p.attempt /\ q.active = p.active
  /\ q.saved.start = p.saved.start /\ q.saved.finish = p.saved.finish
  /\ q.saved.attempt = p.saved.attempt

\* The outbox of q begins with that of p.
Extends(p, q) ==
  /\ Len(p.saved.events) <= Len(q.saved.events)
  /\ \A i \in DOMAIN p.saved.events : q.saved.events[i] = p.saved.events[i]
  /\ p.stream # <<>> => q.stream # <<>>

LEMMA ExtendsSelf ==
  ASSUME NEW page, page \in Page
  PROVE  Extends(page, page) /\ SameCall(page, page)
<1>1. Len(page.saved.events) \in Nat
  BY JournalFields, EventFields DEF Page
<1> QED
  BY <1>1 DEF Extends, SameCall

\* Events added to the outbox and the stream.
Extended(page, new) ==
  [page EXCEPT !.saved.events = @ \o new, !.saved.next = @ + Len(new), !.stream = @ \o new]

\* Events added to the stream and to the outbox of an unfrozen page.
LEMMA AddedSound ==
  ASSUME NEW page, Core(page), Ready(page), page.active, ~page.blocked,
         page.saved.finish = None, NEW new \in Seq(PageEvent),
         \A i \in DOMAIN new : new[i].seq = page.saved.next + i - 1 /\ new[i].type # "submit",
         NEW q, q = Extended(page, new)
  PROVE  Core(q) /\ Ready(q) /\ SameCall(page, q) /\ Extends(page, q)
<1>a. PICK old : old = page.saved
  OBVIOUS
<1>1. page \in Page /\ old \in Journal /\ GoodJournal(old) /\ page.stream \in Seq(PageEvent)
      /\ old.events \in Seq(PageEvent) /\ old.next \in Nat
  BY <1>a, JournalFields DEF Core, GoodJournal, Page
<1>2. old.start = None /\ page.attempt # NoAttempt /\ old.attempt = page.attempt /\ Placed(page)
  BY <1>a DEF Core, Ready
<1>b. PICK outbox : outbox = old.events
  OBVIOUS
<1>c. PICK stream : stream = page.stream
  OBVIOUS
<1>d. PICK n : n = Len(stream) - Len(outbox)
  OBVIOUS
<1>3. /\ stream \in Seq(PageEvent) /\ outbox \in Seq(PageEvent) /\ n \in Nat
      /\ Len(stream) = n + Len(outbox)
      /\ Numbered(stream) /\ old.next = Len(stream) + 1
      /\ EndOf(outbox, stream, n)
  <2>1. Len(stream) \in Nat /\ Len(outbox) \in Nat
    BY <1>1, <1>b, <1>c
  <2> QED
    BY <1>1, <1>2, <1>a, <1>b, <1>c, <1>d, <2>1 DEF Placed, EndOf
<1>4. NumberedFrom(new, Len(stream))
  <2>1. DOMAIN new = 1..Len(new) /\ Len(stream) \in Nat
    BY <1>3
  <2> QED
    BY <1>3, <1>a, <2>1 DEF NumberedFrom
<1>e. PICK e : e = outbox \o new
  OBVIOUS
<1>f. PICK s : s = stream \o new
  OBVIOUS
<1>5. /\ Numbered(s)
      /\ Len(s) = n + Len(e)
      /\ EndOf(e, s, n)
      /\ NumberedFrom(e, n)
      /\ Chain(e)
      /\ \A i \in DOMAIN s : (i \in DOMAIN stream /\ s[i] = stream[i]) \/ Among(s[i], e)
      /\ \A x : Among(x, outbox) => Among(x, e)
  <2>1. GrownTo(stream, outbox, s, e, n)
    BY <1>3, <1>4, <1>e, <1>f, GrowTogether
  <2> QED
    BY <2>1 DEF GrownTo
<1>6. /\ e \in Seq(PageEvent) /\ Len(e) = Len(outbox) + Len(new) /\ DOMAIN e = 1..Len(e)
      /\ \A i \in 1..Len(outbox) : e[i] = outbox[i]
      /\ \A i \in 1..Len(new) : e[Len(outbox) + i] = new[i]
      /\ s \in Seq(PageEvent) /\ Len(s) = Len(stream) + Len(new) /\ DOMAIN s = 1..Len(s)
  <2>1. /\ outbox \o new \in Seq(PageEvent)
        /\ Len(outbox \o new) = Len(outbox) + Len(new)
        /\ DOMAIN (outbox \o new) = 1..(Len(outbox) + Len(new))
        /\ \A i \in 1..Len(outbox) : (outbox \o new)[i] = outbox[i]
        /\ \A i \in 1..Len(new) : (outbox \o new)[Len(outbox) + i] = new[i]
    BY <1>3, Joined, Zenon
  <2>2. /\ stream \o new \in Seq(PageEvent)
        /\ Len(stream \o new) = Len(stream) + Len(new)
        /\ DOMAIN (stream \o new) = 1..(Len(stream) + Len(new))
    BY <1>3, Joined, Zenon
  <2> QED
    BY <1>e, <1>f, <2>1, <2>2, Zenon
<1>g. PICK next : next = old.next + Len(new)
  OBVIOUS
<1>h. PICK lo, ln, ls : lo = Len(outbox) /\ ln = Len(new) /\ ls = Len(stream)
  OBVIOUS
<1>7. lo \in Nat /\ ln \in Nat /\ ls \in Nat /\ DOMAIN outbox = 1..lo /\ DOMAIN new = 1..ln
      /\ DOMAIN stream = 1..ls
  BY <1>3, <1>h
<1>8. next \in Nat /\ next = Len(s) + 1
  <2>1. old.next = ls + 1 /\ Len(s) = ls + ln /\ next = old.next + ln
    BY <1>3, <1>6, <1>g, <1>h
  <2> QED
    BY <1>7, <2>1
<1>i. PICK saved : saved = [old EXCEPT !.events = e, !.next = next]
  OBVIOUS
<1>9. saved \in Journal
  BY <1>1, <1>6, <1>8, <1>i DEF Journal
<1>10. saved.events = e /\ saved.next = next /\ saved.start = None
       /\ saved.finish = None /\ saved.attempt = old.attempt /\ saved.start = old.start
       /\ saved.finish = old.finish
  BY <1>1, <1>2, <1>a, <1>i DEF Journal
<1>11. q = [page EXCEPT !.saved = saved, !.stream = s]
  BY <1>1, <1>a, <1>b, <1>c, <1>e, <1>f, <1>g, <1>i DEF Page, Journal, Extended
<1>12. q \in Page
  <2>1. page \in Page /\ saved \in Journal /\ s \in Seq(PageEvent)
    BY <1>1, <1>6, <1>9
  <2>2. q = WithStream(page, saved, s)
    BY <1>11, Zenon DEF WithStream
  <2> QED
    BY <2>1, <2>2, PageStream
<1>13. q.saved = saved /\ q.stream = s
  BY <1>1, <1>11 DEF Page
<1>14. SameCall(page, q)
  <2>1. /\ q.doing = page.doing /\ q.call = page.call /\ q.reply = page.reply
        /\ q.blocked = page.blocked /\ q.index = page.index /\ q.attempt = page.attempt
        /\ q.active = page.active
    BY <1>1, <1>11 DEF Page
  <2> QED
    BY <1>10, <1>13, <1>a, <2>1 DEF SameCall
<1>15. Placed(q)
  <2>1. Len(s) - Len(e) = n
    BY <1>3, <1>5, <1>6, <1>7, <1>h
  <2> QED
    BY <1>3, <1>5, <1>8, <1>10, <1>13, <2>1 DEF Placed, EndOf
<1>16. GoodJournal(saved)
  <2>1. \A i \in 1..lo : outbox[i].type # "submit"
    BY <1>1, <1>a, <1>b, <1>7 DEF GoodJournal
  <2>2. \A i \in DOMAIN e : e[i].type # "submit"
    <3> SUFFICES ASSUME NEW i \in 1..(lo + ln) PROVE e[i].type # "submit"
      BY <1>6, <1>h
    <3>1. CASE i \in 1..lo
      BY <1>6, <1>h, <2>1, <3>1
    <3>2. CASE i \notin 1..lo
      <4>1. i - lo \in 1..ln /\ lo + (i - lo) = i
        BY <1>7, <3>2
      <4>2. e[i] = new[i - lo]
        BY <1>6, <1>h, <4>1
      <4> QED
        BY <1>7, <4>1, <4>2
    <3> QED
      BY <3>1, <3>2
  <2>3. e # <<>> => saved.next = e[1].seq + Len(e)
    <3> SUFFICES ASSUME e # <<>> PROVE saved.next = e[1].seq + Len(e)
      OBVIOUS
    <3>1. 1 \in DOMAIN e /\ Len(e) \in Nat
      BY <1>6
    <3>2. e[1].seq = n + 1
      BY <1>5, <3>1 DEF NumberedFrom
    <3> QED
      BY <1>3, <1>5, <1>8, <1>10, <3>1, <3>2
  <2> QED
    BY <1>5, <1>9, <1>10, <2>2, <2>3 DEF GoodJournal
<1>17. \A i \in DOMAIN s : Among(s[i], e) \/ Stored(page.attempt, s[i])
  <2>1. \A i \in DOMAIN stream : Among(stream[i], outbox) \/ Stored(page.attempt, stream[i])
    BY <1>a, <1>b, <1>c DEF Core
  <2> QED
    BY <1>5, <2>1
<1>18. Core(q)
  <2>1. /\ page.index <= sessions[Me].index /\ AttemptAt(page.attempt, page.index)
    BY <1>2 DEF Core
  <2>2. page.index = q.index /\ page.attempt = q.attempt
    BY <1>14 DEF SameCall
  <2>3. OutboxAttempt(q) = q.attempt
    BY <1>2, <1>10, <1>13, <2>2 DEF OutboxAttempt
  <2> QED
    BY <1>2, <1>10, <1>12, <1>13, <1>16, <1>17, <2>1, <2>2, <2>3 DEF Core
<1>19. Ready(q)
  BY <1>2, <1>10, <1>13, <1>14, <1>15 DEF Ready, SameCall
<1>20. Extends(page, q)
  <2>1. lo <= Len(e)
    BY <1>6, <1>7, <1>h
  <2>2. stream # <<>> => s # <<>>
    BY <1>3, <1>6, <1>7, <1>h
  <2> QED
    BY <1>6, <1>7, <1>10, <1>13, <1>a, <1>b, <1>c, <1>h, <2>1, <2>2 DEF Extends
<1> QED
  BY <1>14, <1>18, <1>19, <1>20

\* record keeps a page sound, and adds to the end of its outbox only.
LEMMA RecordedSound ==
  ASSUME NEW page, Core(page), Ready(page), NEW what \in Seq(Deed)
  PROVE  LET q == Recorded(page, what)
         IN  /\ Core(q) /\ Ready(q) /\ SameCall(page, q) /\ Extends(page, q)
<1> DEFINE new == NewEvents(page, what)
           r == Recorded(page, what)
<1>1. page \in Page
  BY DEF Core
<1>2. CASE ~page.active \/ page.blocked \/ page.saved.finish # None
  <2>1. r = page
    BY <1>2 DEF Recorded
  <2> QED
    BY <1>1, <2>1, ExtendsSelf
<1>3. CASE page.active /\ ~page.blocked /\ page.saved.finish = None
  <2>1. /\ new \in Seq(PageEvent) /\ Len(new) = Len(what)
        /\ \A i \in DOMAIN new : new[i].seq = page.saved.next + i - 1 /\ new[i].type # "submit"
    <3>1. /\ new \in Seq(PageEvent) /\ Len(new) = Len(what)
          /\ \A i \in 1..Len(what) : new[i].seq = page.saved.next + i - 1 /\ new[i].type # "submit"
      BY <1>1, NewEventsTyped
    <3> HIDE DEF new
    <3>2. DOMAIN new = 1..Len(what)
      BY <3>1
    <3> QED
      BY <3>1, <3>2
  <2>2. r = [page EXCEPT !.saved.events = @ \o new, !.saved.next = @ + Len(what), !.stream = @ \o new]
    BY <1>3, Zenon DEF Recorded, NewEvents
  <2> HIDE DEF new, r
  <2>3. r = [page EXCEPT !.saved.events = @ \o new, !.saved.next = @ + Len(new), !.stream = @ \o new]
    BY <2>1, <2>2, Zenon
  <2>5. r = Extended(page, new)
    BY <2>3, Zenon DEF Extended
  <2>4. Core(r) /\ Ready(r) /\ SameCall(page, r) /\ Extends(page, r)
    BY <1>3, <2>1, <2>5, AddedSound
  <2> QED
    BY <2>4 DEF r
<1> QED
  BY <1>2, <1>3

LEMMA Negation == \A s : (~s) \in BOOLEAN
<1> TAKE s
<1>1. CASE s
  <2>1. (~s) = FALSE
    BY <1>1, Zenon
  <2> QED
    BY <2>1, Zenon
<1>2. CASE ~s
  <2>1. (~s) = TRUE
    BY <1>2, Zenon
  <2> QED
    BY <2>1, Zenon
<1> QED
  BY <1>1, <1>2

\* The fields of a session as the server describes it.
LEMMA ViewFields ==
  ASSUME NEW v, GoodView(v)
  PROVE  /\ v \in SessionView
         /\ v.index \in Nat /\ v.completed \in BOOLEAN /\ v.next_seq \in Nat
         /\ v.attempt \in AttemptIds \cup {NoAttempt}
         /\ v.events \in Seq(PageEvent) /\ v.events \in Seq(Event)
BY ServedEvents DEF GoodView, SessionView

\* A page that takes over a session keeps its journal and shows no event yet.
LEMMA ShownSound ==
  ASSUME NEW page, page \in Page, GoodJournal(page.saved), NEW v, GoodView(v)
  PROVE  LET q == Shown(page, v)
         IN  /\ Core(q)
             /\ q.saved = page.saved /\ q.attempt = v.attempt /\ q.index = v.index
             /\ q.stream = <<>> /\ q.active = FALSE /\ q.blocked = page.blocked
             /\ q.epoch = page.epoch
<1> DEFINE q == Shown(page, v)
<1>1. q \in Page
  <2>1. <<>> \in Seq(PageEvent) /\ Root \in Places /\ FALSE \in BOOLEAN
    BY PlacesHold
  <2> QED
    BY <2>1, ViewFields, Zenon DEF Shown, Page
<1>2. /\ q.saved = page.saved /\ q.attempt = v.attempt /\ q.index = v.index
      /\ q.stream = <<>> /\ q.active = FALSE /\ q.blocked = page.blocked
      /\ q.epoch = page.epoch
  BY DEF Shown, Page
<1> HIDE DEF q
<1>3. v.index <= sessions[Me].index /\ (v.attempt # NoAttempt => AttemptAt(v.attempt, v.index))
  BY DEF GoodView
<1>4. Core(q)
  BY <1>1, <1>2, <1>3 DEF Core
<1> QED
  BY <1>2, <1>4 DEF q

\* An empty journal is a good one.
LEMMA EmptyGood == EmptyJournal \in Journal /\ GoodJournal(EmptyJournal)
<1>1. EmptyJournal \in Journal
  BY DEF EmptyJournal, Journal, NoSeq
<1>2. /\ EmptyJournal.events = <<>> /\ EmptyJournal.finish = None /\ EmptyJournal.start = None
  BY DEF EmptyJournal
<1> QED
  BY <1>1, <1>2 DEF GoodJournal, Chain

LEMMA PageWith ==
  ASSUME NEW p \in Page, NEW saved \in Journal, NEW stream \in Seq(PageEvent),
         NEW here \in Places, NEW selected \in {None} \cup Places, NEW active \in BOOLEAN
  PROVE  [p EXCEPT !.saved = saved, !.stream = stream, !.here = here, !.selected = selected,
                   !.active = active] \in Page
BY Zenon DEF Page

\* acceptSession: what the page shows then is the stored stream and the outbox after it.
LEMMA RestoredSound ==
  ASSUME NEW page, page \in Page, GoodJournal(page.saved), page.saved.finish = None,
         NEW v, GoodView(v), ~Unacceptable(page, v), NEW skip \in BOOLEAN,
         skip => page.saved.start # None /\ v.events = <<>> /\ v.attempt # NoAttempt
  PROVE  LET q == Restored(page, v, skip)
         IN  /\ Core(q) /\ Ready(q)
             /\ q.saved.finish = None
             /\ q.attempt = v.attempt /\ q.index = v.index
             /\ q.saved.start = IF skip THEN page.saved.start ELSE None
<1>a. PICK q : q = Restored(page, v, skip)
  OBVIOUS
<1>b. PICK shown : shown = Shown(page, v)
  OBVIOUS
<1>1. /\ Core(shown) /\ shown \in Page
      /\ shown.attempt = v.attempt /\ shown.index = v.index /\ shown.stream = <<>>
      /\ shown.active = FALSE /\ shown.blocked = page.blocked
  BY <1>b, ShownSound, ZenonT(30) DEF Core
<1>2. CASE v.attempt = NoAttempt
  <2>1. q = [shown EXCEPT !.saved = EmptyJournal]
    BY <1>2, <1>a, <1>b DEF Restored
  <2>2. q \in Page
    <3>a. PICK empty : empty = EmptyJournal
      OBVIOUS
    <3>1. shown \in Page /\ empty \in Journal /\ q = [shown EXCEPT !.saved = empty]
      BY <1>1, <2>1, <3>a, EmptyGood
    <3> QED
      BY <3>1, ZenonT(30) DEF Page
  <2>3. /\ q.saved = EmptyJournal /\ q.attempt = v.attempt /\ q.index = v.index
        /\ q.stream = <<>> /\ q.active = FALSE
    BY <1>1, <2>1 DEF Page
  <2>4. EmptyJournal.start = None /\ EmptyJournal.finish = None
    BY DEF EmptyJournal
  <2>5. Core(q)
    <3>1. v.index <= sessions[Me].index
      BY DEF GoodView
    <3> QED
      BY <1>2, <2>2, <2>3, <3>1, EmptyGood DEF Core
  <2>6. Ready(q)
    BY <1>2, <2>3 DEF Ready
  <2> QED
    BY <1>2, <1>a, <2>3, <2>4, <2>5, <2>6
<1>3. CASE v.attempt # NoAttempt
  <2>a. PICK pending : pending = Pending(page, v)
    OBVIOUS
  <2>b. PICK rest : rest = Reconciled(pending, v.next_seq)
    OBVIOUS
  <2>c. PICK log : log = v.events \o rest
    OBVIOUS
  <2>1. /\ pending \in Seq(PageEvent) /\ Chain(pending)
        /\ \A i \in DOMAIN pending : pending[i].type # "submit"
        /\ page.saved.start # None => pending = <<>>
    <3>1. page.saved \in Journal /\ page.saved.events \in Seq(PageEvent) /\ Chain(page.saved.events)
          /\ (page.saved.start # None => page.saved.events = <<>>)
          /\ \A i \in DOMAIN page.saved.events : page.saved.events[i].type # "submit"
      BY JournalFields DEF GoodJournal
    <3>2. Chain(<<>>)
      BY DEF Chain
    <3> QED
      BY <2>a, <3>1, <3>2 DEF Pending
  <2>2. PICK k \in 0..Len(pending) :
          /\ rest = SubSeq(pending, k + 1, Len(pending))
          /\ rest \in Seq(PageEvent)
          /\ Len(rest) = Len(pending) - k
          /\ \A i \in 1..(Len(pending) - k) : rest[i] = pending[k + i]
    <3>1. rest = AckEvents(pending, v.next_seq)
      BY <2>b DEF Reconciled
    <3>2. v.next_seq \in Nat
      BY ViewFields
    <3>3. PICK k \in 0..Len(pending) :
            /\ AckEvents(pending, v.next_seq) = SubSeq(pending, k + 1, Len(pending))
            /\ AckEvents(pending, v.next_seq) \in Seq(PageEvent)
            /\ Len(AckEvents(pending, v.next_seq)) = Len(pending) - k
            /\ \A i \in 1..(Len(pending) - k) : AckEvents(pending, v.next_seq)[i] = pending[k + i]
      <4> HIDE DEF AckEvents
      <4> QED
        BY <2>1, <3>2, Acknowledged
    <3> QED
      BY <3>1, <3>3
  <2>3. \A i \in DOMAIN rest : rest[i].type # "submit"
    <3> SUFFICES ASSUME NEW i \in DOMAIN rest PROVE rest[i].type # "submit"
      OBVIOUS
    <3>1. Len(pending) \in Nat /\ DOMAIN pending = 1..Len(pending)
      BY <2>1
    <3>2. i \in 1..(Len(pending) - k)
      BY <2>2
    <3>3. k + i \in DOMAIN pending
      BY <3>1, <3>2
    <3> QED
      BY <2>1, <2>2, <3>2, <3>3
  <2>4. \A i \in DOMAIN rest : rest[i].seq = v.next_seq + i - 1
    <3>1. Reconcilable(v.events, pending, v.next_seq)
      BY <1>3, <2>a DEF Unacceptable
    <3> QED
      BY <2>b, <3>1 DEF Reconcilable, Reconciled
  <2>5. v.next_seq = Len(v.events) + 1 /\ Numbered(v.events) /\ Len(v.events) \in Nat
    BY <1>3, ViewFields DEF GoodView
  <2>d. PICK n : n = Len(v.events)
    OBVIOUS
  <2>6. GrownTo(v.events, <<>>, log, rest, n)
    <3>1. NumberedFrom(rest, n)
      <4>1. \A i \in DOMAIN rest : i \in Nat
        BY <2>2
      <4> QED
        BY <2>4, <2>5, <2>d, <4>1, SMTT(20) DEF NumberedFrom
    <3>2. rest = <<>> \o rest /\ <<>> \in Seq(PageEvent)
      BY <2>2
    <3>3. n \in Nat /\ n = n + Len(<<>>)
      BY <2>5, <2>d
    <3>4. EndOf(<<>>, v.events, n)
      BY DEF EndOf
    <3>5. v.events \in Seq(PageEvent)
      BY ViewFields
    <3>6. Len(v.events) = n + Len(<<>>)
      BY <2>d, <3>3
    <3> QED
      BY <2>2, <2>5, <2>c, <2>d, <3>1, <3>2, <3>3, <3>4, <3>5, <3>6, GrowTogether
  <2>7. log \in Seq(PageEvent) /\ Len(log) = n + Len(rest) /\ Len(rest) \in Nat /\ n \in Nat
    <3>1. v.events \in Seq(PageEvent)
      BY ViewFields
    <3> QED
      BY <2>2, <2>5, <2>c, <2>d, <3>1, Joined
  <2>e. PICK saved : saved = [attempt |-> v.attempt, next |-> v.next_seq + Len(rest),
                              events |-> rest, finish |-> None,
                              start |-> IF skip THEN page.saved.start ELSE None]
    OBVIOUS
  <2>8. /\ saved.attempt = v.attempt /\ saved.next = Len(log) + 1 /\ saved.events = rest
        /\ saved.finish = None /\ saved.start = IF skip THEN page.saved.start ELSE None
    <3>1. v.next_seq + Len(rest) = Len(log) + 1
      BY <2>5, <2>7, <2>d
    <3> QED
      BY <2>e, <3>1
  <2>9. saved \in Journal
    <3>1. v.next_seq + Len(rest) \in Nat
      BY <2>5, <2>7
    <3>2. page.saved.start \in {None} \cup StartCommand
      BY DEF Page, Journal
    <3> QED
      BY <2>2, <2>e, <3>1, <3>2, ViewFields DEF Journal
  <2>10. q = [shown EXCEPT !.saved = saved, !.stream = log, !.here = Here(log),
                           !.selected = Selection(log), !.active = ~skip]
    BY <1>3, <1>a, <1>b, <2>a, <2>b, <2>c, <2>e, Zenon DEF Restored
  <2>f. PICK active : active = (~skip)
    OBVIOUS
  <2>11. q \in Page
    <3>1. (~skip) \in BOOLEAN
      BY Negation, Zenon
    <3> QED
      <4>1. Here(log) \in Places /\ Selection(log) \in {None} \cup Places
        BY <2>7, ReplayTyped
      <4>a. PICK here, selected : here = Here(log) /\ selected = Selection(log)
        OBVIOUS
      <4>2. q = [shown EXCEPT !.saved = saved, !.stream = log, !.here = here,
                              !.selected = selected, !.active = active]
        BY <2>10, <2>f, <4>a, Zenon
      <4>3. active \in BOOLEAN
        BY <2>f, <3>1, Zenon
      <4>4. here \in Places /\ selected \in {None} \cup Places
        BY <4>1, <4>a, Zenon
      <4>5. shown \in Page /\ log \in Seq(PageEvent)
        BY <1>1, <2>7
      <4> QED
        BY <2>9, <4>2, <4>3, <4>4, <4>5, PageWith, Zenon
  <2>12. /\ q.saved = saved /\ q.stream = log /\ q.active = ~skip /\ q.attempt = v.attempt
         /\ q.index = v.index
    BY <1>1, <2>10 DEF Page
  <2>13. skip => rest = <<>> /\ log = <<>> /\ saved.next = 1 /\ page.saved.start # None
    <3> SUFFICES ASSUME skip
                 PROVE  rest = <<>> /\ log = <<>> /\ saved.next = 1 /\ page.saved.start # None
      OBVIOUS
    <3>1. pending = <<>> /\ v.events = <<>> /\ page.saved.start # None
      BY <2>1
    <3>2. Len(rest) = 0 /\ n = 0
      BY <2>2, <2>7, <2>d, <3>1
    <3>3. Len(log) = 0
      BY <2>7, <3>2
    <3> QED
      BY <2>2, <2>7, <2>8, <3>1, <3>2, <3>3
  <2>14. GoodJournal(saved)
    <3>1. Chain(rest)
      BY <2>6 DEF GrownTo
    <3>2. rest # <<>> => saved.next = rest[1].seq + Len(rest)
      <4> SUFFICES ASSUME rest # <<>> PROVE saved.next = rest[1].seq + Len(rest)
        OBVIOUS
      <4>1. 1 \in DOMAIN rest
        BY <2>2
      <4>2. rest[1].seq = v.next_seq
        BY <2>4, <2>5, <4>1
      <4> QED
        BY <2>5, <2>7, <2>8, <2>d, <4>2
    <3> QED
      BY <2>3, <2>8, <2>9, <2>13, <3>1, <3>2 DEF GoodJournal
  <2>15. \A i \in DOMAIN log : Among(log[i], rest) \/ Stored(v.attempt, log[i])
    BY <1>3, <2>6 DEF GrownTo, GoodView
  <2>16. Core(q)
    <3>1. v.index <= sessions[Me].index /\ AttemptAt(v.attempt, v.index)
      BY <1>3 DEF GoodView
    <3>2. log # <<>> => saved.start = None
      BY <2>8, <2>13
    <3>3. OutboxAttempt(q) = v.attempt
      BY <2>8, <2>12 DEF OutboxAttempt
    <3> QED
      BY <1>3, <2>8, <2>11, <2>12, <2>14, <2>15, <3>1, <3>2, <3>3 DEF Core
  <2>17. Ready(q)
    <3>1. Placed(q)
      <4>1. Len(log) - Len(rest) = n
        BY <2>7
      <4> QED
        BY <2>6, <2>7, <2>8, <2>12, <4>1 DEF Placed, GrownTo, EndOf
    <3> QED
      BY <1>3, <2>8, <2>12, <3>1 DEF Ready
  <2> QED
    BY <1>a, <2>8, <2>12, <2>16, <2>17
<1> QED
  BY <1>2, <1>3

\* A deed in the tree.
LEMMA DeedMade ==
  ASSUME NEW type \in EventTypes \ {"submit"}, NEW node \in Places
  PROVE  [type |-> type, node |-> node] \in Deed /\ <<[type |-> type, node |-> node]>> \in Seq(Deed)
<1>1. [type |-> type, node |-> node] \in Deed
  BY DEF Deed
<1> QED
  BY <1>1

\* A page that enters the tree records that it is shown (record).
LEMMA EnteredSound ==
  ASSUME NEW page, Core(page), Ready(page), NEW resuming
  PROVE  Core(Entered(page, resuming)) /\ Ready(Entered(page, resuming))
<1>1. page.here \in Places
  BY DEF Core, Page
<1>2. /\ <<[type |-> "tree_shown", node |-> Root]>> \in Seq(Deed)
      /\ <<[type |-> "resume", node |-> page.here]>> \in Seq(Deed)
  <2>1. "tree_shown" \in EventTypes \ {"submit"} /\ "resume" \in EventTypes \ {"submit"}
    BY DEF EventTypes, Moves
  <2> QED
    BY <1>1, <2>1, PlacesHold, DeedMade
<1>3. /\ Core(Recorded(page, <<[type |-> "tree_shown", node |-> Root]>>))
      /\ Ready(Recorded(page, <<[type |-> "tree_shown", node |-> Root]>>))
      /\ Core(Recorded(page, <<[type |-> "resume", node |-> page.here]>>))
      /\ Ready(Recorded(page, <<[type |-> "resume", node |-> page.here]>>))
  BY <1>2, RecordedSound
<1> QED
  BY <1>3, Zenon DEF Entered

\* start: one start command is in the journal, and it is sent.
LEMMA StartingSound ==
  ASSUME NEW page, Core(page), page.saved.finish = None, NEW skip \in BOOLEAN,
         page.saved.start # None \/ (page.attempt = NoAttempt /\ ~page.blocked /\ Ready(page))
  PROVE  Fit(Starting(page, skip))
<1>a. PICK c : c = [command |-> <<"start", page.epoch, page.index>>, task |-> page.index,
                    skip |-> skip, stamp |-> IF skip THEN Stamp(page, 0) ELSE None]
  OBVIOUS
<1>b. PICK new : new = IF page.saved.start = None THEN [page EXCEPT !.saved.start = c] ELSE page
  OBVIOUS
<1>1. page \in Page /\ page.saved \in Journal /\ page.epoch \in Nat /\ page.index \in Nat
      /\ GoodJournal(page.saved)
  BY DEF Core, GoodJournal, Page
<1>2. c \in StartCommand
  <2>1. <<"start", page.epoch, page.index>> \in CommandId
    BY <1>1 DEF CommandId
  <2>2. Stamp(page, 0) \in [id: Nat \X Nat, epoch: Nat]
    BY <1>1, StampMade
  <2> QED
    BY <1>1, <1>a, <2>1, <2>2 DEF StartCommand
<1>3. c # None
  BY <1>2, NoneAssumption
<1>4. Core(new) /\ Ready(new) /\ new.saved.start # None /\ new.saved.finish = None
  <2>1. CASE page.saved.start # None
    BY <1>b, <2>1 DEF Ready
  <2>2. CASE page.saved.start = None
    <3>1. page.attempt = NoAttempt /\ page.saved = EmptyJournal /\ page.stream = <<>> /\ ~page.active
      BY <2>2 DEF Ready, Core
    <3>2. PICK saved : saved = [page.saved EXCEPT !.start = c]
      OBVIOUS
    <3>3. saved.start = c /\ saved.finish = None /\ saved.events = <<>> /\ saved.next = NoSeq
          /\ saved \in Journal
      <4>1. saved.start = c /\ saved.finish = page.saved.finish /\ saved.events = page.saved.events
            /\ saved.next = page.saved.next /\ saved \in Journal
        BY <1>1, <1>2, <3>2 DEF Journal
      <4> QED
        BY <3>1, <4>1 DEF EmptyJournal
    <3>4. new = [page EXCEPT !.saved = saved]
      BY <1>1, <1>b, <2>2, <3>2 DEF Page
    <3>5. new \in Page
      BY <1>1, <3>3, <3>4, Zenon DEF Page
    <3>6. new.saved = saved /\ new.attempt = NoAttempt /\ new.stream = <<>> /\ ~new.active
          /\ new.index = page.index
      BY <1>1, <3>1, <3>4 DEF Page
    <3>7. GoodJournal(saved)
      BY <3>3 DEF GoodJournal, Chain
    <3>8. Core(new)
      <4>1. page.index <= sessions[Me].index
        BY DEF Core
      <4> QED
        BY <3>5, <3>6, <3>7, <4>1 DEF Core
    <3> QED
      BY <1>3, <3>3, <3>6, <3>8 DEF Ready
  <2> QED
    BY <2>1, <2>2
<1>5. PICK m : m = StartRequest(new.saved.start)
  OBVIOUS
<1>6. m.kind = "start" /\ GoodRequest(m)
  <2>1. new.saved.start \in StartCommand
    BY <1>4, JournalFields DEF Core, GoodJournal
  <2>2. new.saved.start.command \in CommandId /\ new.saved.start.task \in Nat
    BY <2>1 DEF StartCommand
  <2>3. m.kind = "start" /\ m \in Request
    BY <1>5, <2>2 DEF StartRequest, Request
  <2> QED
    BY <2>3 DEF GoodRequest
<1>7. PICK q : q = Calling(new, "starting", m)
  OBVIOUS
<1>8. Busy(q)
  <2>1. q.saved = new.saved /\ q.doing = "starting" /\ q.call = m
    BY <1>4, <1>7, CallingFields DEF Core
  <2>2. m # None
    BY <1>6, RequestCall DEF GoodRequest
  <2> QED
    BY <1>4, <1>6, <2>1, <2>2 DEF Busy, Checkpoints
<1>9. Fit(q)
  BY <1>4, <1>6, <1>7, <1>8, CallingSound
<1>10. q = Starting(page, skip)
  BY <1>5, <1>7, <1>a, <1>b DEF Starting
<1> QED
  BY <1>9, <1>10

LEMMA AppendJoins ==
  ASSUME NEW s \in Seq(PageEvent), NEW e \in PageEvent
  PROVE  Append(s, e) = s \o <<e>> /\ <<e>> \in Seq(PageEvent) /\ Len(<<e>>) = 1
OBVIOUS

\* The numbers of an outbox are the stream's, unless it has none.
Begun(old, stream) ==
  \/ old.next = NoSeq /\ old.events = <<>> /\ stream = <<>>
  \/ \E n \in Nat : /\ Len(stream) = n + Len(old.events)
                    /\ Numbered(stream) /\ EndOf(old.events, stream, n)
                    /\ old.next = Len(stream) + 1

\* Every event is in the outbox or stored.
Accounted(stream, a, outbox) ==
  \A i \in DOMAIN stream : Among(stream[i], outbox) \/ Stored(a, stream[i])

\* The update of the journal, and the confirmation of its command.
Freezes(old, saved, c, submit) ==
  /\ submit.type = "submit" /\ submit.seq = old.next
  /\ saved.events = Append(old.events, submit)
  /\ c.events = TailEvents(saved.events)
  /\ saved.start = None /\ saved.finish = c

Witnesses(x, c, stream, submit) ==
  x.command = c.command /\ x.answer = <<c.outcome, c.node>> /\ x.stream = Append(stream, submit)

\* finish freezes an answer: the command ends with what the page shows, and the
\* confirmation stands behind it.
LEMMA FrozenJournal ==
  ASSUME Grown, NEW old, GoodJournal(old), old.finish = None,
         NEW c \in FinishCommand, NEW stream \in Seq(PageEvent), NEW submit \in PageEvent,
         Accounted(stream, c.attempt, old.events), Begun(old, stream),
         NEW saved \in Journal, Freezes(old, saved, c, submit),
         NEW x \in confirmed', AttemptAt(c.attempt, x.task), Witnesses(x, c, stream, submit)
  PROVE  GoodJournal(saved)' /\ Accounted(x.stream, c.attempt, saved.events)'
<1> PICK events : events = saved.events
  OBVIOUS
<1>0. /\ x.command = c.command /\ x.answer = <<c.outcome, c.node>>
      /\ x.stream = Append(stream, submit)
      /\ submit.type = "submit" /\ submit.seq = old.next
      /\ events = Append(old.events, submit)
      /\ c.events = TailEvents(events)
      /\ saved.start = None /\ saved.finish = c
  BY DEF Freezes, Witnesses
<1> PICK a, index, tail, new : a = c.attempt /\ index = x.task /\ tail = c.events /\ new = x.stream
  OBVIOUS
<1>a. PICK outbox : outbox = old.events
  OBVIOUS
<1>1. outbox \in Seq(PageEvent) /\ old \in Journal /\ old.next \in Nat /\ Chain(outbox)
      /\ \A i \in DOMAIN outbox : outbox[i].type # "submit"
  BY <1>a, JournalFields DEF GoodJournal
<1>2. events = outbox \o <<submit>> /\ new = stream \o <<submit>> /\ <<submit>> \in Seq(PageEvent)
      /\ Len(<<submit>>) = 1
  BY <1>0, <1>1, <1>a, AppendJoins
<1>b. PICK lo, ls : lo = Len(outbox) /\ ls = Len(stream)
  OBVIOUS
<1>3. /\ events \in Seq(PageEvent) /\ Len(events) = lo + 1 /\ DOMAIN events = 1..(lo + 1)
      /\ \A i \in 1..lo : events[i] = outbox[i]
      /\ events[lo + 1] = submit
      /\ DOMAIN outbox = 1..lo /\ lo \in Nat
  BY <1>0, <1>1, <1>a, <1>b
<1>4. /\ new \in Seq(PageEvent) /\ Len(new) = ls + 1 /\ DOMAIN new = 1..(ls + 1)
      /\ \A i \in 1..ls : new[i] = stream[i]
      /\ new[ls + 1] = submit
      /\ DOMAIN stream = 1..ls /\ ls \in Nat
  BY <1>0, <1>1, <1>b
<1>5. PICK k \in 0..(Len(events) - 1) :
        /\ tail \in Seq(PageEvent)
        /\ Len(tail) = Len(events) - k
        /\ \A i \in 1..(Len(events) - k) : tail[i] = events[k + i]
  <2>1. events # <<>>
    <3>1. Len(events) # 0
      BY <1>3
    <3> QED
      BY <3>1
  <2>2. PICK k \in 0..(Len(events) - 1) :
          /\ TailEvents(events) \in Seq(PageEvent)
          /\ Len(TailEvents(events)) = Len(events) - k
          /\ \A i \in 1..(Len(events) - k) : TailEvents(events)[i] = events[k + i]
    BY <1>3, <2>1, FrozenTail
  <2> QED
    BY <1>0, <2>2
<1>6. k \in 0..lo /\ DOMAIN tail = 1..(lo + 1 - k) /\ Len(tail) = lo + 1 - k
      /\ \A i \in 1..(lo + 1 - k) : tail[i] = events[k + i]
  <2>1. Len(events) = lo + 1 /\ lo \in Nat /\ DOMAIN tail = 1..Len(tail)
    BY <1>3, <1>5
  <2>a. PICK le : le = Len(events)
    OBVIOUS
  <2>2. k \in 0..(le - 1) /\ Len(tail) = le - k /\ le = lo + 1
        /\ \A i \in 1..(le - k) : tail[i] = events[k + i]
    BY <1>5, <2>1, <2>a, Zenon
  <2>3. k \in 0..lo /\ le - k = lo + 1 - k
    BY <2>1, <2>2
  <2> QED
    BY <2>1, <2>2, <2>3
<1>7. Chain(events) /\ \A i \in DOMAIN events : events[i].seq = events[1].seq + i - 1 /\ events[i].seq \in Nat
  <2>1. CASE outbox = <<>>
    <3>1. lo = 0 /\ submit.seq \in Nat
      BY <1>0, <1>1, <1>b, <2>1
    <3>2. events[1] = submit
      BY <1>3, <3>1
    <3>3. \A i \in 1..1 : i = 1
      OBVIOUS
    <3> QED
      BY <1>3, <3>1, <3>2, <3>3 DEF Chain
  <2>2. CASE outbox # <<>>
    <3>0. submit.seq = old.next
      BY <1>0
    <3>1. lo > 0 /\ 1 \in 1..lo
      BY <1>1, <1>3, <1>b, <2>2
    <3>2. events[1] = outbox[1] /\ outbox[1].seq \in Nat
      BY <1>1, <1>3, <3>1, EventFields
    <3>3. \A i \in 1..lo : events[i].seq = events[1].seq + i - 1
      BY <1>1, <1>3, <3>2 DEF Chain
    <3>4. submit.seq = outbox[1].seq + lo
      BY <1>a, <1>b, <2>2, <3>0 DEF GoodJournal
    <3>5. \A i \in 1..(lo + 1) : i \in 1..lo \/ i = lo + 1
      BY <1>3
    <3>6. \A i \in 1..(lo + 1) : events[i].seq = events[1].seq + i - 1
      <4>1. events[lo + 1].seq = events[1].seq + (lo + 1) - 1
        BY <1>3, <3>2, <3>4
      <4> QED
        BY <3>3, <3>5, <4>1
    <3>7. \A i \in 1..(lo + 1) : events[1].seq + i - 1 \in Nat
      BY <1>3, <3>2
    <3> QED
      BY <1>3, <3>6, <3>7 DEF Chain
  <2> QED
    BY <2>1, <2>2
<1>8. \A i \in DOMAIN new : Among(new[i], events) \/ Stored(a, new[i])'
  <2>1. \A i \in 1..ls : Among(new[i], outbox) \/ Stored(a, new[i])'
    BY <1>4, <1>a, Stays DEF Accounted
  <2>2. \A e : Among(e, outbox) => Among(e, events)
    <3> SUFFICES ASSUME NEW e, Among(e, outbox) PROVE Among(e, events)
      OBVIOUS
    <3>1. PICK i \in 1..lo : outbox[i] = e
      BY <1>3 DEF Among
    <3>2. i \in DOMAIN events /\ events[i] = e
      BY <1>3, <3>1
    <3> QED
      BY <3>2 DEF Among
  <2>3. Among(submit, events)
    <3>1. lo + 1 \in DOMAIN events
      BY <1>3
    <3> QED
      BY <1>3, <3>1 DEF Among
  <2>4. \A i \in 1..(ls + 1) : i \in 1..ls \/ i = ls + 1
    BY <1>4
  <2> QED
    BY <1>4, <2>1, <2>2, <2>3, <2>4
<1>9. \A i \in DOMAIN events : events[i].type = "submit" =>
        i = Len(events) /\ c # None /\ events[i].seq >= tail[1].seq
  <2> SUFFICES ASSUME NEW i \in 1..(lo + 1), events[i].type = "submit"
               PROVE  i = lo + 1 /\ c # None /\ events[i].seq >= tail[1].seq
    BY <1>3
  <2>1. i = lo + 1
    <3>1. i \in 1..lo \/ i = lo + 1
      BY <1>3
    <3> QED
      BY <1>1, <1>3, <3>1
  <2>2. tail[1] = events[k + 1] /\ k + 1 \in 1..(lo + 1) /\ 1 \in 1..(lo + 1)
    <3>1. k \in 0..lo /\ lo \in Nat
      BY <1>3, <1>6
    <3>2. 1 \in 1..(lo + 1 - k) /\ k + 1 \in 1..(lo + 1) /\ 1 \in 1..(lo + 1)
      BY <3>1
    <3> QED
      BY <1>6, <3>2
  <2>3. tail[1].seq = events[1].seq + (k + 1) - 1 /\ events[i].seq = events[1].seq + i - 1
        /\ events[1].seq \in Nat
    BY <1>3, <1>7, <2>2
  <2>4. i >= k + 1
    BY <1>3, <1>6, <2>1
  <2>5. c # None
    BY NoneAssumption
  <2> QED
    BY <1>3, <1>6, <2>1, <2>3, <2>4, <2>5
<1>10. tail[Len(tail)] = submit /\ tail # <<>>
  <2>1. Len(tail) \in 1..(lo + 1 - k) /\ k + Len(tail) = lo + 1
    <3>1. k \in 0..lo /\ lo \in Nat /\ Len(tail) = lo + 1 - k
      BY <1>3, <1>6
    <3> QED
      BY <3>1
  <2>2. tail # <<>>
    BY <1>5, <2>1
  <2> QED
    BY <1>3, <1>6, <2>1, <2>2
<1>11. tail[Len(tail)].seq = NoSeq \/ EndsWith(new, tail, a, events)'
  <2>1. CASE old.next = NoSeq /\ old.events = <<>> /\ stream = <<>>
    BY <1>0, <1>10, <2>1
  <2>2. ASSUME NEW n \in Nat, Len(stream) = n + Len(old.events), Numbered(stream),
               EndOf(old.events, stream, n), old.next = Len(stream) + 1
        PROVE  EndsWith(new, tail, a, events)'
    <3>1. NumberedFrom(<<submit>>, Len(stream))
      <4>1. DOMAIN <<submit>> = {1} /\ <<submit>>[1] = submit
        OBVIOUS
      <4>2. submit.seq = Len(stream) + 1
        BY <1>0, <2>2
      <4> QED
        BY <4>1, <4>2 DEF NumberedFrom
    <3>2. Len(stream) = n + Len(outbox) /\ EndOf(outbox, stream, n)
      BY <1>a, <2>2
    <3>3. GrownTo(stream, outbox, new, events, n)
      BY <1>1, <1>2, <2>2, <3>1, <3>2, GrowTogether
    <3>4. /\ Numbered(new) /\ EndOf(events, new, n) /\ NumberedFrom(events, n)
          /\ Len(new) = n + (lo + 1)
      BY <1>3, <3>3 DEF GrownTo
    <3>5. /\ tail[1] = events[k + 1] /\ k + 1 \in 1..(lo + 1)
          /\ tail[1].seq = n + (k + 1)
      <4>1. k + 1 \in 1..(lo + 1) /\ 1 \in 1..(lo + 1 - k)
        BY <1>3, <1>6
      <4> QED
        BY <1>3, <1>6, <3>4, <4>1 DEF NumberedFrom
    <3>6. tail[1].seq \in 1..Len(new) /\ Len(tail) = Len(new) + 1 - tail[1].seq
      <4>a. PICK lt, ln, t : lt = Len(tail) /\ ln = Len(new) /\ t = tail[1].seq
        OBVIOUS
      <4>1. lt = lo + 1 - k /\ ln = n + (lo + 1) /\ t = n + (k + 1) /\ lo \in Nat /\ k \in 0..lo
        BY <1>3, <1>6, <3>4, <3>5, <4>a, Zenon
      <4>2. t \in 1..ln /\ lt = ln + 1 - t
        BY <4>1
      <4> QED
        BY <4>2, <4>a, Zenon
    <3>7. tail[Len(tail)].seq = Len(new)
      BY <1>0, <1>4, <1>10, <1>b, <2>2
    <3>8. \A i \in DOMAIN tail : tail[i] = new[tail[1].seq + i - 1]
      <4> SUFFICES ASSUME NEW i \in 1..(lo + 1 - k) PROVE tail[i] = new[tail[1].seq + i - 1]
        BY <1>6
      <4>1. k + i \in 1..(lo + 1) /\ tail[1].seq + i - 1 = n + (k + i)
        BY <1>3, <1>6, <2>2, <3>5
      <4>2. tail[i] = events[k + i]
        BY <1>6
      <4>3. events[k + i] = new[n + (k + i)]
        BY <1>3, <3>4, <4>1 DEF EndOf
      <4> QED
        BY <4>1, <4>2, <4>3
    <3>9. \A i \in 1..(tail[1].seq - 1) : Among(new[i], events) \/ Stored(a, new[i])'
      <4>1. \A i \in 1..(tail[1].seq - 1) : i \in DOMAIN new
        BY <1>4, <3>6
      <4> QED
        BY <1>8, <4>1
    <3> QED
      BY <1>4, <3>4, <3>6, <3>7, <3>8, <3>9 DEF EndsWith
  <2> QED
    BY <2>1, <2>2 DEF Begun
<1>12. Backed(c.command, c.attempt, <<c.outcome, c.node>>, c.events, events)'
  <2>1. AttemptAt(a, index)'
    BY Stays
  <2> QED
    BY <1>0, <1>10, <1>11, <2>1 DEF Backed
<1>13. GoodJournal(saved)'
  <2>1. c # None
    BY NoneAssumption
  <2> QED
    BY <1>0, <1>7, <1>9, <1>12, <2>1 DEF GoodJournal
<1> QED
  BY <1>8, <1>13 DEF Accounted

\* A frozen answer stands in the journal with its events, backed by the
\* confirmation (freeze).
LEMMA FreezeSound ==
  ASSUME Grown, NEW page, Core(page), page.saved.finish = None, page.attempt # NoAttempt,
         page.saved.start # None \/ Placed(page),
         NEW outcome \in Outcomes, NEW node \in Places,
         NEW stamp \in [id: Nat \X Nat, epoch: Nat],
         NEW q, q = Freeze(page, outcome, node, stamp), Confirmation(q) \in confirmed'
  PROVE  /\ Core(q)' /\ q.saved.finish # None /\ q.saved.start = None
         /\ q.saved.finish.attempt = page.attempt
         /\ q.doing = page.doing /\ q.call = page.call /\ q.reply = page.reply
         /\ q.blocked = page.blocked /\ q.index = page.index
         /\ q.attempt = page.attempt
         /\ q.saved.finish.node = node /\ q.saved.finish.outcome = outcome
         /\ Extends(page, q)
<1>a. PICK old : old = page.saved
  OBVIOUS
<1>b. PICK submit : submit = MakeEvent(stamp, old.next, "submit", node, outcome)
  OBVIOUS
<1>c. PICK events, new : events = Append(old.events, submit) /\ new = Append(page.stream, submit)
  OBVIOUS
<1>d. PICK tail : tail = TailEvents(events)
  OBVIOUS
<1>e. PICK c : c = [attempt |-> page.attempt, outcome |-> outcome, node |-> node,
                    events |-> tail, command |-> <<"finish", page.epoch, page.index>>]
  OBVIOUS
<1>f. PICK saved : saved = [attempt |-> old.attempt, events |-> events, start |-> None,
                            next |-> IF old.next = NoSeq THEN NoSeq ELSE old.next + 1,
                            finish |-> c]
  OBVIOUS
<1>1. /\ page \in Page /\ old \in Journal /\ GoodJournal(old) /\ old.next \in Nat
      /\ old.events \in Seq(PageEvent) /\ page.stream \in Seq(PageEvent)
      /\ old.attempt \in AttemptIds \cup {NoAttempt}
      /\ page.epoch \in Nat /\ page.index \in Nat /\ page.attempt \in AttemptIds
  BY <1>a, JournalFields DEF Core, GoodJournal, Page
<1>2. submit \in PageEvent /\ submit.seq = old.next /\ submit.type = "submit"
  <2>1. "submit" \in EventTypes
    BY DEF EventTypes
  <2> QED
    BY <1>1, <1>b, <2>1, EventMade
<1>3. /\ events \in Seq(PageEvent) /\ new \in Seq(PageEvent) /\ events # <<>> /\ new # <<>>
      /\ Len(old.events) <= Len(events)
      /\ \A i \in DOMAIN old.events : events[i] = old.events[i]
  <2>a. PICK outbox : outbox = old.events
    OBVIOUS
  <2>1. /\ events = Append(outbox, submit) /\ outbox \in Seq(PageEvent)
        /\ new = Append(page.stream, submit) /\ page.stream \in Seq(PageEvent)
    BY <1>1, <1>c, <2>a
  <2>2. new \in Seq(PageEvent) /\ new # <<>>
    BY <1>2, <2>1
  <2>3. /\ events \in Seq(PageEvent) /\ events # <<>> /\ Len(outbox) <= Len(events)
        /\ \A i \in DOMAIN outbox : events[i] = outbox[i]
    BY <1>2, <2>1
  <2> QED
    BY <2>2, <2>3, <2>a
<1>4. tail \in Seq(PageEvent)
  BY <1>3, <1>d, FrozenTail
<1>5. c \in FinishCommand
  <2>1. <<"finish", page.epoch, page.index>> \in CommandId
    BY <1>1 DEF CommandId
  <2> QED
    BY <1>1, <1>4, <1>e, <2>1 DEF FinishCommand
<1>6. c # None
  BY <1>5, NoneAssumption
<1>7. saved \in Journal
  <2>1. (IF old.next = NoSeq THEN NoSeq ELSE old.next + 1) \in Nat
    BY <1>1 DEF NoSeq
  <2> QED
    BY <1>1, <1>3, <1>5, <1>f, <2>1 DEF Journal
<1>8. q = [page EXCEPT !.saved = saved, !.stream = new, !.active = FALSE]
  BY <1>1, <1>a, <1>b, <1>c, <1>d, <1>e, <1>f DEF Freeze, TailEvents, Page
<1>9. q \in Page
  <2>1. page \in Page /\ saved \in Journal /\ new \in Seq(PageEvent)
    BY <1>1, <1>3, <1>7
  <2>2. q = WithFrozen(page, saved, new)
    BY <1>8, Zenon DEF WithFrozen
  <2> QED
    BY <2>1, <2>2, PageFrozen
<1>10. /\ q.saved = saved /\ q.stream = new /\ q.active = FALSE /\ q.attempt = page.attempt
       /\ q.index = page.index /\ q.doing = page.doing /\ q.call = page.call
       /\ q.reply = page.reply /\ q.blocked = page.blocked /\ q.epoch = page.epoch
  BY <1>1, <1>8 DEF Page
<1>11. /\ saved.events = events /\ saved.start = None /\ saved.finish = c
       /\ c.attempt = page.attempt /\ c.outcome = outcome /\ c.node = node /\ c.events = tail
  BY <1>e, <1>f
<1>12. PICK x \in confirmed' : x.command = c.command /\ x.answer = <<outcome, node>>
                               /\ x.task = page.index /\ x.stream = new
  BY <1>10, <1>11 DEF Confirmation
<1>13. AttemptAt(page.attempt, page.index)
  BY DEF Core
<1>14. Accounted(page.stream, page.attempt, old.events)
  BY <1>a DEF Core, Accounted
<1>15. Begun(old, page.stream)
  <2>1. CASE old.start # None
    <3>1. old.events = <<>> /\ page.stream = <<>> /\ old.next \in {NoSeq, 1}
      BY <1>1, <1>a, <2>1 DEF GoodJournal, Core
    <3>2. CASE old.next = 1
      <4>1. /\ Len(page.stream) = 0 + Len(old.events)
            /\ Numbered(page.stream) /\ EndOf(old.events, page.stream, 0)
            /\ old.next = Len(page.stream) + 1
        BY <3>1, <3>2 DEF Numbered, EndOf
      <4> QED
        BY <4>1 DEF Begun
    <3> QED
      BY <3>1, <3>2 DEF Begun
  <2>2. CASE Placed(page)
    <3>a. PICK n : n = Len(page.stream) - Len(old.events)
      OBVIOUS
    <3>1. /\ n \in Nat /\ Numbered(page.stream) /\ EndOf(old.events, page.stream, n)
          /\ old.next = Len(page.stream) + 1
      BY <1>a, <2>2, <3>a DEF Placed, EndOf
    <3>2. Len(page.stream) \in Nat /\ Len(old.events) \in Nat
      BY <1>1
    <3>3. Len(page.stream) = n + Len(old.events)
      BY <3>2, <3>a
    <3> QED
      BY <3>1, <3>3 DEF Begun
  <2> QED
    BY <1>a, <2>1, <2>2
<1>16. GoodJournal(saved)' /\ Accounted(new, page.attempt, events)'
  <2>1. AttemptAt(c.attempt, x.task) /\ Accounted(page.stream, c.attempt, old.events)
    BY <1>11, <1>12, <1>13, <1>14
  <2>2. Witnesses(x, c, page.stream, submit) /\ old.finish = None
    BY <1>11, <1>12, <1>a, <1>c DEF Witnesses
  <2>3. Freezes(old, saved, c, submit)
    BY <1>2, <1>11, <1>c, <1>d DEF Freezes
  <2>4. GoodJournal(saved)' /\ Accounted(x.stream, c.attempt, saved.events)'
    BY <1>1, <1>2, <1>5, <1>7, <1>12, <1>15, <2>1, <2>2, <2>3, FrozenJournal
  <2> QED
    BY <1>11, <1>12, <2>4
<1>17. Core(q)'
  <2>1. page.index <= sessions'[Me].index /\ AttemptAt(page.attempt, page.index)'
    <3>1. page.index <= sessions[Me].index
      BY DEF Core
    <3> QED
      BY <1>1, <1>13, <3>1, Stays DEF Grown
  <2>2. OutboxAttempt(q) = page.attempt
    BY <1>6, <1>10, <1>11 DEF OutboxAttempt
  <2> QED
    BY <1>3, <1>9, <1>10, <1>11, <1>16, <2>1, <2>2 DEF Core, OutboxAttempt, Accounted
<1>18. Extends(page, q)
  BY <1>3, <1>10, <1>11, <1>a DEF Extends
<1> QED
  BY <1>6, <1>10, <1>11, <1>17, <1>18

LEMMA NoneLeft == \A s \in Seq(PageEvent) : Len(s) = 0 => s = <<>>
OBVIOUS

\* What is left of an outbox without its first k events.
Left(rest, outbox, k) ==
  /\ k \in 0..Len(outbox)
  /\ rest \in Seq(PageEvent)
  /\ Len(rest) = Len(outbox) - k
  /\ \A i \in 1..(Len(outbox) - k) : rest[i] = outbox[k + i]

HeadStored(a, outbox, k) == \A i \in 1..k : Stored(a, outbox[i])

\* An outbox may lose its first k events if all of them are stored.
LEMMA PruneSound ==
  ASSUME NEW page, Core(page), NEW rest, NEW k, Left(rest, page.saved.events, k),
         page.stream # <<>> \/ page.saved.finish # None
           => HeadStored(OutboxAttempt(page), page.saved.events, k),
         NEW q, q = [page EXCEPT !.saved.events = rest]
  PROVE  /\ Core(q) /\ (Ready(page) => Ready(q))
         /\ q.saved.finish = page.saved.finish /\ q.blocked = page.blocked
<1>a. PICK old, outbox, c : old = page.saved /\ outbox = old.events /\ c = old.finish
  OBVIOUS
<1>b. PICK lo, lr : lo = Len(outbox) /\ lr = Len(rest)
  OBVIOUS
<1>0. /\ rest \in Seq(PageEvent) /\ k \in 0..lo /\ lr = lo - k
      /\ \A i \in 1..(lo - k) : rest[i] = outbox[k + i]
      /\ page.stream # <<>> \/ c # None => \A i \in 1..k : Stored(OutboxAttempt(page), outbox[i])
  BY <1>a, <1>b DEF Left, HeadStored
<1>1. /\ page \in Page /\ old \in Journal /\ GoodJournal(old) /\ outbox \in Seq(PageEvent)
      /\ old.next \in Nat /\ page.stream \in Seq(PageEvent)
  BY <1>a, JournalFields DEF Core, GoodJournal, Page
<1>2. /\ lo \in Nat /\ k \in 0..lo /\ lr = lo - k /\ DOMAIN outbox = 1..lo /\ DOMAIN rest = 1..lr
      /\ \A i \in 1..lr : rest[i] = outbox[k + i]
  BY <1>0, <1>1, <1>a, <1>b
<1>3. \A i \in 1..lo : i \in 1..k \/ (i - k \in 1..lr /\ i = k + (i - k))
  BY <1>2
<1>4. \A i \in 1..lr : k + i \in 1..lo
  BY <1>2
<1>5. \A i \in 1..lo : outbox[i].seq = outbox[1].seq + i - 1 /\ outbox[i].seq \in Nat
  BY <1>1, <1>2, <1>a, EventFields DEF GoodJournal, Chain
<1>6. page.stream # <<>> \/ c # None => \A e : Among(e, outbox) => Among(e, rest) \/ Stored(OutboxAttempt(page), e)
  <2> SUFFICES ASSUME page.stream # <<>> \/ c # None, NEW e, Among(e, outbox)
               PROVE  Among(e, rest) \/ Stored(OutboxAttempt(page), e)
    OBVIOUS
  <2>1. PICK i \in 1..lo : outbox[i] = e
    BY <1>2 DEF Among
  <2>2. CASE i \in 1..k
    BY <1>0, <1>a, <2>1, <2>2
  <2>3. CASE i - k \in 1..lr /\ i = k + (i - k)
    BY <1>2, <2>1, <2>3 DEF Among
  <2> QED
    BY <1>3, <2>2, <2>3
<1>c. PICK saved : saved = [old EXCEPT !.events = rest]
  OBVIOUS
<1>7. /\ saved \in Journal /\ saved.events = rest /\ saved.next = old.next /\ saved.start = old.start
      /\ saved.finish = c /\ saved.attempt = old.attempt
  BY <1>0, <1>1, <1>a, <1>c DEF Journal
<1>8. q = [page EXCEPT !.saved = saved]
  BY <1>1, <1>a, <1>c DEF Page, Journal
<1>9. q \in Page
  BY <1>1, <1>7, <1>8, Zenon DEF Page
<1>10. /\ q.saved = saved /\ q.stream = page.stream /\ q.active = page.active
       /\ q.attempt = page.attempt /\ q.index = page.index /\ q.blocked = page.blocked
  BY <1>1, <1>8 DEF Page
<1>11. \A i \in 1..lr : rest[i].seq = outbox[1].seq + (k + i) - 1
  BY <1>2, <1>4, <1>5
<1>12. Chain(rest)
  <2> SUFFICES ASSUME NEW i \in 1..lr PROVE rest[i].seq = rest[1].seq + i - 1
    BY <1>2 DEF Chain
  <2>1. 1 \in 1..lr /\ lo > 0 /\ 1 \in 1..lo
    BY <1>2
  <2>2. rest[1].seq = outbox[1].seq + (k + 1) - 1 /\ outbox[1].seq \in Nat
    BY <1>5, <1>11, <2>1
  <2> QED
    BY <1>2, <1>11, <2>2
<1>13. GoodJournal(saved)
  <2>1. \A i \in DOMAIN rest : rest[i].type = "submit" =>
          i = Len(rest) /\ c # None /\ rest[i].seq >= c.events[1].seq
    <3> SUFFICES ASSUME NEW i \in 1..lr, rest[i].type = "submit"
                 PROVE  i = lr /\ c # None /\ rest[i].seq >= c.events[1].seq
      BY <1>2, <1>b
    <3>1. k + i \in 1..lo /\ rest[i] = outbox[k + i]
      BY <1>2, <1>4
    <3>2. k + i = lo /\ c # None /\ outbox[k + i].seq >= c.events[1].seq
      BY <1>1, <1>2, <1>a, <1>b, <3>1 DEF GoodJournal
    <3> QED
      BY <1>2, <3>1, <3>2
  <2>2. c = None /\ rest # <<>> => saved.next = rest[1].seq + Len(rest)
    <3> SUFFICES ASSUME c = None, rest # <<>> PROVE saved.next = rest[1].seq + lr
      BY <1>b
    <3>1. 1 \in 1..lr /\ 1 \in 1..lo
      BY <1>2, <1>b
    <3>2. outbox # <<>>
      BY <1>2, <1>b, <3>1
    <3>3. old.next = outbox[1].seq + lo
      BY <1>1, <1>a, <1>b, <3>2 DEF GoodJournal
    <3>4. rest[1].seq = outbox[1].seq + (k + 1) - 1 /\ outbox[1].seq \in Nat
      BY <1>5, <1>11, <3>1
    <3>a. PICK o1, r1 : o1 = outbox[1].seq /\ r1 = rest[1].seq
      OBVIOUS
    <3>5. o1 + lo = r1 + lr
      <4>1. r1 = o1 + (k + 1) - 1 /\ o1 \in Nat /\ lo \in Nat /\ k \in 0..lo /\ lr = lo - k
        BY <1>2, <3>4, <3>a, Zenon
      <4> QED
        BY <4>1
    <3>6. saved.next = o1 + lo
      BY <1>7, <3>3, <3>a, Zenon
    <3> QED
      BY <3>5, <3>6, <3>a, Zenon
  <2>3. old.start # None => rest = <<>>
    <3> SUFFICES ASSUME old.start # None PROVE rest = <<>>
      OBVIOUS
    <3>1. outbox = <<>>
      BY <1>1, <1>a DEF GoodJournal
    <3>2. lo = 0
      BY <1>b, <3>1
    <3>3. lr = 0
      BY <1>2, <3>2
    <3> QED
      BY <1>0, <1>b, <3>3, NoneLeft, Zenon
  <2>4. ASSUME c # None
        PROVE  Backed(c.command, c.attempt, <<c.outcome, c.node>>, c.events, rest)
    <3>1. Backed(c.command, c.attempt, <<c.outcome, c.node>>, c.events, outbox)
      BY <1>1, <1>a, <2>4 DEF GoodJournal
    <3>2. OutboxAttempt(page) = c.attempt
      BY <1>a, <2>4 DEF OutboxAttempt
    <3>3. \A e : Among(e, outbox) => Among(e, rest) \/ Stored(c.attempt, e)
      BY <1>6, <2>4, <3>2
    <3>4. \A stream : EndsWith(stream, c.events, c.attempt, outbox) => EndsWith(stream, c.events, c.attempt, rest)
      BY <3>3 DEF EndsWith
    <3> QED
      BY <3>1, <3>4 DEF Backed
  <2> QED
    BY <1>1, <1>7, <1>12, <1>a, <2>1, <2>2, <2>3, <2>4 DEF GoodJournal
<1>14. OutboxAttempt(q) = OutboxAttempt(page)
  <2>1. q.saved.finish = page.saved.finish /\ q.saved.attempt = page.saved.attempt
    BY <1>7, <1>10, <1>a
  <2>2. CASE c = None
    <3>1. OutboxAttempt(page) = page.saved.attempt /\ OutboxAttempt(q) = q.saved.attempt
      BY <1>a, <2>1, <2>2, Zenon DEF OutboxAttempt
    <3> QED
      BY <2>1, <3>1, Zenon
  <2>3. CASE c # None
    <3>1. OutboxAttempt(page) = page.saved.finish.attempt /\ OutboxAttempt(q) = q.saved.finish.attempt
      BY <1>a, <2>1, <2>3, Zenon DEF OutboxAttempt
    <3> QED
      BY <2>1, <3>1, Zenon
  <2> QED
    BY <2>2, <2>3
<1>15. Core(q)
  <2>1. \A i \in DOMAIN page.stream : Among(page.stream[i], rest) \/ Stored(page.attempt, page.stream[i])
    <3> SUFFICES ASSUME NEW i \in DOMAIN page.stream
                 PROVE  Among(page.stream[i], rest) \/ Stored(page.attempt, page.stream[i])
      OBVIOUS
    <3>1. page.stream # <<>>
      OBVIOUS
    <3>2. OutboxAttempt(page) = page.attempt
      BY <3>1 DEF Core
    <3>3. Among(page.stream[i], outbox) \/ Stored(page.attempt, page.stream[i])
      BY <1>a DEF Core
    <3> QED
      BY <1>6, <3>1, <3>2, <3>3
  <2> QED
    BY <1>7, <1>9, <1>10, <1>13, <1>14, <1>a, <2>1 DEF Core
<1>16. ASSUME Ready(page) PROVE Ready(q)
  <2> SUFFICES ASSUME ~page.blocked, old.start = None, c = None
               PROVE  IF page.attempt = NoAttempt THEN saved = EmptyJournal /\ page.stream = <<>>
                      ELSE old.attempt = page.attempt /\ Placed(q)
    BY <1>7, <1>10 DEF Ready
  <2>1. CASE page.attempt = NoAttempt
    <3>1. old = EmptyJournal /\ page.stream = <<>>
      BY <1>16, <1>a, <2>1 DEF Ready
    <3>2. lo = 0
      BY <1>a, <1>b, <3>1 DEF EmptyJournal
    <3>3. lr = 0
      BY <1>2, <3>2
    <3>4. rest = <<>>
      BY <1>0, <1>b, <3>3, NoneLeft, Zenon
    <3>5. saved = EmptyJournal
      BY <1>c, <3>1, <3>4 DEF EmptyJournal
    <3> QED
      BY <2>1, <3>1, <3>5
  <2>2. CASE page.attempt # NoAttempt
    <3>1. old.attempt = page.attempt /\ Placed(page)
      BY <1>16, <1>a, <2>2 DEF Ready
    <3>a. PICK ls, n : ls = Len(page.stream) /\ n = ls - lo
      OBVIOUS
    <3>2. Numbered(page.stream) /\ old.next = Len(page.stream) + 1 /\ n \in Nat /\ ls \in Nat
          /\ \A i \in 1..lo : outbox[i] = page.stream[n + i]
      <4>1. ls \in Nat /\ n = Len(page.stream) - Len(page.saved.events)
        BY <1>1, <1>a, <1>b, <3>a
      <4>2. Numbered(page.stream) /\ old.next = Len(page.stream) + 1 /\ n \in Nat
            /\ \A i \in DOMAIN outbox : outbox[i] = page.stream[n + i]
        BY <1>a, <3>1, <4>1, Zenon DEF Placed
      <4> QED
        BY <1>2, <4>1, <4>2
    <3>3. ls - lr = n + k /\ n + k \in Nat
      BY <1>2, <3>2, <3>a, SMTT(20)
    <3>4. \A i \in 1..lr : rest[i] = page.stream[(n + k) + i]
      <4> SUFFICES ASSUME NEW i \in 1..lr PROVE rest[i] = page.stream[(n + k) + i]
        OBVIOUS
      <4>1. n + (k + i) = (n + k) + i
        BY <1>2, <3>2
      <4>2. outbox[k + i] = page.stream[n + (k + i)]
        BY <1>4, <3>2
      <4> QED
        BY <1>2, <4>1, <4>2
    <3>5. Placed(q)
      <4>1. Len(q.stream) - Len(q.saved.events) = n + k /\ DOMAIN q.saved.events = 1..lr
        BY <1>2, <1>7, <1>10, <1>b, <3>3, <3>a
      <4> QED
        BY <1>7, <1>10, <3>2, <3>3, <3>4, <4>1 DEF Placed
    <3> QED
      BY <2>2, <3>1, <3>5
  <2> QED
    BY <2>1, <2>2
<1> QED
  BY <1>7, <1>10, <1>15, <1>16, <1>a

\* The storage listener of another tab hears of a journal.
LEMMA NewsSound ==
  ASSUME NEW page, Sound(page), NEW news \in SUBSET ({None} \cup Journal)
  PROVE  Sound([page EXCEPT !.news = news])
<1> DEFINE q == [page EXCEPT !.news = news]
<1>1. page \in Page
  BY DEF Sound, Core
<1>2. q \in Page
  BY <1>1, Zenon DEF Page
<1>3. /\ q.saved = page.saved /\ q.index = page.index /\ q.attempt = page.attempt
      /\ q.stream = page.stream /\ q.active = page.active /\ q.blocked = page.blocked
      /\ q.doing = page.doing /\ q.call = page.call /\ q.reply = page.reply
  BY <1>1 DEF Page
<1> HIDE DEF q
<1>4. Core(q)
  BY <1>2, <1>3, CoreSame DEF Sound
<1>5. Ready(page) => Ready(q)
  BY <1>3, ReadySame
<1>6. (Fresh(page) => Fresh(q)) /\ (Told(page) => Told(q))
  BY <1>3 DEF Fresh, Told
<1>7. Busy(page) => Busy(q)
  BY <1>3 DEF Busy, Carries, OutboxAttempt
<1> QED
  BY <1>3, <1>4, <1>5, <1>6, <1>7 DEF Sound, q

\* An answer reaches a page.
LEMMA ReplySound ==
  ASSUME NEW page, Sound(page), NEW reply, NEW q, q = [page EXCEPT !.reply = reply],
         reply \in {None, Conflict, Failure} \cup [status: {"ok"}, value: [next_seq: Nat] \cup SessionView],
         Told(q)
  PROVE  Sound(q)
<1>1. page \in Page
  BY DEF Sound, Core
<1>2. q \in Page
  BY <1>1, Zenon DEF Page
<1>3. /\ q.saved = page.saved /\ q.index = page.index /\ q.attempt = page.attempt
      /\ q.stream = page.stream /\ q.active = page.active /\ q.blocked = page.blocked
      /\ q.doing = page.doing /\ q.call = page.call
  BY <1>1 DEF Page
<1>4. Core(q)
  BY <1>2, <1>3, CoreSame DEF Sound
<1>5. Ready(page) => Ready(q)
  BY <1>3, ReadySame
<1>6. Fresh(page) => Fresh(q)
  BY <1>3 DEF Fresh
<1>7. Busy(page) => Busy(q)
  BY <1>3 DEF Busy, Carries, OutboxAttempt
<1> QED
  BY <1>3, <1>4, <1>5, <1>6, <1>7 DEF Sound

-----------------------------------------------------------------------------
(* The invariant, step by step.                                            *)

NewsHarmless ==
  \A p : Sound(p) => \A n \in SUBSET ({None} \cup Journal) : Sound([p EXCEPT !.news = n])

LEMMA NewsStays == NewsHarmless
BY NewsSound DEF NewsHarmless

LEMMA FitFinish ==
  \A page : Core(page) /\ page.saved.finish # None => Fit(SendFinish(page))
BY SendFinishSound

\* What was true of pages and messages is true after a step that only adds.
LEMMA Carried ==
  ASSUME ClientInv, [S!Next]_(S!vars), confirmed \subseteq confirmed'
  PROVE  /\ S!IInv' /\ Grown
         /\ \A j : j = journal => GoodJournal(j)'
         /\ \A t \in Pages : \A p : p = pages[t] => Sound(p)'
         /\ \A m \in sent : GoodRequest(m)'
<1>1. S!IInv' /\ Grown
  BY ServerStep DEF ClientInv
<1>2. \A j : j = journal => GoodJournal(j)'
  BY <1>1, JournalStays DEF ClientInv
<1>3. \A t \in Pages : \A p : p = pages[t] => Sound(p)'
  BY <1>1, PageStays DEF ClientInv
<1>4. \A m \in sent : GoodRequest(m)'
  BY <1>1, JournalStays DEF ClientInv
<1> QED
  BY <1>1, <1>2, <1>3, <1>4

\* Pages that act alone leave the server where it is.
LEMMA Still == UNCHANGED server => [S!Next]_(S!vars)
BY DEF server, S!vars

\* A step of one page, which may persist and confirm.
LEMMA PageKeeps ==
  ASSUME ClientInv, UNCHANGED server, confirmed \subseteq confirmed',
         \A x \in confirmed' : x \in confirmed \/ x.task \in 0..sessions[Me].index,
         NEW t \in Pages, NEW page, Fit(page)', Step(t, page) \/ Persist(t, page)
  PROVE  ClientInv'
<1>1. /\ S!IInv' /\ Grown
      /\ \A j : j = journal => GoodJournal(j)'
      /\ \A u \in Pages : \A p : p = pages[u] => Sound(p)'
      /\ \A m \in sent : GoodRequest(m)'
  BY Carried, Still
<1>2. /\ Sound(page)' /\ GoodJournal(page.saved)' /\ page.saved \in Journal
      /\ page.call \in {None, SessionRequest} \/ page.call \in Sending(page)
      /\ \A m \in Sending(page) : GoodRequest(m)'
  BY DEF Fit, Sound, Core, GoodJournal, Sending
<1>3. GoodJournal(journal)'
  <2>1. CASE Step(t, page)
    BY <1>1, <2>1 DEF Step
  <2>2. CASE Persist(t, page)
    BY <1>2, <2>2 DEF Persist
  <2> QED
    BY <2>1, <2>2
<1>4. sent' = sent \cup Sending(page) /\ loads' = loads
  BY DEF Step, Persist
<1>5. \A u \in Pages : pages'[u] = pages[u] \/ pages'[u] = page
        \/ pages'[u] = [pages[u] EXCEPT !.news = @ \cup {page.saved}]
  <2>1. CASE Step(t, page)
    BY <2>1 DEF Step, ClientInv
  <2>2. CASE Persist(t, page)
    BY <2>2 DEF Persist
  <2> QED
    BY <2>1, <2>2
<1>6. pages' = [u \in Pages |-> pages'[u]]
  <2>1. CASE Step(t, page)
    BY <2>1 DEF Step, ClientInv
  <2>2. CASE Persist(t, page)
    BY <2>2 DEF Persist
  <2> QED
    BY <2>1, <2>2
<1>7. \A u \in Pages : Sound(pages[u])' /\ pages'[u].call \in sent' \cup {None, SessionRequest}
  <2> SUFFICES ASSUME NEW u \in Pages
               PROVE  Sound(pages[u])' /\ pages'[u].call \in sent' \cup {None, SessionRequest}
    OBVIOUS
  <2>a. PICK o : o = pages[u]
    OBVIOUS
  <2>b. PICK q : q = pages'[u]
    OBVIOUS
  <2>1. Sound(o)' /\ o \in Page /\ o.call \in sent \cup {None, SessionRequest}
    BY <1>1, <2>a DEF ClientInv, Sound, Core
  <2>2. CASE q = o
    BY <1>4, <2>1, <2>2, <2>b
  <2>3. CASE q = page
    BY <1>2, <1>4, <2>3, <2>b
  <2>4. CASE q = [o EXCEPT !.news = @ \cup {page.saved}]
    <3>1. PICK news : news = o.news \cup {page.saved}
      OBVIOUS
    <3>2. news \in SUBSET ({None} \cup Journal)
      BY <1>2, <2>1, <3>1 DEF Page
    <3>3. q = [o EXCEPT !.news = news]
      BY <2>4, <3>1
    <3>4. NewsHarmless'
      BY NewsStays, PTL
    <3>5. Sound(q)'
      BY <2>1, <3>2, <3>3, <3>4 DEF NewsHarmless
    <3>6. q.call = o.call
      BY <2>1, <3>3 DEF Page
    <3> QED
      BY <1>4, <2>1, <2>b, <3>5, <3>6
  <2> QED
    BY <1>5, <2>2, <2>3, <2>4, <2>a, <2>b
<1>8. \A m \in sent' : GoodRequest(m)'
  BY <1>1, <1>2, <1>4
<1>9. \A c \in confirmed' : c.task \in 0..sessions'[Me].index
  BY DEF ClientInv, server
<1>10. WholeStream'
  BY DEF ClientInv, WholeStream, server
<1> QED
  BY <1>1, <1>3, <1>4, <1>6, <1>7, <1>8, <1>9, <1>10 DEF ClientInv

\* The common case: nothing is confirmed.
LEMMA PlainKeeps ==
  ASSUME ClientInv, UNCHANGED confirmed, NEW t \in Pages, NEW page, Fit(page),
         Step(t, page) \/ Persist(t, page)
  PROVE  ClientInv'
<1>1. UNCHANGED server
  BY DEF Step, Persist
<1>2. Grown
  BY <1>1, Carried, Still
<1>3. Fit(page)'
  <2>1. Sound(page)'
    BY <1>2, PageStays DEF Fit
  <2>2. \A m \in Sending(page) : GoodRequest(m)'
    BY <1>2, JournalStays DEF Fit
  <2> QED
    BY <2>1, <2>2 DEF Fit
<1> QED
  BY <1>1, <1>3, PageKeeps

\* What the invariant says of a page.
LEMMA PageFacts ==
  ASSUME ClientInv, NEW t \in Pages, NEW p, p = pages[t]
  PROVE  /\ Sound(p) /\ Core(p) /\ p \in Page /\ GoodJournal(p.saved) /\ p.saved \in Journal
         /\ p.doing \notin {"closed", "loading"} => Ready(p)
         /\ p.call \in sent \cup {None, SessionRequest}
         /\ \A m \in Sending(p) : GoodRequest(m)
BY DEF ClientInv, Sound, Core, GoodJournal, Sending

\* A page that is about to read the session.
LEMMA LoadingSound ==
  ASSUME NEW q \in Page, q.doing = "loading", q.call = SessionRequest, q.reply = None, Fresh(q),
         GoodJournal(q.saved), q.index <= sessions[Me].index
  PROVE  Fit(q)
<1>1. Core(q)
  BY DEF Core, Fresh
<1>2. SessionRequest # None
  BY NoneAssumption
<1>3. Busy(q)
  BY <1>2 DEF Busy, Checkpoints
<1>4. Told(q) /\ Sending(q) = {}
  BY DEF Told, Sending
<1> QED
  BY <1>1, <1>3, <1>4 DEF Fit, Sound

\* One lemma per step of a page: it keeps the invariant.
LEMMA LoadFailsKeeps ==
  ASSUME ClientInv, NEW t \in Pages, LoadFails(t)
  PROVE  ClientInv'
<1>a. PICK p : p = pages[t]
  OBVIOUS
<1>b. PICK q : q = [p EXCEPT !.saved = journal, !.reply = None]
  OBVIOUS
<1>1. Sound(p) /\ Core(p) /\ p \in Page
  BY <1>a, PageFacts
<1>2. p.doing = "loading" /\ p.call = SessionRequest /\ Fresh(p)
  BY <1>1, <1>a DEF LoadFails, Answered, Sound, Busy
<1>3. GoodJournal(journal) /\ journal \in Journal
  BY DEF ClientInv, GoodJournal
<1>4. q \in Page
  BY <1>1, <1>3, <1>b, Zenon DEF Page
<1>5. /\ q.doing = "loading" /\ q.call = SessionRequest /\ q.reply = None /\ q.saved = journal
      /\ q.index = p.index /\ q.attempt = p.attempt /\ q.stream = p.stream /\ q.active = p.active
  BY <1>1, <1>2, <1>b DEF Page
<1>6. Fit(q)
  BY <1>1, <1>2, <1>3, <1>4, <1>5, LoadingSound DEF Core, Fresh
<1>7. Step(t, q) /\ UNCHANGED confirmed
  BY <1>a, <1>b DEF LoadFails
<1> QED
  BY <1>6, <1>7, PlainKeeps

\* init: an event that the session shows is stored, the outbox is cut at its number.
LEMMA ReconciledRest ==
  ASSUME NEW v, GoodView(v), v.attempt # NoAttempt, NEW outbox \in Seq(PageEvent), Chain(outbox),
         Reconcilable(v.events, outbox, v.next_seq)
  PROVE  \E k : Left(Reconciled(outbox, v.next_seq), outbox, k) /\ HeadStored(v.attempt, outbox, k)
<1>1. v.next_seq \in Nat
  BY ViewFields
<1>2. PICK k \in 0..Len(outbox) :
        /\ AckEvents(outbox, v.next_seq) \in Seq(PageEvent)
        /\ Len(AckEvents(outbox, v.next_seq)) = Len(outbox) - k
        /\ \A i \in 1..(Len(outbox) - k) : AckEvents(outbox, v.next_seq)[i] = outbox[k + i]
        /\ \A i \in 1..Len(outbox) : outbox[i].seq < v.next_seq <=> i <= k
  BY <1>1, Acknowledged
<1>3. \A i \in 1..k : Stored(v.attempt, outbox[i])
  <2> SUFFICES ASSUME NEW i \in 1..k PROVE Stored(v.attempt, outbox[i])
    OBVIOUS
  <2>1. i \in DOMAIN outbox /\ i \in 1..Len(outbox)
    BY <1>2
  <2>2. outbox[i].seq < v.next_seq
    BY <1>2, <2>1
  <2>3. PICK j \in DOMAIN v.events : v.events[j].seq = outbox[i].seq
    BY <2>1, <2>2 DEF Reconcilable
  <2>4. outbox[i] = v.events[j]
    BY <2>1, <2>3 DEF Reconcilable
  <2> QED
    BY <2>3, <2>4 DEF GoodView
<1> QED
  BY <1>2, <1>3 DEF Reconciled, Left, HeadStored

\* init: the journal is reconciled with the session that was read.
LEMMA LoadKeeps ==
  ASSUME ClientInv, NEW t \in Pages, Load(t)
  PROVE  ClientInv'
<1>a. PICK p : p = pages[t]
  OBVIOUS
<1>b. PICK v : v = p.reply.value
  OBVIOUS
<1>c. PICK page : page = Shown(p, v)
  OBVIOUS
<1>d. PICK rest : rest = [page EXCEPT !.saved.events = Reconciled(@, v.next_seq)]
  OBVIOUS
<1>e. PICK c : c = page.saved.finish
  OBVIOUS
<1>1. Sound(p) /\ Core(p) /\ p \in Page /\ GoodJournal(p.saved) /\ p.saved \in Journal
  BY <1>a, PageFacts
<1>2. p.doing = "loading" /\ p.reply # None /\ p.reply # Failure
  BY <1>a DEF Load, Answered
<1>3. GoodView(v)
  BY <1>1, <1>2, <1>b DEF Sound, Told, Checkpoints
<1>4. /\ Core(page) /\ page \in Page /\ page.saved = p.saved /\ page.attempt = v.attempt
      /\ page.stream = <<>> /\ page.saved.events \in Seq(PageEvent) /\ Chain(page.saved.events)
      /\ GoodJournal(page.saved)
  <2>1. Core(page) /\ page.saved = p.saved /\ page.attempt = v.attempt /\ page.stream = <<>>
    BY <1>1, <1>3, <1>c, ShownSound
  <2> QED
    BY <1>1, <2>1, JournalFields DEF Core, GoodJournal
<1>5. /\ UNCHANGED confirmed
      /\ IF c # None
         THEN IF v.attempt # c.attempt THEN Step(t, SendFinish(page))
              ELSE IF Reconcilable(v.events, page.saved.events, v.next_seq)
              THEN Persist(t, SendFinish(rest))
              ELSE Step(t, Blocked(page))
         ELSE IF page.saved.start # None THEN Step(t, Starting(page, FALSE))
         ELSE IF Unacceptable(page, v) THEN Step(t, Blocked(page))
         ELSE Persist(t, Idle(Entered(Restored(page, v, FALSE), TRUE)))
  BY <1>a, <1>b, <1>c, <1>d, <1>e, Zenon DEF Load
<1>6. \E q : Fit(q) /\ (Step(t, q) \/ Persist(t, q))
  <2>1. CASE c # None /\ v.attempt # c.attempt
    <3>1. Fit(SendFinish(page)) /\ Step(t, SendFinish(page))
      BY <1>4, <1>5, <1>e, <2>1, SendFinishSound
    <3> QED
      BY <3>1
  <2>2. CASE c # None /\ v.attempt = c.attempt /\ Reconcilable(v.events, page.saved.events, v.next_seq)
    <3>1. c.attempt \in AttemptIds /\ c.attempt # NoAttempt
      <4>1. c \in FinishCommand
        BY <1>4, <1>e, <2>2, JournalFields DEF GoodJournal
      <4> QED
        BY <4>1, SessionAssumption DEF FinishCommand
    <3>a. PICK left : left = Reconciled(page.saved.events, v.next_seq)
      OBVIOUS
    <3>2. PICK k : Left(left, page.saved.events, k) /\ HeadStored(c.attempt, page.saved.events, k)
      BY <1>3, <1>4, <2>2, <3>1, <3>a, ReconciledRest
    <3>3. rest = [page EXCEPT !.saved.events = left]
      BY <1>4, <1>d, <3>a DEF Page, Journal
    <3>4. OutboxAttempt(page) = c.attempt
      BY <1>e, <2>2 DEF OutboxAttempt
    <3>5. Core(rest) /\ rest.saved.finish = c
      BY <1>4, <1>e, <3>2, <3>3, <3>4, PruneSound
    <3>6. Fit(SendFinish(rest)) /\ Persist(t, SendFinish(rest))
      BY <1>5, <2>2, <3>5, SendFinishSound
    <3> QED
      BY <3>6
  <2>3. CASE c # None /\ v.attempt = c.attempt /\ ~Reconcilable(v.events, page.saved.events, v.next_seq)
    <3>1. Fit(Blocked(page)) /\ Step(t, Blocked(page))
      BY <1>4, <1>5, <2>3, BlockedSound
    <3> QED
      BY <3>1
  <2>4. CASE c = None /\ page.saved.start # None
    <3>1. Fit(Starting(page, FALSE)) /\ Step(t, Starting(page, FALSE))
      BY <1>4, <1>5, <1>e, <2>4, StartingSound
    <3> QED
      BY <3>1
  <2>5. CASE c = None /\ page.saved.start = None /\ Unacceptable(page, v)
    <3>1. Fit(Blocked(page)) /\ Step(t, Blocked(page))
      BY <1>4, <1>5, <2>5, BlockedSound
    <3> QED
      BY <3>1
  <2>6. CASE c = None /\ page.saved.start = None /\ ~Unacceptable(page, v)
    <3>a. PICK r : r = Restored(page, v, FALSE)
      OBVIOUS
    <3>b. PICK e : e = Entered(r, TRUE)
      OBVIOUS
    <3>1. Core(r) /\ Ready(r)
      BY <1>3, <1>4, <1>e, <2>6, <3>a, RestoredSound
    <3>2. Core(e) /\ Ready(e)
      BY <3>1, <3>b, EnteredSound
    <3>3. Fit(Idle(e)) /\ Persist(t, Idle(e))
      BY <1>5, <2>6, <3>2, <3>a, <3>b, IdleSound
    <3> QED
      BY <3>3
  <2> QED
    BY <2>1, <2>2, <2>3, <2>4, <2>5, <2>6
<1> QED
  BY <1>5, <1>6, PlainKeeps

\* The answers that a call may have.
LEMMA ReplyCases ==
  ASSUME NEW page, Sound(page), page.reply # None, page.reply # Failure, page.reply # Conflict
  PROVE  /\ page.doing \in Checkpoints =>
              /\ page.reply.value.next_seq \in Nat
              /\ \A i \in DOMAIN page.call.events : Stored(page.call.attempt, page.call.events[i])
         /\ page.doing \notin Checkpoints => GoodView(page.reply.value)
         /\ page.doing = "starting" =>
              page.reply.value.attempt # NoAttempt /\ page.reply.value.events = <<>>
BY DEF Sound, Told

\* A step confirms one answer at most, the one that page q then holds frozen.
Confirming(q) ==
  \E c : /\ confirmed' = confirmed \cup {c}
         /\ c.task = q.index
         /\ c.answer = <<q.saved.finish.outcome, q.saved.finish.node>>
         /\ q.saved.finish # None

\* A confirmed answer is the one that the page holds frozen.
LEMMA Confirmed ==
  ASSUME NEW new \in Page, new.saved.finish # None, confirmed' = confirmed \cup {Confirmation(new)},
         NEW q, q = SendFinish(new) \/ q = [new EXCEPT !.doing = "waiting"],
         NEW t \in Pages, Persist(t, q)
  PROVE  Confirming(pages'[t])
<1>1. q.saved = new.saved /\ q.index = new.index
  <2>1. CASE q = SendFinish(new)
    BY <2>1, SMT DEF SendFinish, Blocked, Idle, Calling, Page
  <2>2. CASE q = [new EXCEPT !.doing = "waiting"]
    BY <2>2, SMT DEF Page
  <2> QED
    BY <2>1, <2>2
<1>2. pages'[t] = q
  BY DEF Persist
<1>3. /\ Confirmation(new).task = q.index
      /\ Confirmation(new).answer = <<q.saved.finish.outcome, q.saved.finish.node>>
      /\ q.saved.finish # None
  BY <1>1 DEF Confirmation
<1> QED
  BY <1>2, <1>3 DEF Confirming

\* start, after the call: the session shows the attempt; a skip is frozen at once.
LEMMA StartedKeeps ==
  ASSUME ClientInv, NEW t \in Pages, Started(t)
  PROVE  ClientInv' /\ (UNCHANGED confirmed \/ Confirming(pages'[t]))
<1>a. PICK p : p = pages[t]
  OBVIOUS
<1>b. PICK v : v = p.reply.value
  OBVIOUS
<1>c. PICK start : start = p.saved.start
  OBVIOUS
<1>d. PICK shown : shown = Restored(p, v, start.skip)
  OBVIOUS
<1>e. PICK skipped : skipped = Freeze(shown, "skipped", Root, start.stamp)
  OBVIOUS
<1>1. Sound(p) /\ Core(p) /\ p \in Page /\ GoodJournal(p.saved) /\ p.saved \in Journal
  BY <1>a, PageFacts
<1>2. p.doing = "starting" /\ p.reply # None /\ Ready(p) /\ start # None /\ start \in StartCommand
      /\ p.saved.finish = None
  <2>1. p.doing = "starting" /\ p.reply # None
    BY <1>a DEF Started, Answered
  <2>2. start # None /\ Ready(p)
    BY <1>1, <1>c, <2>1 DEF Sound, Busy
  <2> QED
    BY <1>1, <1>c, <2>1, <2>2, JournalFields DEF GoodJournal
<1>3. start.skip \in BOOLEAN /\ (start.skip => start.stamp \in [id: Nat \X Nat, epoch: Nat])
  BY <1>2 DEF StartCommand
<1>4. IF p.reply = Failure THEN Step(t, Idle(p)) /\ UNCHANGED confirmed
      ELSE IF p.reply = Conflict THEN Step(t, Blocked(p)) /\ UNCHANGED confirmed
      ELSE IF Unacceptable(p, v)
      THEN Step(t, Blocked(Shown(p, v))) /\ UNCHANGED confirmed
      ELSE IF start.skip /\ ~p.blocked
      THEN /\ Persist(t, SendFinish(skipped))
           /\ confirmed' = confirmed \cup {Confirmation(skipped)}
      ELSE /\ Persist(t, Idle(IF start.skip THEN shown ELSE Entered(shown, TRUE)))
           /\ UNCHANGED confirmed
  BY <1>a, <1>b, <1>c, <1>d, <1>e, Zenon DEF Started
<1>5. CASE p.reply = Failure
  <2>1. Fit(Idle(p)) /\ Step(t, Idle(p)) /\ UNCHANGED confirmed
    BY <1>1, <1>2, <1>4, <1>5, IdleSound
  <2>2. \E q : Fit(q) /\ Step(t, q)
    BY <2>1
  <2> QED
    BY <2>1, <2>2, PlainKeeps
<1>6. CASE p.reply = Conflict /\ p.reply # Failure
  <2>1. Fit(Blocked(p)) /\ Step(t, Blocked(p)) /\ UNCHANGED confirmed
    BY <1>1, <1>4, <1>6, BlockedSound
  <2>2. \E q : Fit(q) /\ Step(t, q)
    BY <2>1
  <2> QED
    BY <2>1, <2>2, PlainKeeps
<1>7. CASE p.reply # Conflict /\ p.reply # Failure
  <2>1. GoodView(v) /\ v.attempt # NoAttempt /\ v.events = <<>>
    BY <1>1, <1>2, <1>7, <1>b, ReplyCases DEF Checkpoints
  <2>2. CASE Unacceptable(p, v)
    <3>1. Core(Shown(p, v))
      BY <1>1, <2>1, ShownSound
    <3>2. Fit(Blocked(Shown(p, v))) /\ Step(t, Blocked(Shown(p, v))) /\ UNCHANGED confirmed
      BY <1>4, <1>7, <2>2, <3>1, BlockedSound
    <3>3. \E q : Fit(q) /\ Step(t, q)
      BY <3>2
    <3> QED
      BY <3>2, <3>3, PlainKeeps
  <2>3. CASE ~Unacceptable(p, v)
    <3>1. /\ Core(shown) /\ Ready(shown) /\ shown.saved.finish = None
          /\ shown.attempt = v.attempt /\ shown.index = v.index
          /\ shown.saved.start = IF start.skip THEN start ELSE None
      <4>1. start.skip => p.saved.start # None /\ v.events = <<>> /\ v.attempt # NoAttempt
        BY <1>2, <1>c, <2>1
      <4> QED
        BY <1>1, <1>2, <1>3, <1>c, <1>d, <2>1, <2>3, <4>1, RestoredSound
    <3>2. CASE start.skip /\ ~p.blocked
      <4>1. /\ Persist(t, SendFinish(skipped))
            /\ confirmed' = confirmed \cup {Confirmation(skipped)}
        BY <1>4, <1>7, <2>3, <3>2
      <4>2. UNCHANGED server /\ Grown
        <5>1. UNCHANGED server /\ confirmed \subseteq confirmed'
          BY <4>1 DEF Persist
        <5> QED
          BY <5>1, Carried, Still
      <4>3. /\ Core(skipped)' /\ skipped.saved.finish # None /\ skipped.index = v.index
        <5>1. "skipped" \in Outcomes /\ Root \in Places
          BY PlacesHold DEF Outcomes
        <5>2. Confirmation(skipped) \in confirmed'
          BY <4>1
        <5>3. shown.attempt # NoAttempt /\ shown.saved.start # None
          BY <1>2, <2>1, <3>1, <3>2
        <5> QED
          BY <1>3, <1>e, <3>1, <3>2, <4>2, <5>1, <5>2, <5>3, FreezeSound
      <4>a. PICK q : q = SendFinish(skipped)
        OBVIOUS
      <4>4. Fit(q)'
        <5>1. (\A page : Core(page) /\ page.saved.finish # None => Fit(SendFinish(page)))'
          BY FitFinish, PTL
        <5>2. Fit(SendFinish(skipped))'
          BY <4>3, <5>1
        <5> QED
          BY <4>a, <5>2
      <4>5. \A x \in confirmed' : x \in confirmed \/ x.task \in 0..sessions[Me].index
        <5>1. Confirmation(skipped).task = v.index
          BY <4>3 DEF Confirmation
        <5>2. v.index \in 0..sessions[Me].index
          <6>1. v.index <= sessions[Me].index
            BY <2>1 DEF GoodView
          <6>2. v.index \in Nat /\ sessions[Me].index \in Nat
            BY <2>1, ViewFields, ServerTyped DEF ClientInv, S!IInv
          <6> QED
            BY <6>1, <6>2
        <5> QED
          BY <4>1, <5>1, <5>2
      <4>6. Confirming(pages'[t])
        <5>1. skipped \in Page
          BY <4>3 DEF Core
        <5> QED
          BY <4>1, <4>3, <4>a, <5>1, Confirmed
      <4>7. ClientInv'
        BY <4>1, <4>2, <4>4, <4>5, <4>a, PageKeeps
      <4> QED
        BY <4>6, <4>7
    <3>3. CASE ~(start.skip /\ ~p.blocked)
      <4>a. PICK e : e = IF start.skip THEN shown ELSE Entered(shown, TRUE)
        OBVIOUS
      <4>1. Core(e) /\ Ready(e)
        BY <3>1, <4>a, EnteredSound
      <4>2. Fit(Idle(e)) /\ Persist(t, Idle(e)) /\ UNCHANGED confirmed
        BY <1>4, <1>7, <2>3, <3>3, <4>1, <4>a, IdleSound
      <4>3. \E q : Fit(q) /\ Persist(t, q)
        BY <4>2
      <4> QED
        BY <4>2, <4>3, PlainKeeps
    <3> QED
      BY <3>2, <3>3
  <2> QED
    BY <2>2, <2>3
<1> QED
  BY <1>5, <1>6, <1>7

\* checkpoint: the events that the outbox loses were in the batch that was accepted.
LEMMA AcknowledgedHead ==
  ASSUME NEW outbox \in Seq(PageEvent), Chain(outbox), NEW batch \in Seq(PageEvent),
         Len(batch) \in 1..Len(outbox), \A i \in DOMAIN batch : batch[i] = outbox[i],
         NEW n \in Nat, Acknowledgeable(batch, n)
  PROVE  \E k \in 0..Len(batch) : Left(AckEvents(outbox, n), outbox, k)
<1>a. PICK lb, lo : lb = Len(batch) /\ lo = Len(outbox)
  OBVIOUS
<1>1. PICK k \in 0..Len(outbox) :
        /\ AckEvents(outbox, n) \in Seq(PageEvent)
        /\ Len(AckEvents(outbox, n)) = Len(outbox) - k
        /\ \A i \in 1..(Len(outbox) - k) : AckEvents(outbox, n)[i] = outbox[k + i]
        /\ \A i \in 1..Len(outbox) : outbox[i].seq < n <=> i <= k
  BY Acknowledged
<1>2. lb \in 1..lo /\ lo \in Nat /\ k \in 0..lo /\ DOMAIN outbox = 1..lo /\ DOMAIN batch = 1..lb
  BY <1>1, <1>a
<1>3. n <= outbox[lb].seq + 1
  <2>1. batch # <<>>
    BY <1>2, <1>a
  <2>2. n <= batch[lb].seq + 1
    BY <1>a, <2>1 DEF Acknowledgeable
  <2> QED
    BY <1>2, <2>2
<1>4. k <= lb
  <2> SUFFICES ASSUME k > lb PROVE FALSE
    BY <1>2
  <2>1. lb + 1 \in 1..lo /\ lb + 1 <= k
    BY <1>2
  <2>2. outbox[lb + 1].seq < n
    BY <1>1, <1>a, <2>1
  <2>3. outbox[lb + 1].seq = outbox[1].seq + (lb + 1) - 1 /\ outbox[lb].seq = outbox[1].seq + lb - 1
        /\ outbox[1].seq \in Nat
    <3>1. lb + 1 \in DOMAIN outbox /\ lb \in DOMAIN outbox /\ 1 \in DOMAIN outbox
      BY <1>2, <2>1
    <3> QED
      BY <3>1, EventFields DEF Chain
  <2> QED
    BY <1>2, <1>3, <2>2, <2>3, SMTT(20)
<1> QED
  BY <1>1, <1>2, <1>4, <1>a DEF Left

\* checkpoint, after the call: what was acknowledged leaves the outbox.
LEMMA CheckpointedKeeps ==
  ASSUME ClientInv, NEW t \in Pages, Checkpointed(t)
  PROVE  ClientInv'
<1>a. PICK p : p = pages[t]
  OBVIOUS
<1>b. PICK n : n = p.reply.value.next_seq
  OBVIOUS
<1>c. PICK pruned : pruned = [p EXCEPT !.saved.events = AckEvents(@, n)]
  OBVIOUS
<1>1. Sound(p) /\ Core(p) /\ p \in Page /\ GoodJournal(p.saved) /\ p.saved \in Journal
  BY <1>a, PageFacts
<1>2. p.doing \in Checkpoints /\ p.reply # None /\ Ready(p) /\ Carries(p)
      /\ (p.doing = "flushing" <=> p.saved.finish = None)
  <2>1. p.doing \in Checkpoints /\ p.reply # None
    BY <1>a DEF Checkpointed, Answered, Checkpoints
  <2> QED
    BY <1>1, <2>1 DEF Sound, Busy, Checkpoints
<1>3. /\ UNCHANGED confirmed
      /\ IF p.reply = Failure
         THEN Step(t, IF p.doing = "waiting" THEN SendFinish(p) ELSE Idle(p))
         ELSE IF p.reply = Conflict
                 \/ ~(/\ p.saved.attempt = p.call.attempt
                      /\ Acknowledgeable(p.call.events, n)
                      /\ AckEvents(p.call.events, n) = <<>>)
         THEN Step(t, Blocked(p))
         ELSE Persist(t, IF p.doing = "flushing" THEN Flushing(pruned) ELSE SendFinish(pruned))
  BY <1>a, <1>b, <1>c, Zenon DEF Checkpointed
<1>4. \E q : Fit(q) /\ (Step(t, q) \/ Persist(t, q))
  <2>1. CASE p.reply = Failure
    <3>1. Fit(IF p.doing = "waiting" THEN SendFinish(p) ELSE Idle(p))
      BY <1>1, <1>2, SendFinishSound, IdleSound
    <3> QED
      BY <1>3, <2>1, <3>1
  <2>2. CASE p.reply # Failure /\ (p.reply = Conflict \/ ~Acknowledgeable(p.call.events, n)
             \/ p.saved.attempt # p.call.attempt \/ AckEvents(p.call.events, n) # <<>>)
    <3>1. Fit(Blocked(p)) /\ Step(t, Blocked(p))
      BY <1>1, <1>3, <2>2, BlockedSound
    <3> QED
      BY <3>1
  <2>3. CASE p.reply # Failure /\ p.reply # Conflict /\ p.saved.attempt = p.call.attempt
             /\ Acknowledgeable(p.call.events, n) /\ AckEvents(p.call.events, n) = <<>>
    <3>1. n \in Nat /\ \A i \in DOMAIN p.call.events : Stored(p.call.attempt, p.call.events[i])
      BY <1>1, <1>2, <1>b, <2>3, ReplyCases
    <3>a. PICK batch, outbox : batch = p.call.events /\ outbox = p.saved.events
      OBVIOUS
    <3>2. /\ outbox \in Seq(PageEvent) /\ Chain(outbox)
          /\ Len(batch) \in 1..Len(outbox) /\ \A i \in DOMAIN batch : batch[i] = outbox[i]
      BY <1>1, <1>2, <3>a, JournalFields DEF GoodJournal, Carries
    <3>3. batch \in Seq(PageEvent)
      <4>1. p.call \in Request /\ p.call.kind = "events"
        <5>1. p.call.kind = "events" /\ p.call # None
          BY <1>1, <1>2 DEF Carries, Sound, Busy, Checkpoints
        <5>2. SessionRequest.kind # "events"
          BY DEF SessionRequest
        <5> QED
          BY <1>1, <5>1, <5>2 DEF Page
      <4> QED
        BY <3>a, <4>1 DEF Request
    <3>b. PICK left : left = AckEvents(outbox, n)
      OBVIOUS
    <3>4. PICK k \in 0..Len(batch) : Left(left, outbox, k)
      BY <2>3, <3>1, <3>2, <3>3, <3>a, <3>b, AcknowledgedHead
    <3>5. HeadStored(p.call.attempt, outbox, k)
      <4>1. \A i \in 1..k : i \in DOMAIN batch
        BY <3>3, <3>4
      <4> QED
        BY <3>1, <3>2, <3>a, <4>1 DEF HeadStored
    <3>6. p.stream # <<>> \/ p.saved.finish # None => p.call.attempt = OutboxAttempt(p)
      BY <1>2 DEF Carries
    <3>7. pruned = [p EXCEPT !.saved.events = left]
      BY <1>1, <1>c, <3>a, <3>b DEF Page, Journal
    <3>8. Core(pruned) /\ (Ready(p) => Ready(pruned)) /\ pruned.saved.finish = p.saved.finish
      BY <1>1, <3>4, <3>5, <3>6, <3>7, <3>a, PruneSound
    <3>9. Fit(IF p.doing = "flushing" THEN Flushing(pruned) ELSE SendFinish(pruned))
      BY <1>2, <3>8, FlushingSound, SendFinishSound
    <3> QED
      BY <1>3, <2>3, <3>9
  <2> QED
    BY <2>1, <2>2, <2>3
<1> QED
  BY <1>3, <1>4, PlainKeeps

\* finish, acknowledged: the session is taken over with an empty journal.
LEMMA FinishedKeeps ==
  ASSUME ClientInv, NEW t \in Pages, Finished(t)
  PROVE  ClientInv'
<1>a. PICK p : p = pages[t]
  OBVIOUS
<1>b. PICK v : v = p.reply.value
  OBVIOUS
<1>c. PICK bare : bare = [p EXCEPT !.saved = EmptyJournal]
  OBVIOUS
<1>d. PICK r : r = Restored(bare, v, FALSE)
  OBVIOUS
<1>1. Sound(p) /\ Core(p) /\ p \in Page
  BY <1>a, PageFacts
<1>2. p.doing = "finishing" /\ p.reply # None /\ Ready(p)
  BY <1>1, <1>a DEF Finished, Answered, Sound
<1>3. /\ UNCHANGED confirmed
      /\ IF p.reply = Failure THEN Step(t, Idle(p))
         ELSE IF p.reply = Conflict THEN Step(t, Blocked(p))
         ELSE Persist(t, Idle(r))
  BY <1>a, <1>b, <1>c, <1>d, Zenon DEF Finished
<1>4. \E q : Fit(q) /\ (Step(t, q) \/ Persist(t, q))
  <2>1. CASE p.reply = Failure
    <3>1. Fit(Idle(p)) /\ Step(t, Idle(p))
      BY <1>1, <1>2, <1>3, <2>1, IdleSound
    <3> QED
      BY <3>1
  <2>2. CASE p.reply # Failure /\ p.reply = Conflict
    <3>1. Fit(Blocked(p)) /\ Step(t, Blocked(p))
      BY <1>1, <1>3, <2>2, BlockedSound
    <3> QED
      BY <3>1
  <2>3. CASE p.reply # Failure /\ p.reply # Conflict
    <3>1. GoodView(v)
      BY <1>1, <1>2, <1>b, <2>3, ReplyCases DEF Checkpoints
    <3>2. bare \in Page
      BY <1>1, <1>c, EmptyGood, Zenon DEF Page
    <3>3. bare.saved = EmptyJournal
      BY <1>1, <1>c DEF Page
    <3>4. EmptyJournal.attempt = NoAttempt /\ EmptyJournal.events = <<>> /\ EmptyJournal.finish = None
      BY DEF EmptyJournal
    <3>5. ~Unacceptable(bare, v)
      <4>1. v.attempt # NoAttempt => Pending(bare, v) = <<>>
        BY <3>3, <3>4 DEF Pending
      <4>2. v.next_seq \in Nat /\ <<>> \in Seq(PageEvent) /\ Chain(<<>>)
        BY <3>1, ViewFields DEF Chain
      <4>3. Len(AckEvents(<<>>, v.next_seq)) = 0 /\ AckEvents(<<>>, v.next_seq) \in Seq(PageEvent)
        <5>1. PICK k \in 0..Len(<<>>) :
                /\ AckEvents(<<>>, v.next_seq) \in Seq(PageEvent)
                /\ Len(AckEvents(<<>>, v.next_seq)) = Len(<<>>) - k
          BY <4>2, Acknowledged
        <5> QED
          BY <5>1
      <4>4. DOMAIN AckEvents(<<>>, v.next_seq) = {}
        BY <4>3
      <4>5. Reconcilable(v.events, <<>>, v.next_seq)
        BY <4>4 DEF Reconcilable
      <4> QED
        BY <3>3, <3>4, <4>1, <4>5 DEF Unacceptable
    <3>6. Core(r) /\ Ready(r)
      BY <1>d, <3>1, <3>2, <3>3, <3>4, <3>5, EmptyGood, RestoredSound
    <3>7. Fit(Idle(r)) /\ Persist(t, Idle(r))
      BY <1>3, <2>3, <3>6, IdleSound
    <3> QED
      BY <3>7
  <2> QED
    BY <2>1, <2>2, <2>3
<1> QED
  BY <1>3, <1>4, PlainKeeps

\* start: the command is in the journal before the call.
LEMMA StartTaskKeeps ==
  ASSUME ClientInv, NEW t \in Pages, NEW skip \in BOOLEAN, StartTask(t, skip)
  PROVE  ClientInv'
<1>a. PICK p : p = pages[t]
  OBVIOUS
<1>1. Sound(p) /\ Core(p) /\ Ready(p) /\ p.saved.finish = None /\ ~p.blocked /\ UNCHANGED confirmed
  <2>1. p.doing \in {"idle", "flushing"} /\ ~p.blocked /\ p.saved.finish = None /\ UNCHANGED confirmed
    BY <1>a DEF StartTask, Free
  <2> QED
    BY <1>a, <2>1, PageFacts
<1>2. CASE p.saved.start = None
  <2>1. p.attempt = NoAttempt /\ Persist(t, Starting(p, skip))
    BY <1>a, <1>2 DEF StartTask
  <2>2. Fit(Starting(p, skip))
    BY <1>1, <2>1, StartingSound
  <2>3. \E q : Fit(q) /\ Persist(t, q)
    BY <2>1, <2>2
  <2> QED
    BY <1>1, <2>3, PlainKeeps
<1>3. CASE p.saved.start # None
  <2>1. Step(t, Starting(p, FALSE))
    BY <1>a, <1>3 DEF StartTask
  <2>2. Fit(Starting(p, FALSE))
    BY <1>1, <1>3, StartingSound
  <2>3. \E q : Fit(q) /\ Step(t, q)
    BY <2>1, <2>2
  <2> QED
    BY <1>1, <2>3, PlainKeeps
<1> QED
  BY <1>2, <1>3

\* While a checkpoint is on its way, the page shows the stream that it is part of.
LEMMA FlushingShown ==
  ASSUME NEW p, Core(p), Ready(p), Busy(p), p.doing = "flushing", ~p.blocked, p.attempt # NoAttempt
  PROVE  p.stream # <<>> /\ p.call.attempt = p.attempt
<1>1. p.saved.finish = None /\ p.saved.start = None /\ Carries(p)
  BY DEF Busy, Checkpoints, Carries
<1>2. p.saved.attempt = p.attempt /\ Placed(p)
  BY <1>1 DEF Ready
<1>a. PICK ls, lo : ls = Len(p.stream) /\ lo = Len(p.saved.events)
  OBVIOUS
<1>3. ls \in Nat /\ lo \in Nat
  <2>1. p.stream \in Seq(PageEvent) /\ p.saved.events \in Seq(PageEvent)
    BY JournalFields DEF Core, Page
  <2> QED
    BY <1>a, <2>1
<1>4. ls - lo \in Nat /\ lo > 0
  <2>1. Len(p.call.events) \in 1..lo
    BY <1>1, <1>a DEF Carries
  <2>2. ls - lo \in Nat
    BY <1>2, <1>a DEF Placed
  <2> QED
    BY <1>3, <2>1, <2>2
<1>5. p.stream # <<>>
  <2>1. ls > 0
    BY <1>3, <1>4
  <2> QED
    BY <1>a, <2>1
<1> QED
  BY <1>1, <1>2, <1>5 DEF Carries, OutboxAttempt

\* More events at the end of the outbox leave the checkpoint in flight alone.
LEMMA CarriesMore ==
  ASSUME NEW p \in Page, Carries(p), p.call # None, NEW r \in Page, Extends(p, r), r.call = p.call,
         r.saved.start = None, r.call.attempt = OutboxAttempt(r)
  PROVE  Carries(r)
<1>a. PICK lp, lr, lb : lp = Len(p.saved.events) /\ lr = Len(r.saved.events) /\ lb = Len(p.call.events)
  OBVIOUS
<1>1. lp \in Nat /\ lr \in Nat /\ DOMAIN p.saved.events = 1..lp
  <2>1. p.saved.events \in Seq(PageEvent) /\ r.saved.events \in Seq(PageEvent)
    BY JournalFields DEF Page
  <2> QED
    BY <1>a, <2>1
<1>2. lb \in 1..lp /\ lp <= lr /\ p.call.kind = "events"
      /\ (\A i \in DOMAIN p.call.events : p.call.events[i] = p.saved.events[i])
  BY <1>a DEF Carries, Extends
<1>3. p.call.events \in Seq(PageEvent)
  <2>1. p.call \in Request
    <3>1. p.call # None => p.call \in Request
      <4>1. SessionRequest.kind # "events"
        BY DEF SessionRequest
      <4> QED
        BY <1>2, <4>1 DEF Page
    <3>2. p.call # None
      OBVIOUS
    <3> QED
      BY <1>2, <3>1
  <2> QED
    BY <1>2, <2>1 DEF Request
<1>4. lb \in 1..lr
  BY <1>1, <1>2
<1>5. \A i \in DOMAIN p.call.events : p.call.events[i] = r.saved.events[i]
  <2> SUFFICES ASSUME NEW i \in DOMAIN p.call.events PROVE p.call.events[i] = r.saved.events[i]
    OBVIOUS
  <2>1. i \in 1..lp
    <3>1. i \in 1..lb
      BY <1>3, <1>a
    <3> QED
      BY <1>1, <1>2, <3>1
  <2> QED
    BY <1>1, <1>2, <2>1 DEF Extends
<1> QED
  BY <1>2, <1>4, <1>5, <1>a DEF Carries

\* Browsing: events at the end of the outbox, and another place on the screen.
LEMMA BrowseSound ==
  ASSUME ClientInv, NEW t \in Pages, NEW p, p = pages[t], p.doing \in {"idle", "flushing"},
         ~p.blocked, p.active, NEW what \in Seq(Deed), NEW here \in Places,
         NEW selected \in {None} \cup Places,
         NEW q, q = [Recorded(p, what) EXCEPT !.here = here, !.selected = selected]
  PROVE  /\ Fit(q) /\ Core(q) /\ Ready(q)
         /\ q.doing = p.doing
<1>a. PICK r : r = Recorded(p, what)
  OBVIOUS
<1>1. /\ Sound(p) /\ Core(p) /\ p \in Page /\ Ready(p) /\ Busy(p) /\ Told(p)
      /\ \A m \in Sending(p) : GoodRequest(m)
  BY PageFacts DEF Sound
<1>2. Core(r) /\ Ready(r) /\ SameCall(p, r) /\ Extends(p, r) /\ r \in Page
  BY <1>1, <1>a, RecordedSound DEF Core
<1>3. q \in Page
  <2>1. r \in Page
    BY <1>2
  <2>2. q = [r EXCEPT !.here = here, !.selected = selected]
    BY <1>a
  <2>3. q = WithPlace(r, here, selected)
    BY <2>2, Zenon DEF WithPlace
  <2> QED
    BY <2>1, <2>3, PagePlace
<1>4. /\ q.saved = r.saved /\ q.index = r.index /\ q.attempt = r.attempt
      /\ q.stream = r.stream /\ q.active = r.active /\ q.blocked = r.blocked
      /\ q.doing = r.doing /\ q.call = r.call /\ q.reply = r.reply
  BY <1>2, <1>a DEF Page
<1>5. Core(q) /\ Ready(q)
  BY <1>2, <1>3, <1>4, CoreSame, ReadySame
<1>6. Told(q)
  BY <1>1, <1>2, <1>4 DEF Told, SameCall
<1>7. Busy(q)
  <2>1. CASE p.doing = "idle"
    BY <1>1, <1>2, <1>4, <2>1 DEF Busy, SameCall, Checkpoints
  <2>2. CASE p.doing = "flushing"
    <3>1. /\ q.doing = p.doing /\ q.call = p.call /\ q.saved.finish = p.saved.finish
          /\ q.saved.start = p.saved.start /\ q.saved.attempt = p.saved.attempt
          /\ q.attempt = p.attempt
      BY <1>2, <1>4 DEF SameCall
    <3>2. p.attempt # NoAttempt /\ p.saved.attempt = p.attempt /\ p.saved.start = None
      BY <1>1 DEF Core
    <3>3. p.call.attempt = p.attempt /\ Carries(p) /\ p.saved.finish = None
      BY <1>1, <2>2, <3>2, FlushingShown DEF Busy, Checkpoints
    <3>4. OutboxAttempt(q) = p.attempt
      BY <3>1, <3>2, <3>3 DEF OutboxAttempt
    <3>5. Extends(p, q)
      BY <1>2, <1>4 DEF Extends
    <3>7. p.call # None
      BY <1>1, <2>2 DEF Busy
    <3>6. Carries(q)
      BY <1>1, <1>3, <3>1, <3>2, <3>3, <3>4, <3>5, <3>7, CarriesMore
    <3> QED
      BY <2>2, <3>1, <3>3, <3>6, <3>7 DEF Busy, Checkpoints
  <2> QED
    BY <2>1, <2>2
<1>8. Sending(q) = Sending(p) /\ q.doing = p.doing
  BY <1>2, <1>4, ZenonT(30) DEF Sending, SameCall
<1>9. Sound(q)
  BY <1>5, <1>6, <1>7, <1>8 DEF Sound
<1> QED
  BY <1>1, <1>5, <1>8, <1>9 DEF Fit

\* Only a page that shows the tree records.
LEMMA BrowsingFacts ==
  ASSUME ClientInv, NEW t \in Pages, NEW click, Browsing(t, click)
  PROVE  /\ pages[t].doing \in {"idle", "flushing"} /\ ~pages[t].blocked /\ pages[t].active
         /\ pages[t] \in Page /\ UNCHANGED confirmed
BY PageFacts DEF Browsing, Free

\* What the participant does in the tree is recorded.
LEMMA ChooseKeeps ==
  ASSUME ClientInv, NEW t \in Pages, NEW n \in Selectable, Choose(t, n)
  PROVE  ClientInv'
<1>a. PICK p : p = pages[t]
  OBVIOUS
<1>b. PICK way : way = IF n = p.here THEN <<>> ELSE Route(p.here, Parent[n])
  OBVIOUS
<1>c. PICK here : here = IF n = p.here THEN n ELSE Parent[n]
  OBVIOUS
<1>d. PICK what : what = Append(way, [type |-> "select", node |-> n])
  OBVIOUS
<1>e. PICK q : q = [Recorded(p, what) EXCEPT !.here = here, !.selected = n]
  OBVIOUS
<1>1. /\ p.doing \in {"idle", "flushing"} /\ ~p.blocked /\ p.active
      /\ p \in Page /\ UNCHANGED confirmed
  BY <1>a, BrowsingFacts DEF Choose
<1>2. n \in Nodes /\ Parent[n] \in Nodes \cup {Root}
  BY TreeAssumption
<1>3. n \in Places /\ here \in Places
  BY <1>2, <1>c, PlacesHold
<1>4. what \in Seq(Deed)
  <2>1. way \in Seq(Deed)
    BY <1>2, <1>b, RouteTyped
  <2>2. [type |-> "select", node |-> n] \in Deed
    BY <1>3, DeedMade DEF EventTypes
  <2> QED
    BY <1>d, <2>1, <2>2
<1>5. Fit(q)
  BY <1>1, <1>3, <1>4, <1>a, <1>e, BrowseSound
<1>6. Persist(t, q)
  BY <1>a, <1>b, <1>c, <1>d, <1>e, Zenon DEF Choose
<1> QED
  BY <1>1, <1>5, <1>6, PlainKeeps

LEMMA NavigateKeeps ==
  ASSUME ClientInv, NEW t \in Pages, NEW type \in {"back", "root"},
         NEW n \in Nodes \cup {Root}, Navigate(t, type, n)
  PROVE  ClientInv'
<1>a. PICK p : p = pages[t]
  OBVIOUS
<1>b. PICK what : what = <<[type |-> type, node |-> n]>>
  OBVIOUS
<1>c. PICK q : q = [Recorded(p, what) EXCEPT !.here = n, !.selected = None]
  OBVIOUS
<1>1. /\ p.doing \in {"idle", "flushing"} /\ ~p.blocked /\ p.active
      /\ p \in Page /\ UNCHANGED confirmed
  BY <1>a, BrowsingFacts DEF Navigate
<1>2. n \in Places
  BY PlacesHold
<1>3. what \in Seq(Deed)
  BY <1>2, <1>b, DeedMade DEF EventTypes, Moves
<1>4. Fit(q)
  BY <1>1, <1>2, <1>3, <1>a, <1>c, BrowseSound
<1>5. Persist(t, q)
  BY <1>a, <1>b, <1>c, Zenon DEF Navigate
<1> QED
  BY <1>1, <1>4, <1>5, PlainKeeps

LEMMA VisibilityKeeps ==
  ASSUME ClientInv, NEW t \in Pages, NEW type \in {"visibility_hidden", "visibility_visible"},
         Visibility(t, type)
  PROVE  ClientInv'
<1>a. PICK p : p = pages[t]
  OBVIOUS
<1>b. PICK what : what = <<[type |-> type, node |-> p.here]>>
  OBVIOUS
<1>c. PICK new : new = Recorded(p, what)
  OBVIOUS
<1>1. /\ p.doing \in {"idle", "flushing"} /\ ~p.blocked /\ p.active
      /\ p \in Page /\ UNCHANGED confirmed /\ Sound(p) /\ Core(p) /\ Ready(p)
  BY <1>a, BrowsingFacts, PageFacts DEF Visibility
<1>2. p.here \in Places /\ p.selected \in {None} \cup Places
  BY <1>1 DEF Page
<1>3. what \in Seq(Deed)
  BY <1>2, <1>b, DeedMade DEF EventTypes, Moves
<1>4. new = [new EXCEPT !.here = p.here, !.selected = p.selected]
  <2>1. new \in Page
    BY <1>1, <1>3, <1>c, RecordedSound DEF Core
  <2>2. new.here = p.here /\ new.selected = p.selected
    BY <1>1, <1>c DEF Recorded, Page
  <2> QED
    BY <2>1, <2>2 DEF Page
<1>b2. PICK here, selected : here = p.here /\ selected = p.selected
  OBVIOUS
<1>b3. new = [Recorded(p, what) EXCEPT !.here = here, !.selected = selected]
  BY <1>4, <1>b2, <1>c
<1>5. Fit(new) /\ Core(new) /\ Ready(new) /\ new.doing = p.doing
  BY <1>1, <1>2, <1>3, <1>b2, <1>b3, <1>a, BrowseSound, ZenonT(30)
<1>6. Persist(t, IF type = "visibility_hidden" /\ p.doing = "idle" THEN Flushing(new) ELSE new)
  BY <1>a, <1>b, <1>c, Zenon DEF Visibility
<1>7. \E q : Fit(q) /\ Persist(t, q)
  BY <1>5, <1>6, FlushingSound
<1> QED
  BY <1>1, <1>7, PlainKeeps

\* The page sends what it holds: the next checkpoint, or the frozen answer again.
LEMMA FlushKeeps ==
  ASSUME ClientInv, NEW t \in Pages, Flush(t)
  PROVE  ClientInv'
<1>a. PICK p : p = pages[t]
  OBVIOUS
<1>1. Core(p) /\ Ready(p) /\ UNCHANGED confirmed /\ Step(t, Flushing(p))
  BY <1>a, PageFacts DEF Flush
<1>2. \E q : Fit(q) /\ Step(t, q)
  BY <1>1, FlushingSound
<1> QED
  BY <1>1, <1>2, PlainKeeps

LEMMA RetryFinishKeeps ==
  ASSUME ClientInv, NEW t \in Pages, RetryFinish(t)
  PROVE  ClientInv'
<1>a. PICK p : p = pages[t]
  OBVIOUS
<1>1. Core(p) /\ p.saved.finish # None /\ UNCHANGED confirmed /\ Step(t, SendFinish(p))
  BY <1>a, PageFacts DEF RetryFinish
<1>2. \E q : Fit(q) /\ Step(t, q)
  BY <1>1, SendFinishSound
<1> QED
  BY <1>1, <1>2, PlainKeeps

WaitsHarmless == \A page : Core(page) => Core([page EXCEPT !.doing = "waiting"])

LEMMA WaitsStay == WaitsHarmless
<1> SUFFICES ASSUME NEW page, Core(page) PROVE Core([page EXCEPT !.doing = "waiting"])
  BY DEF WaitsHarmless
<1>a. PICK q : q = [page EXCEPT !.doing = "waiting"]
  OBVIOUS
<1>1. page \in Page
  BY DEF Core
<1>2. q \in Page
  BY <1>1, <1>a, Zenon DEF Page
<1>3. /\ q.saved = page.saved /\ q.index = page.index /\ q.attempt = page.attempt
      /\ q.stream = page.stream /\ q.active = page.active
  BY <1>1, <1>a DEF Page
<1>4. Core(q)
  BY <1>2, <1>3, CoreSame
<1> QED
  BY <1>4, <1>a

\* finish with a checkpoint in flight: the page waits for it with the frozen command.
LEMMA WaitingSound ==
  ASSUME ClientInv, NEW t \in Pages, NEW p, p = pages[t], p.doing = "flushing", ~p.blocked,
         p.attempt # NoAttempt, UNCHANGED server, confirmed \subseteq confirmed',
         NEW new, Core(new)', new.saved.finish # None, new.saved.start = None,
         new.saved.finish.attempt = p.attempt, new.doing = p.doing, new.call = p.call,
         new.reply = p.reply, Extends(p, new),
         NEW q, q = [new EXCEPT !.doing = "waiting"]
  PROVE  Fit(q)'
<1>1. /\ Core(p) /\ Ready(p) /\ Busy(p) /\ p \in Page
      /\ p.call \in sent \cup {None, SessionRequest}
  BY PageFacts DEF Sound
<1>2. Sound(p)' /\ \A m \in sent : GoodRequest(m)'
  BY Carried, Still
<1>3. p.call.attempt = p.attempt /\ Carries(p) /\ p.call # None
  BY <1>1, FlushingShown DEF Busy, Checkpoints
<1>4. Core(q)'
  <2>1. WaitsHarmless'
    BY WaitsStay, PTL
  <2> QED
    BY <2>1 DEF WaitsHarmless
<1>5. new \in Page /\ q \in Page
  BY <1>4 DEF Core
<1>6. /\ q.saved = new.saved /\ q.stream = new.stream /\ q.call = p.call /\ q.reply = p.reply
      /\ q.doing = "waiting"
  BY <1>5 DEF Page
<1>7. OutboxAttempt(q) = p.attempt
  BY <1>6 DEF OutboxAttempt
<1>8. Extends(p, q)
  BY <1>6 DEF Extends
<1>9. Carries(q)
  BY <1>1, <1>3, <1>5, <1>6, <1>7, <1>8, CarriesMore
<1>10. Ready(q)
  BY <1>6 DEF Ready
<1>11. Busy(q)
  BY <1>3, <1>6, <1>9 DEF Busy, Checkpoints
<1>12. Told(q)'
  <2>1. Told(p)'
    BY <1>2 DEF Sound
  <2> QED
    BY <1>6, <2>1 DEF Told, Checkpoints
<1>13. Sending(q) \subseteq sent
  BY <1>1, <1>6 DEF Sending
<1> QED
  BY <1>2, <1>4, <1>6, <1>10, <1>11, <1>12, <1>13 DEF Fit, Sound

\* finish: the answer is frozen in the journal before it is sent.
LEMMA ConfirmKeeps ==
  ASSUME ClientInv, NEW t \in Pages, NEW outcome \in Answers, Confirm(t, outcome)
  PROVE  ClientInv' /\ Confirming(pages'[t])
<1>a. PICK p : p = pages[t]
  OBVIOUS
<1>b. PICK node : node = IF outcome = "selected" THEN p.selected ELSE Root
  OBVIOUS
<1>c. PICK stamp : stamp = Stamp(p, p.saved.next)
  OBVIOUS
<1>d. PICK new : new = Freeze(p, outcome, node, stamp)
  OBVIOUS
<1>e. PICK q : q = IF new.doing = "flushing" THEN [new EXCEPT !.doing = "waiting"] ELSE SendFinish(new)
  OBVIOUS
<1>1. /\ p.doing \in {"idle", "flushing"} /\ ~p.blocked /\ p.attempt # NoAttempt
      /\ p.saved.finish = None /\ (outcome = "selected" => p.selected # None)
  BY <1>a DEF Confirm, Free
<1>2. Persist(t, q) /\ confirmed' = confirmed \cup {Confirmation(new)}
  BY <1>a, <1>b, <1>c, <1>d, <1>e, Zenon DEF Confirm
<1>3. Core(p) /\ Ready(p) /\ p \in Page /\ p.saved \in Journal
  BY <1>1, <1>a, PageFacts
<1>4. outcome \in Outcomes /\ node \in Places
  BY <1>1, <1>3, <1>b, PlacesHold, ClientAssumption DEF Page
<1>5. stamp \in [id: Nat \X Nat, epoch: Nat]
  BY <1>3, <1>c, StampMade, JournalFields
<1>6. p.saved.start # None \/ Placed(p)
  BY <1>1, <1>3 DEF Ready
<1>7. UNCHANGED server /\ confirmed \subseteq confirmed' /\ Confirmation(new) \in confirmed'
  BY <1>2 DEF Persist
<1>8. Grown
  BY <1>7, Carried, Still
<1>9. /\ Core(new)' /\ new.saved.finish # None /\ new.saved.start = None
      /\ new.saved.finish.attempt = p.attempt
      /\ new.doing = p.doing /\ new.call = p.call /\ new.reply = p.reply
      /\ new.index = p.index /\ Extends(p, new)
  BY <1>1, <1>3, <1>4, <1>5, <1>6, <1>7, <1>8, <1>d, FreezeSound
<1>10. Fit(q)'
  <2>1. CASE new.doing = "flushing"
    <3>1. q = [new EXCEPT !.doing = "waiting"] /\ p.doing = "flushing"
      BY <1>9, <1>e, <2>1
    <3> QED
      BY <1>1, <1>7, <1>9, <1>a, <3>1, WaitingSound
  <2>2. CASE new.doing # "flushing"
    <3>1. q = SendFinish(new)
      BY <1>e, <2>2
    <3>2. (\A page : Core(page) /\ page.saved.finish # None => Fit(SendFinish(page)))'
      BY FitFinish, PTL
    <3>3. Fit(SendFinish(new))'
      BY <1>9, <3>2
    <3> QED
      BY <3>1, <3>3
  <2> QED
    BY <2>1, <2>2
<1>11. \A x \in confirmed' : x \in confirmed \/ x.task \in 0..sessions[Me].index
  <2>1. Confirmation(new).task = p.index
    BY <1>9 DEF Confirmation
  <2>2. p.index \in 0..sessions[Me].index
    <3>1. p.index <= sessions[Me].index
      BY <1>3 DEF Core
    <3>2. p.index \in Nat /\ sessions[Me].index \in Nat
      BY <1>3, ServerTyped DEF ClientInv, Page, S!IInv
    <3> QED
      BY <3>1, <3>2
  <2> QED
    BY <1>2, <2>1, <2>2
<1>12. ClientInv'
  BY <1>2, <1>7, <1>10, <1>11, PageKeeps
<1>13. Confirming(pages'[t])
  <2>1. new \in Page
    BY <1>9 DEF Core
  <2> QED
    BY <1>2, <1>9, <1>e, <2>1, Confirmed
<1> QED
  BY <1>12, <1>13

\* The storage listener: a page that hears of another journal stops.
LEMMA StopSound ==
  ASSUME NEW page, Sound(page), page.doing # "loading",
         NEW q, q = [page EXCEPT !.blocked = TRUE, !.active = FALSE, !.news = {}]
  PROVE  Sound(q) /\ q.call = page.call
<1>1. page \in Page
  BY DEF Sound, Core
<1>2. q \in Page
  BY <1>1, Zenon DEF Page
<1>3. /\ q.saved = page.saved /\ q.index = page.index /\ q.attempt = page.attempt
      /\ q.stream = page.stream /\ q.active = FALSE /\ q.blocked = TRUE
      /\ q.doing = page.doing /\ q.call = page.call /\ q.reply = page.reply
  BY <1>1 DEF Page
<1>4. Core(q)
  BY <1>2, <1>3, CoreSame DEF Sound
<1>5. Ready(q)
  BY <1>3 DEF Ready
<1>6. (Fresh(page) => Fresh(q)) /\ (Told(page) => Told(q))
  BY <1>3 DEF Fresh, Told
<1>7. Busy(page) => Busy(q)
  BY <1>3 DEF Busy, Carries, OutboxAttempt
<1> QED
  BY <1>3, <1>4, <1>5, <1>6, <1>7 DEF Sound

\* A page that hears of another journal stops.
LEMMA NoticeKeeps ==
  ASSUME ClientInv, NEW t \in Pages, NEW v \in pages[t].news, Notice(t, v)
  PROVE  ClientInv'
<1>a. PICK p : p = pages[t]
  OBVIOUS
<1>b. PICK news : news = p.news \ {v}
  OBVIOUS
<1>c. PICK page : page = [p EXCEPT !.news = news]
  OBVIOUS
<1>d. PICK stop : stop = [page EXCEPT !.blocked = TRUE, !.active = FALSE, !.news = {}]
  OBVIOUS
<1>1. Sound(p) /\ p \in Page /\ \A m \in Sending(p) : GoodRequest(m)
  BY <1>a, PageFacts
<1>2. UNCHANGED confirmed
      /\ (Step(t, page) \/ (page.doing # "loading" /\ Step(t, stop)))
  BY <1>a, <1>b, <1>c, <1>d DEF Notice
<1>3. news \in SUBSET ({None} \cup Journal)
  BY <1>1, <1>b DEF Page
<1>4. Sound(page) /\ page.call = p.call
  <2>1. page.call = p.call
    BY <1>1, <1>c DEF Page
  <2> QED
    BY <1>1, <1>3, <1>c, <2>1, NewsSound
<1>5. page.doing # "loading" => Sound(stop) /\ stop.call = p.call
  BY <1>4, <1>d, StopSound
<1>6. \E q : Fit(q) /\ Step(t, q)
  <2>1. Fit(page)
    BY <1>1, <1>4 DEF Fit, Sending
  <2>2. page.doing # "loading" => Fit(stop)
    BY <1>1, <1>5 DEF Fit, Sending
  <2> QED
    BY <1>2, <2>1, <2>2
<1> QED
  BY <1>2, <1>6, PlainKeeps

\* A step that leaves the server alone: pages, journal and messages as they are after it.
LEMMA Assembled ==
  ASSUME ClientInv, UNCHANGED <<server, confirmed>>,
         \E f : pages' = [u \in Pages |-> f[u]],
         \A u \in Pages : \A q : q = pages'[u] =>
           Sound(q) /\ q.call \in sent' \cup {None, SessionRequest},
         \A j : j = journal' => GoodJournal(j),
         \A m \in sent' : GoodRequest(m), loads' \in Nat
  PROVE  ClientInv'
<1>1. S!IInv' /\ Grown
  BY Carried, Still DEF server
<1>2. \A u \in Pages : Sound(pages[u])' /\ pages'[u].call \in sent' \cup {None, SessionRequest}
  BY <1>1, PageStays
<1>3. GoodJournal(journal)' /\ \A m \in sent' : GoodRequest(m)'
  BY <1>1, JournalStays
<1>4. \A c \in confirmed' : c.task \in 0..sessions'[Me].index
  BY DEF ClientInv, server
<1>5. WholeStream'
  BY DEF ClientInv, WholeStream, server
<1>6. pages' = [u \in Pages |-> pages'[u]]
  OBVIOUS
<1> QED
  BY <1>1, <1>2, <1>3, <1>4, <1>5, <1>6 DEF ClientInv

\* A page that is loaded.
LEMMA LoadingMade ==
  ASSUME NEW n \in Nat, NEW saved, saved \in Journal, GoodJournal(saved), sessions[Me].index \in Nat,
         NEW q, q = [Loading(n) EXCEPT !.saved = saved] \/ (q = Loading(n) /\ saved = EmptyJournal)
  PROVE  Sound(q) /\ q.call = SessionRequest
<1>a. PICK empty : empty = EmptyJournal
  OBVIOUS
<1>b. PICK closed : closed = NewPage
  OBVIOUS
<1>1. empty \in Journal
  BY <1>a, EmptyGood
<1>2. /\ closed = [doing |-> "closed", epoch |-> 0, saved |-> empty, index |-> 0,
         completed |-> FALSE, attempt |-> NoAttempt, stream |-> <<>>, here |-> Root,
         selected |-> None, active |-> FALSE, blocked |-> FALSE,
         call |-> None, reply |-> None, news |-> {}]
  BY <1>a, <1>b DEF NewPage
<1>3. closed \in Page
  BY <1>1, <1>2, PlacesHold DEF Page
<1>c. PICK request : request = SessionRequest
  OBVIOUS
<1>d. PICK l : l = Loading(n)
  OBVIOUS
<1>4. l = [closed EXCEPT !.doing = "loading", !.epoch = n, !.call = request]
  BY <1>b, <1>c, <1>d DEF Loading
<1>5. /\ closed.saved = empty
      /\ closed.index = 0 /\ closed.attempt = NoAttempt /\ closed.stream = <<>>
      /\ closed.active = FALSE /\ closed.reply = None
  BY <1>2
<1>6. l \in Page
  <2>1. "loading" \in {"closed", "loading", "idle", "starting", "flushing", "waiting", "draining",
           "finishing"} /\ request \in {None, SessionRequest} \cup Request
    BY <1>c
  <2> QED
    BY <1>3, <1>4, <2>1, Zenon DEF Page
<1>7. /\ l.doing = "loading" /\ l.call = request /\ l.reply = None /\ l.saved = empty
      /\ l.index = 0 /\ l.attempt = NoAttempt /\ l.stream = <<>> /\ l.active = FALSE
  BY <1>3, <1>4, <1>5 DEF Page
<1>8. q \in Page
  <2>1. CASE q = [l EXCEPT !.saved = saved]
    BY <1>6, <2>1, Zenon DEF Page
  <2>2. CASE q = l
    BY <1>6, <2>2
  <2> QED
    BY <1>d, <2>1, <2>2
<1>9. /\ q.doing = "loading" /\ q.call = request /\ q.reply = None /\ q.saved = saved
      /\ q.index = 0 /\ q.attempt = NoAttempt /\ q.stream = <<>> /\ q.active = FALSE
  BY <1>6, <1>7, <1>a, <1>d DEF Page
<1>10. Fit(q)
  BY <1>8, <1>9, <1>c, LoadingSound DEF Fresh
<1> QED
  BY <1>9, <1>10, <1>c DEF Fit

\* A tab that is opened starts with the journal.
LEMMA OpenKeeps ==
  ASSUME ClientInv, NEW t \in Pages, Open(t)
  PROVE  ClientInv'
<1>a. PICK n : n = loads + 1
  OBVIOUS
<1>b. PICK saved : saved = journal
  OBVIOUS
<1>c. PICK q : q = [Loading(n) EXCEPT !.saved = saved]
  OBVIOUS
<1>1. /\ UNCHANGED <<server, confirmed>> /\ journal' = journal /\ sent' = sent /\ loads' = n
      /\ pages' = [pages EXCEPT ![t] = q]
  BY <1>a, <1>b, <1>c DEF Open
<1>2. n \in Nat /\ saved \in Journal /\ GoodJournal(saved) /\ sessions[Me].index \in Nat
  BY <1>a, <1>b, ServerTyped DEF ClientInv, GoodJournal, S!IInv
<1>3. Sound(q) /\ q.call = SessionRequest
  BY <1>2, <1>c, LoadingMade
<1>4. pages' = [u \in Pages |-> IF u = t THEN q ELSE pages[u]]
  BY <1>1 DEF ClientInv
<1>5. \A u \in Pages : \A x : x = pages'[u] =>
        Sound(x) /\ x.call \in sent' \cup {None, SessionRequest}
  BY <1>1, <1>3, <1>4 DEF ClientInv
<1>6. \E f : pages' = [u \in Pages |-> f[u]]
  <2>1. pages' = [u \in Pages |-> pages'[u]]
    BY <1>4
  <2> QED
    BY <2>1
<1> QED
  BY <1>1, <1>2, <1>5, <1>6, Assembled DEF ClientInv

\* A journal that is given up leaves nothing behind.
LEMMA ReloadProgressKeeps ==
  ASSUME ClientInv, NEW t \in Pages, ReloadProgress(t)
  PROVE  ClientInv'
<1>a. PICK n : n = loads + 1
  OBVIOUS
<1>b. PICK saved : saved = EmptyJournal
  OBVIOUS
<1>c. PICK q : q = Loading(n)
  OBVIOUS
<1>1. /\ UNCHANGED <<server, confirmed>> /\ journal' = saved /\ sent' = sent /\ loads' = n
      /\ pages' = [u \in Pages |->
           IF u = t THEN q
           ELSE IF pages[u].doing = "closed" THEN pages[u]
           ELSE [pages[u] EXCEPT !.news = @ \cup {None}]]
  BY <1>a, <1>b, <1>c DEF ReloadProgress
<1>2. n \in Nat /\ saved \in Journal /\ GoodJournal(saved) /\ sessions[Me].index \in Nat
  BY <1>a, <1>b, ServerTyped, EmptyGood DEF ClientInv, S!IInv
<1>3. Sound(q) /\ q.call = SessionRequest
  BY <1>2, <1>b, <1>c, LoadingMade
<1>4. \A u \in Pages : \A x : x = pages'[u] =>
        Sound(x) /\ x.call \in sent' \cup {None, SessionRequest}
  <2> SUFFICES ASSUME NEW u \in Pages, NEW x, x = pages'[u]
               PROVE  Sound(x) /\ x.call \in sent' \cup {None, SessionRequest}
    OBVIOUS
  <2>a. PICK o : o = pages[u]
    OBVIOUS
  <2>1. Sound(o) /\ o \in Page /\ o.call \in sent \cup {None, SessionRequest}
    BY <2>a, PageFacts
  <2>b. PICK news : news = o.news \cup {None}
    OBVIOUS
  <2>2. news \in SUBSET ({None} \cup Journal)
    BY <2>1, <2>b DEF Page
  <2>3. Sound([o EXCEPT !.news = news]) /\ [o EXCEPT !.news = news].call = o.call
    BY <2>1, <2>2, NewsSound DEF Page
  <2>4. x = q \/ x = o \/ x = [o EXCEPT !.news = news]
    BY <1>1, <2>a, <2>b
  <2> QED
    BY <1>1, <1>3, <2>1, <2>3, <2>4
<1>5. \E f : pages' = [u \in Pages |-> f[u]]
  <2>1. pages' = [u \in Pages |-> pages'[u]]
    BY <1>1
  <2> QED
    BY <2>1
<1> QED
  BY <1>1, <1>2, <1>4, <1>5, Assembled DEF ClientInv

Replies == {None, Conflict, Failure} \cup [status: {"ok"}, value: [next_seq: Nat] \cup SessionView]

\* An answer arrives and nothing else changes.
LEMMA AnswerKeeps ==
  ASSUME ClientInv, UNCHANGED <<server, journal, sent, loads, confirmed>>,
         \E f : pages' = [u \in Pages |-> f[u]],
         \A u \in Pages : \A p, q : p = pages[u] /\ q = pages'[u] =>
           q = p \/ \E reply \in Replies : q = [p EXCEPT !.reply = reply] /\ Told(q)
  PROVE  ClientInv'
<1>1. \A u \in Pages : \A x : x = pages'[u] =>
        Sound(x) /\ x.call \in sent' \cup {None, SessionRequest}
  <2> SUFFICES ASSUME NEW u \in Pages, NEW q, q = pages'[u]
               PROVE  Sound(q) /\ q.call \in sent' \cup {None, SessionRequest}
    OBVIOUS
  <2>a. PICK p : p = pages[u]
    OBVIOUS
  <2>1. Sound(p) /\ p \in Page /\ p.call \in sent \cup {None, SessionRequest}
    BY <2>a, PageFacts
  <2>2. CASE q = p
    BY <2>1, <2>2
  <2>3. ASSUME NEW reply \in Replies, q = [p EXCEPT !.reply = reply], Told(q)
        PROVE  Sound(q) /\ q.call = p.call
    <3>1. q.call = p.call
      BY <2>1, <2>3 DEF Page
    <3> QED
      BY <2>1, <2>3, <3>1, ReplySound DEF Replies
  <2> QED
    BY <2>a, <2>1, <2>2, <2>3
<1>2. /\ UNCHANGED <<server, confirmed>>
      /\ \A j : j = journal' => GoodJournal(j)
      /\ \A m \in sent' : GoodRequest(m)
      /\ loads' \in Nat
  BY DEF ClientInv
<1> QED
  BY <1>1, <1>2, Assembled

\* A lost call and a session that is read change what a page awaits.
LEMMA LoseKeeps ==
  ASSUME ClientInv, NEW t \in Pages, Lose(t)
  PROVE  ClientInv'
<1>1. /\ UNCHANGED <<server, journal, sent, loads, confirmed>>
      /\ pages' = [u \in Pages |-> IF u = t THEN [pages[u] EXCEPT !.reply = Failure] ELSE pages[u]]
  BY DEF Lose, ClientInv
<1>2. \A u \in Pages : \A p, q : p = pages[u] /\ q = pages'[u] =>
           q = p \/ \E reply \in Replies : q = [p EXCEPT !.reply = reply] /\ Told(q)
  <2> SUFFICES ASSUME NEW u \in Pages, NEW p, NEW q, p = pages[u], q = pages'[u], q # p
               PROVE  \E reply \in Replies : q = [p EXCEPT !.reply = reply] /\ Told(q)
    OBVIOUS
  <2>a. PICK failure : failure = Failure
    OBVIOUS
  <2>1. q = [p EXCEPT !.reply = failure] /\ failure \in Replies /\ p \in Page
    BY <1>1, <2>a, PageFacts DEF Replies
  <2>2. q.reply = failure
    BY <2>1 DEF Page
  <2>3. Told(q)
    BY <2>2, <2>a DEF Told, Failure, Conflict
  <2> QED
    BY <2>1, <2>3
<1>3. \E f : pages' = [u \in Pages |-> f[u]]
  <2>1. pages' = [u \in Pages |-> pages'[u]]
    BY <1>1
  <2> QED
    BY <2>1
<1> QED
  BY <1>1, <1>2, <1>3, AnswerKeeps

\* makeSession describes the tables.
LEMMA ViewGood ==
  ASSUME S!IInv
  PROVE  GoodView(View(Me)) /\ View(Me).index = sessions[Me].index
<1>a. PICK i : i = sessions[Me].index
  OBVIOUS
<1>b. PICK open : open = IF i >= TaskCount THEN {} ELSE AttemptsAt(Me, i)
  OBVIOUS
<1>c. PICK v : v = View(Me)
  OBVIOUS
<1>1. S!TypeOK /\ S!FinishedStreams
  BY DEF S!IInv
<1>2. /\ i \in Nat /\ TaskCount \in Nat /\ DOMAIN attempts \subseteq AttemptIds
      /\ \A a \in DOMAIN attempts : attempts[a].log \in Seq(Event) /\ attempts[a].session = Me
  BY <1>1, <1>a, ServerTyped, SessionAssumption
<1>3. CASE open = {}
  <2>1. v = [index |-> i, completed |-> i >= TaskCount, attempt |-> NoAttempt,
             next_seq |-> 1, events |-> <<>>]
    BY <1>3, <1>a, <1>b, <1>c DEF View
  <2>2. (i >= TaskCount) \in BOOLEAN
    BY <1>2
  <2>3. v \in SessionView
    BY <1>2, <2>1, <2>2 DEF SessionView
  <2> QED
    BY <1>2, <1>a, <1>c, <2>1, <2>3 DEF GoodView
<1>4. CASE open # {}
  <2>1. PICK a : a = CHOOSE x \in open : TRUE
    OBVIOUS
  <2>b. PICK log : log = attempts[a].log
    OBVIOUS
  <2>2. a \in AttemptsAt(Me, i)
    BY <1>4, <1>b, <2>1
  <2>3. a \in DOMAIN attempts /\ AttemptAt(a, i) /\ a \in AttemptIds
    BY <1>2, <2>2 DEF AttemptsAt, AttemptAt, Owns
  <2>4. v = [index |-> i, completed |-> i >= TaskCount, attempt |-> a,
             next_seq |-> Len(log) + 1, events |-> log]
    BY <1>4, <1>a, <1>b, <1>c, <2>1, <2>b DEF View
  <2>5. log \in Seq(Event)
    BY <1>2, <2>3, <2>b
  <2>6. (i >= TaskCount) \in BOOLEAN
    BY <1>2
  <2>7. v \in SessionView
    <3>1. Len(log) + 1 \in Nat
      BY <2>5
    <3> QED
      BY <1>2, <2>3, <2>4, <2>5, <2>6, <3>1 DEF SessionView
  <2>8. \A k \in DOMAIN log : log[k].seq = k /\ Stored(a, log[k])
    <3>1. S!EndsRight(attempts[a])
      BY <1>1, <2>3 DEF S!FinishedStreams
    <3>2. \A k \in 1..Len(log) : log[k].seq = k
      BY <3>1, <2>b DEF S!EndsRight
    <3>3. DOMAIN log = 1..Len(log)
      BY <2>5
    <3> QED
      BY <2>3, <2>b, <3>2, <3>3 DEF Stored, AttemptAt
  <2>9. a # NoAttempt
    BY <2>3, SessionAssumption
  <2> QED
    BY <1>2, <1>a, <1>c, <2>3, <2>4, <2>7, <2>8, <2>9 DEF GoodView, Numbered
<1> QED
  BY <1>3, <1>4

LEMMA ReadSessionKeeps ==
  ASSUME ClientInv, NEW t \in Pages, ReadSession(t)
  PROVE  ClientInv'
<1>a. PICK v : v = View(Me)
  OBVIOUS
<1>b. PICK reply : reply = Ok(v)
  OBVIOUS
<1>1. /\ UNCHANGED <<server, journal, sent, loads, confirmed>>
      /\ pages' = [u \in Pages |-> IF u = t THEN [pages[u] EXCEPT !.reply = reply] ELSE pages[u]]
      /\ pages[t].call = SessionRequest
  BY <1>a, <1>b DEF ReadSession, ClientInv
<1>2. GoodView(v)
  BY <1>a, ViewGood DEF ClientInv
<1>3. reply \in Replies /\ reply.value = v /\ reply # Conflict
  <2>1. v \in SessionView
    BY <1>2 DEF GoodView
  <2> QED
    BY <1>b, <2>1 DEF Replies, Ok, Conflict
<1>4. \A u \in Pages : \A p, q : p = pages[u] /\ q = pages'[u] =>
           q = p \/ \E r \in Replies : q = [p EXCEPT !.reply = r] /\ Told(q)
  <2> SUFFICES ASSUME NEW u \in Pages, NEW p, NEW q, p = pages[u], q = pages'[u], q # p
               PROVE  \E r \in Replies : q = [p EXCEPT !.reply = r] /\ Told(q)
    OBVIOUS
  <2>1. q = [p EXCEPT !.reply = reply] /\ Sound(p) /\ p \in Page /\ p.call = SessionRequest
    BY <1>1, PageFacts
  <2>2. q.reply = reply /\ q.doing = p.doing /\ q.call = p.call
    BY <2>1 DEF Page
  <2>3. p.doing \notin Checkpoints /\ p.doing # "starting"
    <3>1. SessionRequest.kind = "session"
      BY DEF SessionRequest
    <3> QED
      BY <2>1, <3>1 DEF Sound, Busy, Carries
  <2>4. Told(q)
    BY <1>2, <1>3, <2>2, <2>3 DEF Told
  <2> QED
    BY <1>3, <2>1, <2>4
<1>5. \E f : pages' = [u \in Pages |-> f[u]]
  <2>1. pages' = [u \in Pages |-> pages'[u]]
    BY <1>1
  <2> QED
    BY <2>1
<1> QED
  BY <1>1, <1>4, <1>5, AnswerKeeps

-----------------------------------------------------------------------------
(* The network delivers a request.                                         *)

\* A request that takes effect is a step of the server.
LEMMA Accepted ==
  ASSUME S!TypeOK, NEW a, Owns(Me, a), NEW batch \in Seq(PageEvent), NEW frozen,
         Appendable(attempts[a].log, batch, frozen)
  PROVE  /\ a \in AttemptIds
         /\ batch \in Seq(Event)
         /\ \A i \in DOMAIN batch :
              /\ batch[i].seq \in 1..Len(Merged(attempts[a].log, batch))
              /\ Merged(attempts[a].log, batch)[batch[i].seq] = batch[i]
<1>a. PICK log : log = attempts[a].log
  OBVIOUS
<1>1. a \in AttemptIds /\ log \in Seq(Event)
  BY <1>a, ServerTyped DEF Owns
<1>2. Len(batch) \in Nat /\ DOMAIN batch = 1..Len(batch)
  BY EventFields
<1>3. \A i \in DOMAIN batch :
        /\ batch[i] \in Event
        /\ batch[i].seq \in 1..Len(Merged(log, batch))
        /\ Merged(log, batch)[batch[i].seq] = batch[i]
  <2>1. S!Appendable(log, batch, frozen)
    BY <1>a, SameAppendable
  <2>2. log \in Seq(S!Event)
    BY <1>1, SameEvent
  <2>3. S!Taken(log, batch)
    BY <1>2, <2>1, <2>2, ServerAssumptions, S!AcceptedEvents
  <2> QED
    BY <2>3, SameEvent, SameMerged DEF S!Taken
<1>4. batch \in Seq(Event)
  <2>1. \A i \in 1..Len(batch) : batch[i] \in Event
    BY <1>2, <1>3
  <2>2. batch = [i \in 1..Len(batch) |-> batch[i]]
    OBVIOUS
  <2> QED
    BY <1>2, <2>1, <2>2
<1> QED
  BY <1>1, <1>3, <1>4, <1>a

Serves(m) ==
  \/ \E t \in 0..(TaskCount - 1) : m.kind = "start" /\ S!Start(Me, m.command, t)
  \/ m.kind = "events" /\ m.attempt \in AttemptIds /\ S!Events(Me, m.attempt, m.events)
  \/ m.kind = "finish" /\ m.attempt \in AttemptIds
       /\ m.body \in FinishBody(Nodes \cup {Root}, Event)
       /\ S!Finish(Me, m.command, m.attempt, m.body)

\* The fields of a request.
LEMMA RequestForms ==
  ASSUME NEW m \in Request
  PROVE  /\ m.kind \in {"start", "events", "finish"}
         /\ m.kind # "events" => m.command \in CommandId
         /\ m.kind = "events" => m.attempt \in AttemptIds /\ m.events \in Seq(PageEvent)
         /\ m.kind = "finish" =>
              m.attempt \in AttemptIds /\ m.body \in FinishBody(Places, PageEvent)
BY DEF Request

\* A request that takes effect is a step of the server.
LEMMA ServedNext ==
  ASSUME S!TypeOK, NEW m \in Request, Served(m)
  PROVE  Serves(m) /\ S!Next
<1>1. /\ m.kind \in {"start", "events", "finish"}
      /\ m.kind # "events" => m.command \in CommandId
      /\ m.kind = "events" => m.attempt \in AttemptIds /\ m.events \in Seq(PageEvent)
      /\ m.kind = "finish" =>
           m.attempt \in AttemptIds /\ m.body \in FinishBody(Places, PageEvent)
  BY RequestForms
<1>2. CASE m.kind = "start" /\ Start(Me, m.command, m.task)
  <2>1. m.task \in 0..(TaskCount - 1)
    BY <1>2, ServerTyped, SessionAssumption DEF Start, IsCurrent
  <2>2. S!Start(Me, m.command, m.task)
    BY <1>2, SameStart
  <2>3. Serves(m)
    BY <1>2, <2>1, <2>2 DEF Serves
  <2> QED
    BY <1>1, <1>2, <2>1, <2>2, <2>3, OneParticipant DEF S!Next
<1>3. CASE m.kind = "events" /\ Events(Me, m.attempt, m.events)
  <2>1. /\ Owns(Me, m.attempt)
        /\ Appendable(attempts[m.attempt].log, m.events, Frozen(Me, m.attempt))
    BY <1>3 DEF Events, AcceptsCheckpoint
  <2>2. m.events \in Seq(Event)
    BY <1>1, <1>3, <2>1, Accepted
  <2>3. S!Events(Me, m.attempt, m.events)
    BY <1>3, SameEvents
  <2> QED
    BY <1>1, <1>3, <2>2, <2>3, OneParticipant DEF S!Next, Serves
<1>4. CASE m.kind = "finish" /\ Finish(Me, m.command, m.attempt, m.body)
  <2>a. PICK body : body = m.body
    OBVIOUS
  <2>1. /\ Owns(Me, m.attempt)
        /\ Appendable(attempts[m.attempt].log, body.events, FALSE)
        /\ ChoiceHolds(Merged(attempts[m.attempt].log, body.events), body)
    BY <1>4, <2>a DEF Finish, AcceptsTerminal
  <2>2. body \in FinishBody(Places, PageEvent)
    BY <1>1, <1>4, <2>a
  <2>3. body.events \in Seq(Event)
    <3>1. body.events \in Seq(PageEvent)
      BY <2>2 DEF FinishBody
    <3> QED
      BY <2>1, <3>1, Accepted
  <2>4. body.node \in Nodes \cup {Root}
    BY <2>1, TreeAssumption DEF ChoiceHolds
  <2>5. body \in FinishBody(Nodes \cup {Root}, Event)
    BY <2>2, <2>3, <2>4 DEF FinishBody
  <2>6. S!Finish(Me, m.command, m.attempt, body)
    BY <1>4, <2>a, SameFinish
  <2>7. Serves(m)
    BY <1>1, <1>4, <2>5, <2>6, <2>a DEF Serves
  <2> QED
    BY <1>1, <1>4, <2>5, <2>6, <2>7, <2>a, OneParticipant DEF S!Next
<1> QED
  BY <1>2, <1>3, <1>4 DEF Served

\* A replayed response describes the session as it was.
LEMMA ReplayGood ==
  ASSUME S!IInv, NEW r \in commands, r.session = Me,
         NEW v, v = Replay(r)
  PROVE  /\ GoodView(v)
         /\ r.operation = "start" => v.attempt # NoAttempt /\ v.events = <<>>
<1>1. S!TypeOK /\ S!TasksInOrder /\ S!StartRows /\ S!FinishRows
  BY DEF S!IInv, S!ReceiptsTrack
<1>a. PICK i : i = r.response_index
  OBVIOUS
<1>b. PICK a : a = r.attempt
  OBVIOUS
<1>2. v = [index |-> i, completed |-> i >= TaskCount, attempt |-> a, next_seq |-> 1, events |-> <<>>]
  BY <1>a, <1>b DEF Replay, Response
<1>3. r \in S!Receipt /\ TaskCount \in Nat /\ sessions[Me].index \in Nat
  BY <1>1, ServerTyped, SessionAssumption DEF S!TypeOK
<1>4. i \in Nat /\ r.operation \in {"start", "finish"} /\ (i >= TaskCount) \in BOOLEAN
  <2>1. i \in 0..TaskCount /\ r.operation \in {"start", "finish"}
    BY <1>3, <1>a DEF S!Receipt
  <2> QED
    BY <1>3, <2>1
<1>5. CASE r.operation = "start"
  <2>1. a \in DOMAIN attempts /\ attempts[a].session = Me /\ attempts[a].index = i
    BY <1>1, <1>5, <1>a, <1>b DEF S!StartRows
  <2>2. a \in AttemptIds /\ a # NoAttempt
    BY <1>1, <2>1, ServerTyped, SessionAssumption
  <2>3. i <= sessions[Me].index
    BY <1>1, <2>1 DEF S!TasksInOrder
  <2>4. v \in SessionView
    BY <1>2, <1>4, <2>2 DEF SessionView
  <2> QED
    BY <1>2, <2>1, <2>2, <2>3, <2>4 DEF GoodView, AttemptAt, Owns, Numbered
<1>6. CASE r.operation = "finish"
  <2>1. PICK x : x = r.hash[1]
    OBVIOUS
  <2>2. /\ x \in DOMAIN attempts /\ attempts[x].session = Me /\ attempts[x].finish # Unfinished
        /\ attempts[x].index + 1 = i
    BY <1>1, <1>6, <1>a, <2>1 DEF S!FinishRows
  <2>3. attempts[x].index < sessions[Me].index /\ attempts[x].index \in Nat
    BY <1>1, <2>2, ServerTyped DEF S!TasksInOrder
  <2>4. i <= sessions[Me].index
    BY <1>3, <2>2, <2>3
  <2>5. a = NoAttempt
    BY <1>3, <1>6, <1>b DEF S!Receipt
  <2>6. v \in SessionView
    BY <1>2, <1>4, <2>5 DEF SessionView
  <2> QED
    BY <1>2, <1>6, <2>4, <2>5, <2>6 DEF GoodView
<1> QED
  BY <1>4, <1>5, <1>6

\* The answer to a request that changes nothing.
LEMMA AnswerForms ==
  ASSUME S!IInv, NEW m \in Request, NEW reply, reply = Answer(m)
  PROVE  \/ reply \in {Conflict, Failure}
         \/ /\ m.kind # "events"
            /\ \E v : /\ reply = Ok(v) /\ GoodView(v)
                      /\ m.kind = "start" => v.attempt # NoAttempt /\ v.events = <<>>
<1>a. PICK hash : hash = IF m.kind = "start" THEN m.task ELSE <<m.attempt, m.body>>
  OBVIOUS
<1>b. PICK rows : rows = Replayable(Me, m.command, m.kind, hash)
  OBVIOUS
<1>c. PICK r : r = CHOOSE x \in rows : TRUE
  OBVIOUS
<1>1. reply \in {Conflict, Failure} \/ (m.kind # "events" /\ rows # {} /\ reply = Ok(Replay(r)))
  BY <1>a, <1>b, <1>c DEF Answer
<1>2. CASE m.kind # "events" /\ rows # {} /\ reply = Ok(Replay(r))
  <2>1. r \in rows
    BY <1>2, <1>c
  <2>2. r \in commands /\ r.session = Me /\ r.operation = m.kind
    BY <2>1, <1>b DEF Replayable, Row
  <2>a. PICK v : v = Replay(r)
    OBVIOUS
  <2>3. GoodView(v) /\ (m.kind = "start" => v.attempt # NoAttempt /\ v.events = <<>>)
    BY <2>2, <2>a, ReplayGood
  <2> QED
    BY <1>2, <2>3, <2>a
<1> QED
  BY <1>1, <1>2

\* The page that awaits a request of some kind is busy with it.
LEMMA AwaitedKind ==
  ASSUME NEW p, Sound(p), p.call \in Request
  PROVE  /\ p.doing # "loading"
         /\ p.doing \in Checkpoints <=> p.call.kind = "events"
         /\ p.doing = "starting" <=> p.call.kind = "start"
<1>1. p.call # None /\ p.call # SessionRequest /\ p.call.kind \in {"start", "events", "finish"}
  BY RequestCall, RequestForms
<1>2. p \in Page /\ Busy(p)
  BY DEF Sound, Core
<1>3. p.doing \in {"closed", "loading", "idle", "starting", "flushing", "waiting", "draining",
           "finishing"}
  BY <1>2 DEF Page
<1>4. p.doing \notin {"closed", "idle", "loading"}
  BY <1>1, <1>2 DEF Busy
<1>5. /\ p.doing \in Checkpoints => p.call.kind = "events"
      /\ p.doing = "starting" => p.call.kind = "start"
      /\ p.doing = "finishing" => p.call.kind = "finish"
  BY <1>2 DEF Busy, Carries
<1> QED
  BY <1>3, <1>4, <1>5 DEF Checkpoints

\* GET /session describes the session as it is.
LEMMA ViewStays == S!IInv => GoodView(View(Me))
BY ViewGood

\* start, served: the session shows the new attempt, without events.
LEMMA StartView ==
  ASSUME S!TypeOK, NEW c \in CommandId, NEW i \in 0..(TaskCount - 1), S!Start(Me, c, i),
         NEW v, v = View(Me)'
  PROVE  v.attempt # NoAttempt /\ v.events = <<>>
<1>1. PICK a \in AttemptIds \ DOMAIN attempts :
        /\ DOMAIN attempts' = DOMAIN attempts \cup {a}
        /\ \A x \in DOMAIN attempts : attempts'[x] = attempts[x]
        /\ attempts'[a] = [session |-> Me, index |-> i, command |-> c,
                           started_at |-> now, log |-> <<>>, finish |-> Unfinished]
        /\ i = sessions[Me].index
        /\ S!AttemptsAt(Me, i) = {}
  BY ServerAssumptions, OneParticipant, S!StartEffect
<1>2. sessions' = sessions
  BY DEF S!Start
<1>3. AttemptsAt(Me, i)' = {a}
  <2>1. \A x \in DOMAIN attempts : ~(attempts[x].session = Me /\ attempts[x].index = i)
    BY <1>1 DEF S!AttemptsAt
  <2> QED
    BY <1>1, <2>1 DEF AttemptsAt
<1>4. sessions'[Me].index = i /\ ~(i >= TaskCount)
  BY <1>1, <1>2, SessionAssumption
<1>5. v.attempt = (CHOOSE x \in {a} : TRUE) /\ v.events = attempts'[CHOOSE x \in {a} : TRUE].log
  BY <1>3, <1>4 DEF View
<1>6. (CHOOSE x \in {a} : TRUE) = a
  OBVIOUS
<1> QED
  BY <1>1, <1>5, <1>6, SessionAssumption

\* The page whose call is served is told the truth.
LEMMA ServedTold ==
  ASSUME ClientInv, NEW m \in sent, Served(m), S!IInv',
         NEW p, Sound(p), p.call = m, NEW b, b = Body(m)', NEW q, q = [p EXCEPT !.reply = Ok(b)]
  PROVE  Told(q)' /\ Ok(b) \in Replies
<1>1. m \in Request /\ S!TypeOK /\ S!TypeOK' /\ p \in Page
  BY DEF ClientInv, GoodRequest, S!IInv, Sound, Core
<1>2. Serves(m) /\ m.kind \in {"start", "events", "finish"}
  BY <1>1, ServedNext, RequestForms
<1>3. /\ p.doing # "loading"
      /\ p.doing \in Checkpoints <=> m.kind = "events"
      /\ p.doing = "starting" <=> m.kind = "start"
  BY <1>1, AwaitedKind
<1>4. q.doing = p.doing /\ q.call = m /\ q.reply = Ok(b) /\ Ok(b).value = b /\ Ok(b).status = "ok"
  BY <1>1 DEF Page, Ok
<1>5. CASE m.kind = "events"
  <2>a. PICK a, batch : a = m.attempt /\ batch = m.events
    OBVIOUS
  <2>1. S!Events(Me, a, batch) /\ a \in AttemptIds /\ Events(Me, a, batch)
    BY <1>2, <1>5, <2>a, SameEvents DEF Serves
  <2>2. batch \in Seq(PageEvent)
    BY <1>1, <1>5, <2>a, RequestForms
  <2>b. PICK log : log = Merged(attempts[a].log, batch)
    OBVIOUS
  <2>3. /\ Owns(Me, a)
        /\ Appendable(attempts[a].log, batch, Frozen(Me, a))
        /\ attempts' = [attempts EXCEPT ![a].log = log]
    BY <2>1, <2>b DEF Events, AcceptsCheckpoint
  <2>4. \A i \in DOMAIN batch : batch[i].seq \in 1..Len(log) /\ log[batch[i].seq] = batch[i]
    BY <1>1, <2>2, <2>3, <2>b, Accepted
  <2>5. a \in DOMAIN attempts /\ attempts[a].session = Me
    BY <2>3 DEF Owns
  <2>6. a \in DOMAIN attempts' /\ attempts'[a].log = log /\ attempts'[a].session = Me
    <3>1. attempts[a] \in S!Attempt /\ DOMAIN attempts' = DOMAIN attempts
      BY <1>1, <2>3, <2>5 DEF S!TypeOK
    <3> QED
      BY <2>3, <2>5, <3>1 DEF S!Attempt
  <2>7. log \in Seq(Event)
    <3>1. attempts'[a] \in S!Attempt
      BY <1>1, <2>6 DEF S!TypeOK
    <3> QED
      BY <2>6, <3>1, SameEvent DEF S!Attempt
  <2>8. b = [next_seq |-> Len(log) + 1] /\ b \in [next_seq: Nat]
    <3>1. b = [next_seq |-> Len(attempts'[a].log) + 1]
      BY <1>5, <2>a DEF Body
    <3>2. Len(log) + 1 \in Nat
      BY <2>7
    <3> QED
      BY <2>6, <3>1, <3>2
  <2>9. \A i \in DOMAIN batch : Stored(a, batch[i])'
    <3>1. DOMAIN log = 1..Len(log)
      BY <2>7
    <3> QED
      BY <2>4, <2>6, <3>1 DEF Stored, Owns
  <2>10. Ok(b) \in Replies
    BY <1>4, <2>8 DEF Replies, Ok
  <2> QED
    BY <1>3, <1>4, <1>5, <2>8, <2>9, <2>10, <2>a DEF Told, Checkpoints
<1>6. CASE m.kind # "events"
  <2>1. b = View(Me)'
    BY <1>6 DEF Body
  <2>2. GoodView(b)'
    <3>1. (S!IInv => GoodView(View(Me)))'
      BY ViewStays, PTL
    <3> QED
      BY <2>1, <3>1
  <2>3. m.kind = "start" => b.attempt # NoAttempt /\ b.events = <<>>
    <3>1. CASE m.kind = "start"
      <4>1. PICK i \in 0..(TaskCount - 1) : S!Start(Me, m.command, i)
        BY <1>2, <3>1 DEF Serves
      <4>2. m.command \in CommandId
        BY <1>1, <1>6, RequestForms
      <4> QED
        BY <1>1, <2>1, <4>1, <4>2, StartView
    <3> QED
      BY <3>1
  <2>4. Ok(b) \in Replies
    <3>1. b \in SessionView
      BY <2>2 DEF GoodView
    <3> QED
      BY <3>1 DEF Replies, Ok
  <2> QED
    BY <1>3, <1>4, <1>6, <2>2, <2>3, <2>4 DEF Told, Checkpoints
<1> QED
  BY <1>5, <1>6

\* A stored stream is numbered, and a submit event ends it.
Ordered(log) == \A i \in 1..Len(log) : log[i].seq = i /\ (log[i].type = "submit" => i = Len(log))

Begins(old, log) == \A i \in DOMAIN old : i \in DOMAIN log /\ log[i] = old[i]

\* A command's events are what the stream of its page ends with.
Tails(events, stream, a) == events[Len(events)].seq = NoSeq \/ EndsWith(stream, events, a, <<>>)

\* finish, served: what the page that confirmed had recorded is the stored stream.
LEMMA StreamStored ==
  ASSUME S!TypeOK, NEW a, Owns(Me, a), NEW events \in Seq(PageEvent), NEW outcome, NEW node,
         AcceptsTerminal(attempts[a].log, events, outcome, node),
         NEW log, log = Merged(attempts[a].log, events), log \in Seq(Event),
         Ordered(log), Begins(attempts[a].log, log), NEW stream, Tails(events, stream, a)
  PROVE  stream = log
<1>a. PICK ls, ll, le, first : /\ ls = Len(stream) /\ ll = Len(log) /\ le = Len(events)
                               /\ first = events[1].seq
  OBVIOUS
<1>1. /\ \A i \in DOMAIN events : events[i].seq \in 1..ll /\ log[events[i].seq] = events[i]
      /\ events # <<>> /\ Submits(events) = {le}
  <2>a. PICK frozen : frozen = FALSE
    OBVIOUS
  <2>1. Appendable(attempts[a].log, events, frozen)
    BY <2>a DEF AcceptsTerminal
  <2>2. \A i \in DOMAIN events :
          events[i].seq \in 1..Len(Merged(attempts[a].log, events))
            /\ Merged(attempts[a].log, events)[events[i].seq] = events[i]
    BY <2>1, Accepted
  <2>3. \A i \in DOMAIN events : events[i].seq \in 1..ll /\ log[events[i].seq] = events[i]
    BY <1>a, <2>2
  <2>4. events # <<>> /\ Submits(events) = {le}
    BY <1>a DEF AcceptsTerminal
  <2> QED
    BY <2>3, <2>4
<1>2. /\ le \in Nat /\ ll \in Nat /\ DOMAIN events = 1..le /\ DOMAIN log = 1..ll
  BY <1>a
<1>3. le \in DOMAIN events /\ le >= 1 /\ events[le].type = "submit"
  <2>1. le \in DOMAIN events /\ events[le].type = "submit"
    BY <1>1 DEF Submits
  <2> QED
    BY <1>2, <2>1
<1>4. EndsWith(stream, events, a, <<>>)
  <2>1. events[le].seq \in 1..ll
    BY <1>1, <1>3
  <2> QED
    BY <1>2, <1>a, <2>1 DEF NoSeq, Tails
<1>5. /\ stream \in Seq(PageEvent) /\ Numbered(stream)
      /\ events[le].seq = ls
      /\ first \in 1..ls /\ le = ls + 1 - first
      /\ \A i \in 1..(first - 1) : Among(stream[i], <<>>) \/ Stored(a, stream[i])
      /\ \A i \in DOMAIN events : events[i] = stream[first + i - 1]
  BY <1>4, <1>a DEF EndsWith
<1>6. ls \in Nat /\ DOMAIN stream = 1..ls /\ \A i \in 1..ls : stream[i].seq = i
  BY <1>5, <1>a DEF Numbered
<1>7. ls = ll
  <2>1. ls \in 1..ll /\ log[ls].type = "submit"
    BY <1>1, <1>3, <1>5
  <2> QED
    BY <1>a, <2>1 DEF Ordered
<1>8. \A i \in 1..ls : stream[i] = log[i]
  <2> SUFFICES ASSUME NEW i \in 1..ls PROVE stream[i] = log[i]
    OBVIOUS
  <2>1. stream[i].seq = i /\ first \in Int
    BY <1>5, <1>6
  <2>2. CASE i < first
    <3>1. i \in 1..(first - 1)
      BY <1>6, <2>1, <2>2
    <3>2. ~Among(stream[i], <<>>)
      BY DEF Among
    <3>3. Stored(a, stream[i])
      BY <1>5, <3>1, <3>2
    <3>4. i \in DOMAIN attempts[a].log /\ attempts[a].log[i] = stream[i]
      BY <2>1, <3>3 DEF Stored
    <3> QED
      BY <3>4 DEF Begins
  <2>3. CASE i >= first
    <3>1. PICK k : k = i + 1 - first
      OBVIOUS
    <3>2. k \in 1..le /\ first + k - 1 = i
      BY <1>2, <1>5, <1>6, <2>1, <2>3, <3>1
    <3>3. events[k] = stream[i]
      BY <1>2, <1>5, <3>2
    <3>4. log[events[k].seq] = events[k]
      BY <1>1, <1>2, <3>2
    <3> QED
      BY <2>1, <3>3, <3>4
  <2> QED
    BY <1>6, <2>1, <2>2, <2>3
<1> QED
  <2>1. stream = [i \in 1..ls |-> stream[i]] /\ log = [i \in 1..ll |-> log[i]]
    BY <1>5, <1>6, <1>2, <1>a
  <2> QED
    BY <1>7, <1>8, <2>1

\* The stream that the server stores with an answer is the one a page confirmed.
LEMMA ServedStream ==
  ASSUME ClientInv, NEW m \in sent, Served(m), S!IInv', UNCHANGED confirmed
  PROVE  WholeStream'
<1>1. m \in Request /\ GoodRequest(m) /\ S!TypeOK /\ S!TypeOK' /\ WholeStream
  BY DEF ClientInv, GoodRequest, S!IInv
<1>2. Serves(m) /\ S!Next
  BY <1>1, ServedNext
<1>3. Grown /\ \A x \in DOMAIN attempts : S!Kept(x)
  <2>1. Grown
    BY <1>2, ServerStep DEF ClientInv
  <2>2. \A x \in DOMAIN attempts : S!Kept(x)
    BY <1>1, <1>2, ServerAssumptions, S!KeptStep
  <2> QED
    BY <2>1, <2>2
<1>4. SUFFICES ASSUME NEW a \in DOMAIN attempts', attempts'[a].finish # Unfinished
      PROVE  \E c \in confirmed :
               /\ c.command = attempts'[a].finish.command
               /\ c.task = attempts'[a].index
               /\ c.stream = attempts'[a].log
  BY DEF WholeStream
<1>5. CASE a \in DOMAIN attempts /\ attempts[a].finish # Unfinished
  <2>1. attempts'[a] = attempts[a]
    BY <1>3, <1>5 DEF S!Kept
  <2> QED
    BY <1>1, <1>5, <2>1 DEF WholeStream
<1>6. CASE ~(a \in DOMAIN attempts /\ attempts[a].finish # Unfinished)
  <2>1. ASSUME NEW i \in 0..(TaskCount - 1), m.kind = "start", S!Start(Me, m.command, i)
        PROVE  FALSE
    <3>a. PICK command : command = m.command
      OBVIOUS
    <3>1. command \in CommandId /\ S!Start(Me, command, i)
      BY <1>1, <2>1, <3>a, RequestForms
    <3>2. PICK b \in AttemptIds \ DOMAIN attempts :
            /\ DOMAIN attempts' = DOMAIN attempts \cup {b}
            /\ \A x \in DOMAIN attempts : attempts'[x] = attempts[x]
            /\ attempts'[b] = [session |-> Me, index |-> i, command |-> command,
                               started_at |-> now, log |-> <<>>, finish |-> Unfinished]
      BY <1>1, <2>1, <3>1, ServerAssumptions, OneParticipant, S!StartEffect
    <3>3. attempts'[b].finish = Unfinished
      BY <3>2
    <3> QED
      BY <1>4, <1>6, <3>2, <3>3
  <2>2. ASSUME m.attempt \in AttemptIds, S!Events(Me, m.attempt, m.events), m.kind = "events"
        PROVE  FALSE
    <3>a. PICK x, batch : x = m.attempt /\ batch = m.events
      OBVIOUS
    <3>0. x \in AttemptIds /\ S!Events(Me, x, batch)
      BY <2>2, <3>a
    <3>1. batch \in Seq(Event)
      <4>1. Events(Me, x, batch)
        BY <3>0, SameEvents
      <4>2. batch \in Seq(PageEvent)
        BY <1>1, <2>2, <3>a, RequestForms
      <4>b. PICK frozen : frozen = Frozen(Me, x)
        OBVIOUS
      <4>3. Owns(Me, x) /\ Appendable(attempts[x].log, batch, frozen)
        BY <4>1, <4>b DEF Events, AcceptsCheckpoint
      <4> QED
        BY <1>1, <4>2, <4>3, Accepted
    <3>2. /\ DOMAIN attempts' = DOMAIN attempts
          /\ \A y \in DOMAIN attempts : y # x => attempts'[y] = attempts[y]
          /\ attempts'[x].finish = attempts[x].finish
      BY <1>1, <3>0, <3>1, ServerAssumptions, OneParticipant, S!EventsEffect
    <3> QED
      BY <1>4, <1>6, <3>2
  <2>3. ASSUME m.attempt \in AttemptIds, m.body \in FinishBody(Nodes \cup {Root}, Event),
               S!Finish(Me, m.command, m.attempt, m.body), m.kind = "finish"
        PROVE  \E c \in confirmed :
                 /\ c.command = attempts'[a].finish.command
                 /\ c.task = attempts'[a].index
                 /\ c.stream = attempts'[a].log
    <3>a. PICK x, command, body : x = m.attempt /\ command = m.command /\ body = m.body
      OBVIOUS
    <3>0. command \in CommandId /\ S!Finish(Me, command, x, body)
          /\ x \in AttemptIds /\ body \in FinishBody(Nodes \cup {Root}, Event)
      BY <1>1, <2>3, <3>a, RequestForms
    <3>b. PICK log : log = Merged(attempts[x].log, body.events)
      OBVIOUS
    <3>1. /\ DOMAIN attempts' = DOMAIN attempts
          /\ \A y \in DOMAIN attempts : y # x => attempts'[y] = attempts[y]
          /\ attempts'[x].log = S!Merged(attempts[x].log, body.events)
          /\ attempts'[x].finish = [at |-> now, command |-> command, request |-> body]
          /\ \A y \in DOMAIN attempts : S!SameStart(y)
      BY <1>1, <3>0, ServerAssumptions, OneParticipant, S!FinishAttempts
    <3>2. /\ x \in DOMAIN attempts /\ attempts[x].session = Me
          /\ S!AcceptsTerminal(attempts[x].log, body.events, body.outcome, body.node)
          /\ body.events \in Seq(Event)
      BY <1>1, <3>0, ServerAssumptions, OneParticipant, SameEvent, S!FinishGuards
    <3>3. a = x
      BY <1>4, <1>6, <3>1
    <3>4. attempts'[x].log = log /\ attempts'[x].index = attempts[x].index
      BY <3>1, <3>2, <3>b, SameMerged DEF S!SameStart
    <3>5. PICK c \in confirmed :
            /\ c.command = command
            /\ AttemptAt(x, c.task)
            /\ body.events[Len(body.events)].seq = NoSeq \/ EndsWith(c.stream, body.events, x, <<>>)
      BY <1>1, <2>3, <3>a DEF GoodRequest, Backed
    <3>6. S!EndsRight(attempts'[x])
      BY <3>1, <3>2 DEF S!IInv, S!FinishedStreams
    <3>7. log \in Seq(Event)
      <4>1. attempts'[x] \in S!Attempt
        BY <1>1, <3>1, <3>2 DEF S!TypeOK
      <4> QED
        BY <3>4, <4>1, SameEvent DEF S!Attempt
    <3>8. Ordered(log)
      BY <3>4, <3>6 DEF S!EndsRight, Ordered
    <3>9. Begins(attempts[x].log, log)
      BY <1>3, <3>2, <3>4 DEF Grown, Begins
    <3>10. c.stream = log
      <4>a. PICK events, outcome, node, stream :
              events = body.events /\ outcome = body.outcome /\ node = body.node /\ stream = c.stream
        OBVIOUS
      <4>1. Owns(Me, x) /\ events \in Seq(PageEvent)
        BY <3>2, <4>a, ServedEvents DEF Owns
      <4>2. AcceptsTerminal(attempts[x].log, events, outcome, node)
        BY <3>2, <4>a, SameTerminal
      <4>3. Tails(events, stream, x)
        BY <3>5, <4>a DEF Tails
      <4>4. log = Merged(attempts[x].log, events)
        BY <3>b, <4>a
      <4> QED
        BY <1>1, <3>7, <3>8, <3>9, <4>1, <4>2, <4>3, <4>4, <4>a, StreamStored
    <3>11. c.task = attempts'[a].index
      BY <3>3, <3>4, <3>5 DEF AttemptAt
    <3>12. c.command = attempts'[a].finish.command
      BY <3>1, <3>3, <3>5
    <3> QED
      BY <3>3, <3>4, <3>10, <3>11, <3>12
  <2> QED
    BY <1>2, <2>1, <2>2, <2>3 DEF Serves
<1> QED
  BY <1>5, <1>6

RepliesHarmless ==
  \A p : Sound(p) => \A reply \in Replies : \A q :
    q = [p EXCEPT !.reply = reply] /\ Told(q) => Sound(q)

LEMMA RepliesStay == RepliesHarmless
BY ReplySound DEF RepliesHarmless, Replies

\* The request takes effect; the answer reaches who.
LEMMA ServeKeeps ==
  ASSUME ClientInv, NEW m \in sent, NEW who \in SUBSET Waiting(m), Served(m),
         UNCHANGED <<journal, sent, loads, confirmed>>, NEW b, b = Body(m)',
         pages' = [t \in Pages |->
           IF t \in who THEN [pages[t] EXCEPT !.reply = Ok(b)] ELSE pages[t]]
  PROVE  ClientInv'
<1>1. [S!Next]_(S!vars)
  BY ServedNext DEF ClientInv, GoodRequest, S!IInv
<1>2. /\ S!IInv' /\ Grown
      /\ \A j : j = journal => GoodJournal(j)'
      /\ \A t \in Pages : \A p : p = pages[t] => Sound(p)'
      /\ \A x \in sent : GoodRequest(x)'
  BY <1>1, Carried
<1>3. \A t \in Pages : Sound(pages[t])' /\ pages'[t].call \in sent' \cup {None, SessionRequest}
  <2> SUFFICES ASSUME NEW t \in Pages
               PROVE  Sound(pages[t])' /\ pages'[t].call \in sent' \cup {None, SessionRequest}
    OBVIOUS
  <2>a. PICK p, q : p = pages[t] /\ q = pages'[t]
    OBVIOUS
  <2>1. Sound(p) /\ p \in Page /\ p.call \in sent \cup {None, SessionRequest} /\ Sound(p)'
    BY <1>2, <2>a, PageFacts
  <2>2. CASE q = p
    BY <2>1, <2>2, <2>a
  <2>3. CASE q # p
    <3>1. q = [p EXCEPT !.reply = Ok(b)] /\ t \in who
      BY <2>3, <2>a
    <3>2. p.call = m
      BY <3>1, <2>a DEF Waiting
    <3>3. Told(q)' /\ Ok(b) \in Replies
      BY <1>2, <2>1, <3>1, <3>2, ServedTold
    <3>4. RepliesHarmless'
      BY RepliesStay, PTL
    <3>5. Sound(q)'
      BY <2>1, <3>1, <3>3, <3>4 DEF RepliesHarmless
    <3>6. q.call = p.call
      BY <2>1, <3>1 DEF Page
    <3> QED
      BY <2>1, <2>a, <3>5, <3>6
  <2> QED
    BY <2>2, <2>3
<1>4. \A c \in confirmed' : c.task \in 0..sessions'[Me].index
  BY <1>2 DEF ClientInv, Grown
<1>5. WholeStream'
  BY <1>2, ServedStream
<1>6. pages' = [u \in Pages |-> pages'[u]] /\ loads' \in Nat
  BY DEF ClientInv
<1> QED
  BY <1>2, <1>3, <1>4, <1>5, <1>6 DEF ClientInv

\* A request that changes nothing: who gets a replayed receipt or a refusal.
LEMMA AnsweredKeeps ==
  ASSUME ClientInv, NEW m \in sent, NEW who \in SUBSET Waiting(m),
         UNCHANGED <<server, journal, sent, loads, confirmed>>,
         NEW b, b = Answer(m),
         pages' = [t \in Pages |-> IF t \in who THEN [pages[t] EXCEPT !.reply = b] ELSE pages[t]]
  PROVE  ClientInv'
<1>1. m \in Request /\ S!IInv
  BY DEF ClientInv, GoodRequest
<1>2. \/ b \in {Conflict, Failure}
      \/ /\ m.kind # "events"
         /\ \E v : /\ b = Ok(v) /\ GoodView(v)
                   /\ m.kind = "start" => v.attempt # NoAttempt /\ v.events = <<>>
  BY <1>1, AnswerForms
<1>3. \A u \in Pages : \A p, q : p = pages[u] /\ q = pages'[u] =>
           q = p \/ \E reply \in Replies : q = [p EXCEPT !.reply = reply] /\ Told(q)
  <2> SUFFICES ASSUME NEW u \in Pages, NEW p, NEW q, p = pages[u], q = pages'[u], q # p
               PROVE  \E reply \in Replies : q = [p EXCEPT !.reply = reply] /\ Told(q)
    OBVIOUS
  <2>1. q = [p EXCEPT !.reply = b] /\ u \in who
    OBVIOUS
  <2>2. Sound(p) /\ p \in Page /\ p.call = m
    BY <2>1, PageFacts DEF Waiting
  <2>3. q.reply = b /\ q.doing = p.doing /\ q.call = m
    BY <2>1, <2>2 DEF Page
  <2>4. /\ p.doing # "loading"
        /\ p.doing \in Checkpoints <=> m.kind = "events"
        /\ p.doing = "starting" <=> m.kind = "start"
    BY <1>1, <2>2, AwaitedKind
  <2>5. CASE b \in {Conflict, Failure}
    BY <2>1, <2>3, <2>4, <2>5 DEF Replies, Told
  <2>6. ASSUME NEW v, m.kind # "events", b = Ok(v), GoodView(v),
               m.kind = "start" => v.attempt # NoAttempt /\ v.events = <<>>
        PROVE  b \in Replies /\ Told(q)
    <3>1. v \in SessionView
      BY <2>6 DEF GoodView
    <3>2. b \in Replies /\ b.value = v
      BY <2>6, <3>1 DEF Replies, Ok
    <3> QED
      BY <2>3, <2>4, <2>6, <3>2 DEF Told
  <2> QED
    BY <1>2, <2>1, <2>5, <2>6
<1>4. \E f : pages' = [u \in Pages |-> f[u]]
  <2>1. pages' = [u \in Pages |-> pages'[u]]
    OBVIOUS
  <2> QED
    BY <2>1
<1> QED
  BY <1>3, <1>4, AnswerKeeps

\* A request that is handled, with or without effect, keeps the invariant.
LEMMA DeliverKeeps ==
  ASSUME ClientInv, NEW m \in sent, NEW who \in SUBSET Waiting(m), Deliver(m, who)
  PROVE  ClientInv'
<1>a. PICK served, answered : served = Body(m)' /\ answered = Answer(m)
  OBVIOUS
<1>1. UNCHANGED <<journal, sent, loads, confirmed>>
  BY DEF Deliver
<1>2. CASE Served(m) /\ pages' = [t \in Pages |->
             IF t \in who THEN [pages[t] EXCEPT !.reply = Ok(served)] ELSE pages[t]]
  BY <1>1, <1>2, <1>a, ServeKeeps
<1>3. CASE UNCHANGED server /\ pages' = [t \in Pages |->
             IF t \in who THEN [pages[t] EXCEPT !.reply = answered] ELSE pages[t]]
  BY <1>1, <1>3, <1>a, AnsweredKeeps
<1> QED
  BY <1>2, <1>3, <1>a DEF Deliver

\* And it is a step of the server or leaves it alone.
LEMMA DeliverServes ==
  ASSUME ClientInv, NEW m \in sent, NEW who, Deliver(m, who)
  PROVE  [S!Next]_(S!vars)
<1>1. Served(m) \/ UNCHANGED server
  BY DEF Deliver
<1> QED
  BY <1>1, ServedNext, Still DEF ClientInv, GoodRequest, S!IInv

\* Time passes.
LEMMA TickKeeps ==
  ASSUME ClientInv, Tick, UNCHANGED client
  PROVE  ClientInv' /\ [S!Next]_(S!vars)
<1>1. S!Next
  BY DEF Tick, S!Next, S!Tick
<1>2. /\ S!IInv' /\ Grown
      /\ \A j : j = journal => GoodJournal(j)'
      /\ \A t \in Pages : \A p : p = pages[t] => Sound(p)'
      /\ \A m \in sent : GoodRequest(m)'
  BY <1>1, Carried DEF client
<1>3. UNCHANGED <<journal, pages, sent, loads, confirmed, sessions, attempts>>
  BY DEF client, Tick
<1>4. \A t \in Pages : Sound(pages[t])' /\ pages'[t].call \in sent' \cup {None, SessionRequest}
  BY <1>2, <1>3 DEF ClientInv
<1>5. WholeStream' /\ \A c \in confirmed' : c.task \in 0..sessions'[Me].index
  BY <1>3 DEF ClientInv, WholeStream
<1> QED
  BY <1>1, <1>2, <1>3, <1>4, <1>5 DEF ClientInv

\* What a page, its participant, its browser and its connection do leaves the server alone.
LEMMA PageStepKeeps ==
  ASSUME ClientInv, NEW t \in Pages, PageStep(t)
  PROVE  ClientInv' /\ UNCHANGED server
<1>1. ClientInv'
  BY OpenKeeps, LoadFailsKeeps, LoadKeeps, StartedKeeps, CheckpointedKeeps, FinishedKeeps,
     StartTaskKeeps, ChooseKeeps, NavigateKeeps, VisibilityKeeps, FlushKeeps, RetryFinishKeeps,
     ReloadProgressKeeps, ConfirmKeeps, NoticeKeeps, ReadSessionKeeps, LoseKeeps DEF PageStep
<1>2. Started(t) \/ Checkpointed(t) => UNCHANGED server
  BY Zenon DEF Started, Checkpointed, Step, Persist
<1>3. Open(t) \/ ReloadProgress(t) \/ ReadSession(t) \/ Lose(t) => UNCHANGED server
  BY Zenon DEF Open, ReloadProgress, ReadSession, Lose
<1>4. LoadFails(t) \/ Finished(t) \/ Load(t) => UNCHANGED server
  <2>1. LoadFails(t) => UNCHANGED server
    BY Zenon DEF LoadFails, Step
  <2>2. Finished(t) => UNCHANGED server
    BY Zenon DEF Finished, Step, Persist
  <2>3. Load(t) => UNCHANGED server
    BY Zenon DEF Load, Step, Persist
  <2> QED
    BY <2>1, <2>2, <2>3
<1>5. \A skip \in BOOLEAN : StartTask(t, skip) => UNCHANGED server
  BY DEF StartTask, Step, Persist
<1>6. \A n : Choose(t, n) => UNCHANGED server
  BY DEF Choose, Persist
<1>7. \A type, n : Navigate(t, type, n) => UNCHANGED server
  BY DEF Navigate, Persist
<1>8. \A type : Visibility(t, type) => UNCHANGED server
  BY DEF Visibility, Persist
<1>9. Flush(t) \/ RetryFinish(t) => UNCHANGED server
  BY DEF Flush, RetryFinish, Step
<1>10. \A outcome : Confirm(t, outcome) => UNCHANGED server
  BY DEF Confirm, Persist
<1>11. \A v : Notice(t, v) => UNCHANGED server
  BY DEF Notice, Step
<1> QED
  BY <1>1, <1>2, <1>3, <1>4, <1>5, <1>6, <1>7, <1>8, <1>9, <1>10, <1>11 DEF PageStep

\* Every step keeps the invariant and is a step of the server or leaves it alone.
LEMMA ClientStep == ClientInv /\ [ClientNext]_all => ClientInv' /\ [S!Next]_(S!vars)
<1> SUFFICES ASSUME ClientInv, [ClientNext]_all PROVE ClientInv' /\ [S!Next]_(S!vars)
  OBVIOUS
<1>1. ASSUME NEW t \in Pages, PageStep(t) PROVE ClientInv' /\ [S!Next]_(S!vars)
  BY <1>1, PageStepKeeps, Still
<1>2. ASSUME NEW m \in sent, NEW who \in SUBSET Waiting(m), Deliver(m, who)
      PROVE  ClientInv' /\ [S!Next]_(S!vars)
  BY <1>2, DeliverKeeps, DeliverServes
<1>3. CASE Tick /\ UNCHANGED client
  BY <1>3, TickKeeps
<1>4. CASE UNCHANGED all
  <2>1. UNCHANGED server /\ UNCHANGED client
    BY <1>4 DEF all
  <2>2. UNCHANGED <<journal, pages, sent, loads, confirmed>>
    BY <2>1 DEF client
  <2>3. \A u \in Pages : \A p, q : p = pages[u] /\ q = pages'[u] =>
           q = p \/ \E reply \in Replies : q = [p EXCEPT !.reply = reply] /\ Told(q)
    BY <2>2
  <2>4. pages' = [u \in Pages |-> pages[u]]
    BY <2>2 DEF ClientInv
  <2>5. \E f : pages' = [u \in Pages |-> f[u]]
    BY <2>4
  <2> QED
    BY <2>1, <2>2, <2>3, <2>5, AnswerKeeps, Still
<1> QED
  BY <1>1, <1>2, <1>3, <1>4 DEF ClientNext

\* A page that was never opened is sound.
LEMMA NewPageSound ==
  ASSUME NEW q, q = NewPage, sessions[Me].index \in Nat
  PROVE  Sound(q) /\ q.call = None
<1>a. PICK empty : empty = EmptyJournal
  OBVIOUS
<1>1. empty \in Journal /\ GoodJournal(empty)
  BY <1>a, EmptyGood
<1>2. q = [doing |-> "closed", epoch |-> 0, saved |-> empty, index |-> 0,
         completed |-> FALSE, attempt |-> NoAttempt, stream |-> <<>>, here |-> Root,
         selected |-> None, active |-> FALSE, blocked |-> FALSE,
         call |-> None, reply |-> None, news |-> {}]
  BY <1>a DEF NewPage
<1>3. q \in Page
  BY <1>1, <1>2, PlacesHold DEF Page
<1>4. /\ q.doing = "closed" /\ q.call = None /\ q.reply = None /\ q.saved = empty
      /\ q.index = 0 /\ q.attempt = NoAttempt /\ q.stream = <<>> /\ q.active = FALSE
  BY <1>2
<1>5. Core(q)
  BY <1>1, <1>3, <1>4 DEF Core
<1>6. Busy(q) /\ Told(q) /\ Fresh(q)
  BY <1>4 DEF Busy, Told, Fresh, Checkpoints
<1> QED
  BY <1>4, <1>5, <1>6 DEF Sound

\* The invariant holds at first, and the server starts as it should.
LEMMA ClientStart == ClientInit => ClientInv /\ S!Init
<1> SUFFICES ASSUME ClientInit PROVE ClientInv /\ S!Init
  OBVIOUS
<1>1. S!Init
  BY SameInit DEF ClientInit
<1>2. S!IInv
  BY <1>1, ServerAssumptions, S!TypeInit, S!OrderInit, S!StreamInit, S!ReceiptInit DEF S!IInv
<1>a. PICK q : q = NewPage
  OBVIOUS
<1>3. Sound(q) /\ q.call = None
  BY <1>2, <1>a, ServerTyped, NewPageSound DEF S!IInv
<1>4. pages = [t \in Pages |-> q]
  BY <1>a DEF ClientInit
<1>5. GoodJournal(journal) /\ sent = {} /\ loads \in Nat /\ confirmed = {}
  BY EmptyGood DEF ClientInit
<1>6. WholeStream
  BY DEF ClientInit, Init, WholeStream
<1> QED
  BY <1>1, <1>2, <1>3, <1>4, <1>5, <1>6 DEF ClientInv

-----------------------------------------------------------------------------
(* The theorems. *)

\* Every page agrees with the server about what is stored, however many tabs there
\* are, whatever the network loses, delays or repeats and whenever a tab reloads.
THEOREM ClientInvariance == ClientSpec => []ClientInv
BY ClientStart, ClientStep, PTL DEF ClientSpec

\* Under the pages, the server is the server of module Participation: whatever the
\* tabs send, its theorems hold for them.
THEOREM ServerImplemented == ClientSpec => S!Spec
BY ClientStart, ClientStep, ClientInvariance, PTL DEF ClientSpec, S!Spec

\* Pages, journal and requests keep their shape, and a journal holds one command
\* (participant.js, persist and sendFinish).
THEOREM ClientTyped == ClientSpec => []ClientTypeOK
<1>1. ClientInv => ClientTypeOK
  <2> SUFFICES ASSUME ClientInv PROVE ClientTypeOK
    OBVIOUS
  <2>1. GoodJournal(journal) /\ loads \in Nat /\ \A m \in sent : GoodRequest(m)
    BY DEF ClientInv
  <2>2. journal \in Journal /\ (journal.start = None \/ journal.finish = None)
    BY <2>1 DEF GoodJournal
  <2>3. sent \subseteq Request
    BY <2>1 DEF GoodRequest
  <2>4. \A t \in Pages : pages[t] \in Page /\ (pages[t].call = None <=> pages[t].doing \in {"closed", "idle"})
    BY DEF ClientInv, Sound, Core, Busy
  <2>5. pages \in [Pages -> Page]
    BY <2>4 DEF ClientInv
  <2>6. \A t \in Pages : pages[t].call \in sent \cup {None, SessionRequest}
    BY DEF ClientInv
  <2> QED
    BY <2>1, <2>2, <2>3, <2>4, <2>5, <2>6 DEF ClientTypeOK
<1> QED
  BY <1>1, ClientInvariance, PTL

\* API.md, "stale tabs cannot silently finalize another tab's stream": the stream
\* stored with an answer is the one its page had recorded when the answer was
\* confirmed (sendFinish, appendEvents, finish).
THEOREM StreamsWhole == ClientSpec => []WholeStream
BY ClientInvariance, PTL DEF ClientInv

\* "Progress saved": what a page takes out of its outbox is stored, as it was
\* recorded (checkpoint, ackEvents, reconcileEvents).
THEOREM ProgressSaved == ClientSpec => []SavedIsStored
<1>1. ClientInv => SavedIsStored
  <2> SUFFICES ASSUME ClientInv, NEW t \in Pages, NEW i \in DOMAIN pages[t].stream,
                      \A j \in DOMAIN pages[t].saved.events : pages[t].saved.events[j] # pages[t].stream[i]
               PROVE  /\ pages[t].attempt \in DOMAIN attempts
                      /\ pages[t].stream[i].seq \in DOMAIN attempts[pages[t].attempt].log
                      /\ attempts[pages[t].attempt].log[pages[t].stream[i].seq] = pages[t].stream[i]
    BY DEF SavedIsStored
  <2>1. Core(pages[t])
    BY DEF ClientInv, Sound
  <2>2. Stored(pages[t].attempt, pages[t].stream[i])
    BY <2>1 DEF Core, Among
  <2> QED
    BY <2>2 DEF Stored, Owns
<1> QED
  BY <1>1, ClientInvariance, PTL

-----------------------------------------------------------------------------
(* The answer log.                                                         *)

\* The abstract variables.
Pended == {<<c.task, c.answer>> : c \in {x \in confirmed : x.task = sessions[Me].index}}
Held == [i \in 1..sessions[Me].index |-> Kept(i - 1)]
Displayed == [t \in Pages |-> IF Reveals(t) THEN pages[t].index ELSE 0]

\* The actions of the answer log, over these variables.
LEMMA LogStarts ==
  Log!LogInit <=> Pended = {} /\ Held = <<>> /\ Displayed = [t \in Pages |-> 0]
BY Zenon DEF Log!LogInit, Pended, Held, Displayed

LEMMA LogConfirms ==
  ASSUME NEW t, NEW a, Pended' = Pended \cup {<<Len(Held), a>>},
         Displayed' = [Displayed EXCEPT ![t] = 0], Held' = Held
  PROVE  Log!LogConfirm(t, a)
BY Zenon DEF Log!LogConfirm, Pended, Held, Displayed

LEMMA LogStores ==
  ASSUME NEW a, Len(Held) < TaskCount, <<Len(Held), a>> \in Pended,
         Held' = Append(Held, a), Pended' = {}, Displayed' = Displayed
  PROVE  Log!LogStore(a)
BY Zenon DEF Log!LogStore, Pended, Held, Displayed

LEMMA LogShows ==
  ASSUME NEW t, NEW i, i <= Len(Held), Displayed' = [Displayed EXCEPT ![t] = i],
         Pended' = Pended, Held' = Held
  PROVE  Log!LogShow(t, i)
BY Zenon DEF Log!LogShow, Pended, Held, Displayed

\* What a page shows never runs ahead of the answers that are kept.
LogShaped ==
  /\ sessions[Me].index \in 0..TaskCount
  /\ Len(Held) = sessions[Me].index
  /\ \A t \in Pages : pages[t] \in Page /\ pages[t].index \in 0..sessions[Me].index

LEMMA LogShape == ClientInv => LogShaped
<1> SUFFICES ASSUME ClientInv PROVE LogShaped
  OBVIOUS
<1>1. sessions[Me].index \in 0..TaskCount /\ sessions[Me].index \in Nat
  BY ServerTyped DEF ClientInv, S!IInv
<1>2. Len(Held) = sessions[Me].index
  BY <1>1 DEF Held
<1>3. ASSUME NEW t \in Pages PROVE pages[t] \in Page /\ pages[t].index \in 0..sessions[Me].index
  <2>1. pages[t] \in Page /\ pages[t].index <= sessions[Me].index
    BY DEF ClientInv, Sound, Core
  <2>2. pages[t].index \in Nat
    BY <2>1 DEF Page
  <2> QED
    BY <1>1, <2>1, <2>2
<1> QED
  BY <1>1, <1>2, <1>3 DEF LogShaped

\* The other tabs show what they showed.
Elsewhere(t) ==
  \A u \in Pages \ {t} : /\ pages'[u].doing = pages[u].doing
                         /\ pages'[u].saved = pages[u].saved
                         /\ pages'[u].index = pages[u].index

\* A step of one page leaves what the others show.
LEMMA StepElsewhere ==
  ASSUME ClientInv, NEW t \in Pages, NEW page, Step(t, page) \/ Persist(t, page)
  PROVE  Elsewhere(t) /\ pages'[t] = page
<1>1. \A u \in Pages : pages[u] \in Page
  BY DEF ClientInv, Sound, Core
<1>2. CASE Step(t, page)
  BY <1>2 DEF Step, Elsewhere, ClientInv
<1>3. CASE Persist(t, page)
  <2>1. pages'[t] = page
    BY <1>3 DEF Persist
  <2>2. ASSUME NEW u \in Pages \ {t}
        PROVE  /\ pages'[u].doing = pages[u].doing
               /\ pages'[u].saved = pages[u].saved
               /\ pages'[u].index = pages[u].index
    <3>1. pages'[u] = pages[u] \/ pages'[u] = [pages[u] EXCEPT !.news = @ \cup {page.saved}]
      BY <1>3, <2>2 DEF Persist
    <3> QED
      BY <1>1, <3>1 DEF Page
  <2> QED
    BY <2>1, <2>2 DEF Elsewhere
<1> QED
  BY <1>2, <1>3

\* Only a confirmation is confirmed, and no step of a page changes the others.
LEMMA PageMoves ==
  ASSUME ClientInv, NEW t \in Pages, PageStep(t)
  PROVE  /\ Elsewhere(t)
         /\ UNCHANGED confirmed \/ Confirming(pages'[t])
<1>0. \A page : Step(t, page) \/ Persist(t, page) => Elsewhere(t)
  BY StepElsewhere
<1>p. \A u \in Pages : pages[u] \in Page
  BY DEF ClientInv, Sound, Core
<1>1. LoadFails(t) \/ Finished(t) => Elsewhere(t) /\ UNCHANGED confirmed
  <2>1. LoadFails(t) => Elsewhere(t) /\ UNCHANGED confirmed
    BY <1>0, Zenon DEF LoadFails
  <2>2. Finished(t) => Elsewhere(t) /\ UNCHANGED confirmed
    BY <1>0, Zenon DEF Finished
  <2> QED
    BY <2>1, <2>2
<1>2. Load(t) \/ Checkpointed(t) => Elsewhere(t) /\ UNCHANGED confirmed
  <2>1. Load(t) => Elsewhere(t) /\ UNCHANGED confirmed
    BY <1>0, Zenon DEF Load
  <2>2. Checkpointed(t) => Elsewhere(t) /\ UNCHANGED confirmed
    BY <1>0, Zenon DEF Checkpointed
  <2> QED
    BY <2>1, <2>2
<1>3. \A skip \in BOOLEAN : StartTask(t, skip) => Elsewhere(t) /\ UNCHANGED confirmed
  BY <1>0, Zenon DEF StartTask
<1>4. \A n : Choose(t, n) => Elsewhere(t) /\ UNCHANGED confirmed
  BY <1>0, Zenon DEF Choose, Browsing
<1>5. \A type, n : Navigate(t, type, n) => Elsewhere(t) /\ UNCHANGED confirmed
  BY <1>0, Zenon DEF Navigate, Browsing
<1>6. \A type : Visibility(t, type) => Elsewhere(t) /\ UNCHANGED confirmed
  BY <1>0, Zenon DEF Visibility, Browsing
<1>7. Flush(t) \/ RetryFinish(t) => Elsewhere(t) /\ UNCHANGED confirmed
  BY <1>0, Zenon DEF Flush, RetryFinish
<1>8. \A outcome \in Answers : Confirm(t, outcome) => Elsewhere(t) /\ Confirming(pages'[t])
  <2>1. \A outcome : Confirm(t, outcome) => Elsewhere(t)
    BY <1>0, Zenon DEF Confirm
  <2> QED
    BY <2>1, ConfirmKeeps
<1>12. Started(t) => Elsewhere(t) /\ (UNCHANGED confirmed \/ Confirming(pages'[t]))
  <2>1. Started(t) => Elsewhere(t)
    BY <1>0, Zenon DEF Started
  <2> QED
    BY <2>1, StartedKeeps
<1>9. \A v : Notice(t, v) => Elsewhere(t) /\ UNCHANGED confirmed
  BY <1>0, Zenon DEF Notice
<1>10. Open(t) \/ ReadSession(t) \/ Lose(t) => Elsewhere(t) /\ UNCHANGED confirmed
  BY DEF Open, ReadSession, Lose, Elsewhere, ClientInv
<1>11. ReloadProgress(t) => Elsewhere(t) /\ UNCHANGED confirmed
  <2> SUFFICES ASSUME ReloadProgress(t), NEW u \in Pages \ {t}
               PROVE  /\ pages'[u].doing = pages[u].doing
                      /\ pages'[u].saved = pages[u].saved
                      /\ pages'[u].index = pages[u].index
    BY DEF ReloadProgress, Elsewhere
  <2>1. pages'[u] = pages[u] \/ pages'[u] = [pages[u] EXCEPT !.news = @ \cup {None}]
    BY DEF ReloadProgress
  <2> QED
    BY <1>p, <2>1 DEF Page
<1> QED
  BY <1>1, <1>2, <1>3, <1>4, <1>5, <1>6, <1>7, <1>8, <1>9, <1>10, <1>11, <1>12 DEF PageStep

\* A page's step: it shows another task, or none, and may confirm an answer.
LEMMA PageLogs ==
  ASSUME ClientInv, ClientInv', UNCHANGED server, NEW t \in Pages, Elsewhere(t),
         UNCHANGED confirmed \/ Confirming(pages'[t])
  PROVE  \/ \E a \in Outcomes \X Places : Log!LogConfirm(t, a)
         \/ \E i \in 0..TaskCount : Log!LogShow(t, i)
<1>a. PICK n : n = sessions[Me].index
  OBVIOUS
<1>b. PICK p : p = pages'[t]
  OBVIOUS
<1>1. n \in 0..TaskCount /\ Len(Held) = n /\ sessions'[Me].index = n
  BY <1>a, LogShape DEF LogShaped, server
<1>2. Held' = Held
  BY DEF server, Held, Kept, KeptAttempt, AttemptsAt
<1>3. p \in Page /\ p.index \in 0..n
  <2>1. LogShaped'
    BY LogShape, PTL
  <2> QED
    BY <1>1, <1>b, <2>1 DEF LogShaped
<1>c. PICK f, g, i : f = Displayed /\ g = Displayed' /\ i = g[t]
  OBVIOUS
<1>4. Displayed' = [Displayed EXCEPT ![t] = i]
  <2>1. \A u \in Pages : u # t => g[u] = f[u]
    BY <1>c DEF Displayed, Elsewhere, Reveals
  <2>2. f = [u \in Pages |-> f[u]] /\ g = [u \in Pages |-> g[u]]
    BY <1>c DEF Displayed
  <2>3. g = [f EXCEPT ![t] = i]
    BY <1>c, <2>1, <2>2
  <2> QED
    BY <1>c, <2>3
<1>5. i \in 0..n
  BY <1>1, <1>3, <1>b, <1>c DEF Displayed
<1>6. CASE UNCHANGED confirmed
  <2>1. Pended' = Pended
    BY <1>6 DEF Pended, server
  <2>2. i <= n /\ i \in 0..TaskCount
    BY <1>1, <1>5, SessionAssumption
  <2>3. Log!LogShow(t, i)
    BY <1>1, <1>2, <1>4, <2>1, <2>2, LogShows
  <2> QED
    BY <2>2, <2>3
<1>7. CASE Confirming(p)
  <2>1. PICK c : /\ confirmed' = confirmed \cup {c} /\ c.task = p.index
                 /\ c.answer = <<p.saved.finish.outcome, p.saved.finish.node>>
                 /\ p.saved.finish # None
    BY <1>7 DEF Confirming
  <2>2. i = 0
    BY <1>b, <1>c, <2>1 DEF Displayed, Reveals
  <2>3. CASE p.index = n
    <3>1. Pended' = Pended \cup {<<n, c.answer>>}
      BY <1>1, <1>a, <2>1, <2>3 DEF Pended
    <3>2. c.answer \in Outcomes \X Places
      <4>1. p.saved.finish \in FinishCommand
        BY <1>3, <2>1 DEF Page, Journal
      <4> QED
        BY <2>1, <4>1 DEF FinishCommand
    <3>3. Log!LogConfirm(t, c.answer)
      BY <1>1, <1>2, <1>4, <2>2, <3>1, LogConfirms
    <3> QED
      BY <3>2, <3>3
  <2>4. CASE p.index # n
    <3>1. Pended' = Pended
      BY <1>1, <1>a, <2>1, <2>4 DEF Pended
    <3>2. 0 <= n /\ 0 \in 0..TaskCount
      BY <1>1, SessionAssumption
    <3>3. Log!LogShow(t, 0)
      BY <1>1, <1>2, <1>4, <2>2, <3>1, <3>2, LogShows
    <3> QED
      BY <3>2, <3>3
  <2> QED
    BY <2>3, <2>4
<1> QED
  BY <1>6, <1>7, <1>b

\* An answer that only tells a page something: the log stays as it is.
LEMMA LogStays ==
  ASSUME ClientInv, ClientInv', UNCHANGED server, UNCHANGED confirmed,
         \A u \in Pages : /\ pages'[u].doing = pages[u].doing
                          /\ pages'[u].saved = pages[u].saved
                          /\ pages'[u].index = pages[u].index
  PROVE  Pended' = Pended /\ Held' = Held /\ Displayed' = Displayed
<1>1. Held' = Held
  BY DEF server, Held, Kept, KeptAttempt, AttemptsAt
<1>2. Pended' = Pended
  BY DEF Pended, server
<1>3. Displayed' = Displayed
  BY DEF Displayed, Reveals
<1> QED
  BY <1>1, <1>2, <1>3

LEMMA SameAttemptsAt == \A i : S!AttemptsAt(Me, i) = AttemptsAt(Me, i)
BY DEF S!AttemptsAt, AttemptsAt

\* The answers of the tasks that are behind stay what they are.
LEMMA KeptStays ==
  ASSUME S!TypeOK, S!TasksInOrder, \A x \in DOMAIN attempts : S!Kept(x), Grown,
         \A x \in DOMAIN attempts' \ DOMAIN attempts :
           attempts'[x].session = Me => attempts'[x].index = sessions[Me].index
  PROVE  \A i \in 0..(sessions[Me].index - 1) : Kept(i)' = Kept(i)
<1> SUFFICES ASSUME NEW i \in 0..(sessions[Me].index - 1) PROVE Kept(i)' = Kept(i)
  OBVIOUS
<1>1. sessions[Me].index \in Nat
  BY ServerTyped
<1>2. AttemptsAt(Me, i)' = AttemptsAt(Me, i)
  BY <1>1 DEF AttemptsAt, Grown
<1>a. PICK a : a = KeptAttempt(i)
  OBVIOUS
<1>3. a \in AttemptsAt(Me, i) /\ KeptAttempt(i)' = a
  <2>1. AttemptsAt(Me, i) # {}
    <3>1. S!AttemptsAt(Me, i) # {}
      BY OneParticipant DEF S!TasksInOrder
    <3> QED
      BY <3>1, SameAttemptsAt
  <2> QED
    BY <1>2, <1>a, <2>1 DEF KeptAttempt
<1>4. attempts[a].finish # Unfinished /\ a \in DOMAIN attempts
  <2>1. a \in DOMAIN attempts /\ attempts[a].session = Me /\ attempts[a].index = i
    BY <1>3 DEF AttemptsAt
  <2>2. i < sessions[Me].index
    BY <1>1
  <2> QED
    BY <2>1, <2>2 DEF S!TasksInOrder
<1>5. attempts'[a] = attempts[a]
  BY <1>4 DEF S!Kept
<1> QED
  BY <1>3, <1>5, <1>a DEF Kept

\* start and events keep no answer.
LEMMA UnkeptStays ==
  ASSUME ClientInv, \A x \in DOMAIN attempts : S!Kept(x), Grown, UNCHANGED confirmed,
         \A x \in DOMAIN attempts' \ DOMAIN attempts :
           attempts'[x].session = Me => attempts'[x].index = sessions[Me].index,
         sessions'[Me].index = sessions[Me].index
  PROVE  Pended' = Pended /\ Held' = Held
<1>1. \A i \in 0..(sessions[Me].index - 1) : Kept(i)' = Kept(i)
  BY KeptStays DEF ClientInv, S!IInv
<1>2. sessions[Me].index \in Nat
  BY ServerTyped DEF ClientInv, S!IInv
<1>3. \A i \in 1..sessions[Me].index : Kept(i - 1)' = Kept(i - 1)
  BY <1>1, <1>2
<1>4. Held' = Held
  BY <1>3 DEF Held
<1> QED
  BY <1>4 DEF Pended

\* finish keeps an answer that was confirmed for the task.
LEMMA FinishLogs ==
  ASSUME ClientInv, S!IInv', NEW m \in sent, m.kind = "finish", m.attempt \in AttemptIds,
         m.body \in FinishBody(Nodes \cup {Root}, Event),
         S!Finish(Me, m.command, m.attempt, m.body),
         \A x \in DOMAIN attempts : S!Kept(x), Grown, UNCHANGED confirmed, Displayed' = Displayed
  PROVE  \E a \in Outcomes \X Places : Log!LogStore(a)
<1>a. PICK n : n = sessions[Me].index
  OBVIOUS
<1>b. PICK command, a, body : command = m.command /\ a = m.attempt /\ body = m.body
  OBVIOUS
<1>1. GoodRequest(m) /\ S!TypeOK /\ S!TasksInOrder /\ n \in Nat /\ m \in Request
  BY <1>a, ServerTyped DEF ClientInv, S!IInv, GoodRequest
<1>2. command \in CommandId
  BY <1>1, <1>b, RequestForms
<1>3. S!Finish(Me, command, a, body) /\ body \in FinishBody(Nodes \cup {Root}, Event) /\ a \in AttemptIds
  BY <1>b
<1>4. /\ a \in DOMAIN attempts /\ attempts[a].session = Me
      /\ attempts[a].index = n
      /\ DOMAIN attempts' = DOMAIN attempts
      /\ attempts'[a].finish = [at |-> now, command |-> command, request |-> body]
      /\ sessions'[Me].index = n + 1
  <2>1. /\ a \in DOMAIN attempts
        /\ attempts[a].session = Me
        /\ attempts[a].index = sessions[Me].index
    BY <1>1, <1>2, <1>3, ServerAssumptions, OneParticipant, S!FinishGuards
  <2>2. /\ DOMAIN attempts' = DOMAIN attempts
        /\ \A y \in DOMAIN attempts : y # a => attempts'[y] = attempts[y]
        /\ attempts'[a].log = S!Merged(attempts[a].log, body.events)
        /\ attempts'[a].finish = [at |-> now, command |-> command, request |-> body]
        /\ \A y \in DOMAIN attempts : S!SameStart(y)
    BY <1>1, <1>2, <1>3, ServerAssumptions, OneParticipant, S!FinishAttempts
  <2>3. sessions'[Me].index = sessions[Me].index + 1
    BY <1>1, <1>2, <1>3, ServerAssumptions, OneParticipant, S!FinishSessions
  <2> QED
    BY <1>a, <2>1, <2>2, <2>3
<1>c. PICK answer : answer = <<body.outcome, body.node>>
  OBVIOUS
<1>5. answer \in Outcomes \X Places
  BY <1>3, <1>c, PlacesHold DEF FinishBody
<1>6. <<n, answer>> \in Pended
  <2>1. PICK x \in confirmed : x.answer = answer /\ AttemptAt(a, x.task)
    BY <1>1, <1>b, <1>c DEF GoodRequest, Backed
  <2>2. x.task = n
    BY <1>4, <2>1 DEF AttemptAt
  <2> QED
    BY <1>a, <2>1, <2>2 DEF Pended
<1>7. Pended' = {}
  <2> SUFFICES ASSUME NEW x \in confirmed PROVE x.task # n + 1
    BY <1>4 DEF Pended
  <2>1. x.task \in 0..n
    BY <1>a DEF ClientInv
  <2> QED
    BY <1>1, <2>1
<1>8. Kept(n)' = answer
  <2>1. AttemptsAt(Me, n)' = {a}
    <3>1. a \in AttemptsAt(Me, n)'
      BY <1>4 DEF AttemptsAt, Grown
    <3>2. \A x, y \in DOMAIN attempts' :
            attempts'[x].session = attempts'[y].session /\ attempts'[x].index = attempts'[y].index => x = y
      BY DEF S!IInv, S!TasksInOrder
    <3> QED
      BY <3>1, <3>2 DEF AttemptsAt
  <2>2. KeptAttempt(n)' = a
    BY <2>1 DEF KeptAttempt
  <2>3. attempts'[a].finish.request = body
    BY <1>4
  <2> QED
    BY <1>c, <2>2, <2>3 DEF Kept
<1>9. \A i \in 0..(n - 1) : Kept(i)' = Kept(i)
  BY <1>1, <1>4, <1>a, KeptStays
<1>10. Held' = Append(Held, answer)
  <2>1. Held' = [i \in 1..(n + 1) |-> Kept(i - 1)']
    BY <1>4 DEF Held
  <2>2. \A i \in 1..n : Kept(i - 1)' = Kept(i - 1)
    BY <1>1, <1>9
  <2>3. \A i \in 1..(n + 1) : Kept(i - 1)' = IF i = n + 1 THEN answer ELSE Held[i]
    <3>1. \A i \in 1..n : Held[i] = Kept(i - 1)
      BY <1>a DEF Held
    <3>2. \A i \in 1..(n + 1) : i = n + 1 \/ i \in 1..n
      BY <1>1
    <3>3. (n + 1) - 1 = n
      BY <1>1
    <3> QED
      BY <1>1, <1>8, <2>2, <3>1, <3>2, <3>3
  <2>4. Held' = [i \in 1..(n + 1) |-> IF i = n + 1 THEN answer ELSE Held[i]]
    BY <2>1, <2>3
  <2>5. Len(Held) = n
    BY <1>a, LogShape DEF LogShaped
  <2>a. PICK h : h = Held
    OBVIOUS
  <2>b. PICK A : A = {h[i] : i \in 1..n} \cup {answer}
    OBVIOUS
  <2>c. PICK g : g = Append(h, answer)
    OBVIOUS
  <2>6. h \in Seq(A) /\ Len(h) = n /\ answer \in A
    <3>1. h \in [1..n -> A]
      BY <1>a, <2>a, <2>b DEF Held
    <3> QED
      BY <1>1, <2>5, <2>a, <2>b, <3>1
  <2>7. g = [i \in 1..(n + 1) |-> IF i = n + 1 THEN answer ELSE h[i]]
    <3>1. /\ g \in Seq(A) /\ Len(g) = n + 1
          /\ \A i \in 1..n : g[i] = h[i]
          /\ g[n + 1] = answer
      BY <2>6, <2>c, AppendProperties
    <3>2. g = [i \in 1..(n + 1) |-> g[i]]
      BY <1>1, <3>1
    <3>3. \A i \in 1..(n + 1) : g[i] = IF i = n + 1 THEN answer ELSE h[i]
      BY <1>1, <3>1
    <3> QED
      BY <3>2, <3>3
  <2> QED
    BY <2>4, <2>7, <2>a, <2>c
<1>11. Len(Held) = n /\ n < TaskCount
  <2>1. n + 1 <= TaskCount
    <3>1. sessions'[Me].index \in 0..TaskCount
      <4>1. S!TypeOK'
        BY DEF S!IInv
      <4> QED
        BY <4>1, OneParticipant DEF S!TypeOK, S!SessionRow
    <3> QED
      BY <1>1, <1>4, <3>1, SessionAssumption
  <2> QED
    BY <1>1, <1>a, <2>1, LogShape, SessionAssumption DEF LogShaped
<1>12. Log!LogStore(answer)
  BY <1>6, <1>7, <1>10, <1>11, LogStores
<1> QED
  BY <1>5, <1>12

\* The server handles a request.
LEMMA ServedLogs ==
  ASSUME ClientInv, S!IInv', NEW m \in sent, Served(m), UNCHANGED confirmed, Displayed' = Displayed
  PROVE  \/ \E a \in Outcomes \X Places : Log!LogStore(a)
         \/ Pended' = Pended /\ Held' = Held /\ Displayed' = Displayed
<1>1. m \in Request /\ S!TypeOK /\ S!TypeOK'
  BY DEF ClientInv, GoodRequest, S!IInv
<1>2. Serves(m) /\ S!Next
  BY <1>1, ServedNext
<1>3. Grown /\ \A x \in DOMAIN attempts : S!Kept(x)
  <2>1. Grown
    BY <1>2, ServerStep DEF ClientInv
  <2>2. \A x \in DOMAIN attempts : S!Kept(x)
    BY <1>1, <1>2, ServerAssumptions, S!KeptStep
  <2> QED
    BY <2>1, <2>2
<1>4. ASSUME NEW i \in 0..(TaskCount - 1), m.kind = "start", S!Start(Me, m.command, i)
      PROVE  Pended' = Pended /\ Held' = Held
  <2>a. PICK command : command = m.command
    OBVIOUS
  <2>1. command \in CommandId /\ S!Start(Me, command, i)
    BY <1>1, <1>4, <2>a, RequestForms
  <2>2. PICK b \in AttemptIds \ DOMAIN attempts :
          /\ DOMAIN attempts' = DOMAIN attempts \cup {b}
          /\ \A x \in DOMAIN attempts : attempts'[x] = attempts[x]
          /\ attempts'[b] = [session |-> Me, index |-> i, command |-> command,
                             started_at |-> now, log |-> <<>>, finish |-> Unfinished]
          /\ i = sessions[Me].index
          /\ S!AttemptsAt(Me, i) = {}
          /\ UNCHANGED sessions
    BY <1>1, <2>1, ServerAssumptions, OneParticipant, S!StartEffect
  <2>3. \A x \in DOMAIN attempts' \ DOMAIN attempts :
           attempts'[x].session = Me => attempts'[x].index = sessions[Me].index
    BY <2>2
  <2> QED
    BY <1>3, <2>2, <2>3, UnkeptStays
<1>5. ASSUME m.attempt \in AttemptIds, S!Events(Me, m.attempt, m.events), m.kind = "events"
      PROVE  Pended' = Pended /\ Held' = Held
  <2>a. PICK x, batch : x = m.attempt /\ batch = m.events
    OBVIOUS
  <2>1. Events(Me, x, batch)
    BY <1>5, <2>a, SameEvents
  <2>2. DOMAIN attempts' = DOMAIN attempts
    BY <2>1 DEF Events
  <2>3. sessions'[Me].index = sessions[Me].index
    <3>1. sessions' = [sessions EXCEPT ![Me].event_bytes = @ + Added(x, batch)]
      BY <2>1 DEF Events
    <3>2. Me \in DOMAIN sessions /\ sessions[Me] \in S!SessionRow
      BY <1>1, OneParticipant DEF S!TypeOK
    <3> QED
      BY <3>1, <3>2 DEF S!SessionRow
  <2> QED
    BY <1>3, <2>2, <2>3, UnkeptStays
<1>6. ASSUME m.kind = "finish", m.attempt \in AttemptIds,
             m.body \in FinishBody(Nodes \cup {Root}, Event),
             S!Finish(Me, m.command, m.attempt, m.body)
      PROVE  \E a \in Outcomes \X Places : Log!LogStore(a)
  BY <1>3, <1>6, FinishLogs
<1> QED
  BY <1>2, <1>4, <1>5, <1>6 DEF Serves

\* An answer that reaches a page changes what the page awaits.
LEMMA DeliverLogs ==
  ASSUME ClientInv, ClientInv', NEW m \in sent, NEW who \in SUBSET Waiting(m), Deliver(m, who)
  PROVE  \/ \E a \in Outcomes \X Places : Log!LogStore(a)
         \/ Pended' = Pended /\ Held' = Held /\ Displayed' = Displayed
<1>a. PICK served, answered : served = Ok(Body(m)') /\ answered = Answer(m)
  OBVIOUS
<1>1. \E b : pages' = [t \in Pages |-> IF t \in who THEN [pages[t] EXCEPT !.reply = b] ELSE pages[t]]
  BY <1>a DEF Deliver
<1>2. ASSUME NEW u \in Pages
      PROVE  /\ pages'[u].doing = pages[u].doing
             /\ pages'[u].saved = pages[u].saved
             /\ pages'[u].index = pages[u].index
  <2>1. pages[u] \in Page
    BY DEF ClientInv, Sound, Core
  <2>2. pages'[u] = pages[u] \/ \E b : pages'[u] = [pages[u] EXCEPT !.reply = b]
    BY <1>1
  <2> QED
    BY <2>1, <2>2 DEF Page
<1>3. Displayed' = Displayed
  BY <1>2 DEF Displayed, Reveals
<1>4. UNCHANGED confirmed /\ (Served(m) \/ UNCHANGED server)
  BY DEF Deliver
<1>5. S!IInv'
  BY DEF ClientInv
<1> QED
  BY <1>2, <1>3, <1>4, <1>5, ServedLogs, LogStays

\* Every step is a step of the answer log or leaves it alone.
LEMMA LogStep ==
  ASSUME ClientInv, ClientInv', [ClientNext]_all
  PROVE  Log!LogNext \/ (Pended' = Pended /\ Held' = Held /\ Displayed' = Displayed)
<1>1. ASSUME NEW t \in Pages, PageStep(t) PROVE Log!LogNext
  <2>1. UNCHANGED server
    BY <1>1, PageStepKeeps
  <2>2. Elsewhere(t) /\ (UNCHANGED confirmed \/ Confirming(pages'[t]))
    BY <1>1, PageMoves
  <2>3. \/ \E a \in Outcomes \X Places : Log!LogConfirm(t, a)
        \/ \E i \in 0..TaskCount : Log!LogShow(t, i)
    BY <2>1, <2>2, PageLogs
  <2> QED
    BY <2>3, Zenon DEF Log!LogNext
<1>2. ASSUME NEW m \in sent, NEW who \in SUBSET Waiting(m), Deliver(m, who)
      PROVE  Log!LogNext \/ (Pended' = Pended /\ Held' = Held /\ Displayed' = Displayed)
  <2>1. \/ \E a \in Outcomes \X Places : Log!LogStore(a)
        \/ Pended' = Pended /\ Held' = Held /\ Displayed' = Displayed
    BY <1>2, DeliverLogs
  <2> QED
    BY <2>1, Zenon DEF Log!LogNext
<1>3. CASE Tick /\ UNCHANGED client
  <2>1. UNCHANGED <<pages, confirmed, sessions, attempts>>
    BY <1>3 DEF Tick, client
  <2> QED
    BY <2>1 DEF Pended, Held, Displayed, Reveals, Kept, KeptAttempt, AttemptsAt
<1>4. CASE UNCHANGED all
  <2>1. UNCHANGED <<pages, confirmed, sessions, attempts>>
    BY <1>4 DEF all, client, server
  <2> QED
    BY <2>1 DEF Pended, Held, Displayed, Reveals, Kept, KeptAttempt, AttemptsAt
<1> QED
  BY <1>1, <1>2, <1>3, <1>4 DEF ClientNext

\* README.md: "final submissions are retry-safe and advance only after the server
\* saves them".  Pages, network and server together are an answer log: each task is
\* answered once, in order, with an answer confirmed for it, and no tab shows a task
\* before the earlier answers are kept (finish in participant.js and in server.go).
THEOREM AnswersLogged == ClientSpec => AnswersKept
<1>1. ClientInit => Log!LogInit
  <2> SUFFICES ASSUME ClientInit PROVE Log!LogInit
    OBVIOUS
  <2>1. confirmed = {} /\ pages = [t \in Pages |-> NewPage] /\ sessions[Me].index = 0
    BY OneParticipant DEF ClientInit, Init
  <2>2. NewPage.doing = "closed"
    BY DEF NewPage
  <2>3. Pended = {} /\ Held = <<>>
    BY <2>1 DEF Pended, Held
  <2>4. Displayed = [t \in Pages |-> 0]
    BY <2>1, <2>2 DEF Displayed, Reveals
  <2> QED
    BY <2>3, <2>4, LogStarts
<1>2. ClientInv /\ ClientInv' /\ [ClientNext]_all => [Log!LogNext]_<<Pended, Held, Displayed>>
  BY LogStep
<1> QED
  BY <1>1, <1>2, ClientInvariance, PTL
     DEF ClientSpec, AnswersKept, Log!LogSpec, Pended, Held, Displayed

-----------------------------------------------------------------------------
(* More about journals, requests and the tables.                           *)

\* How many events of its attempt a journal holds no longer.
Handed(saved) == saved.next - 1 - Len(saved.events)

\* A submit event is the last one.
SubmitLast(events) == \A i \in DOMAIN events : events[i].type = "submit" => i = Len(events)

HasSubmit(events) == \E i \in DOMAIN events : events[i].type = "submit"

Smaller(x, y) == IF x < y THEN x ELSE y

\* A checkpoint takes what is there up to its limit, and no submit event.
LEMMA BatchLength ==
  ASSUME NEW events \in Seq(PageEvent), SubmitLast(events)
  PROVE  /\ HasSubmit(events) => Len(events) > 0
         /\ Len(Batch(events)) =
              Smaller(IF HasSubmit(events) THEN Len(events) - 1 ELSE Len(events), MaxEventsPerRequest)
<1> DEFINE open == Len(events) - Cardinality(Submits(events))
           k == IF open < MaxEventsPerRequest THEN open ELSE MaxEventsPerRequest
<1>1. Len(events) \in Nat /\ DOMAIN events = 1..Len(events) /\ MaxEventsPerRequest \in Nat \ {0}
  BY LimitAssumption
<1>2. CASE HasSubmit(events)
  <2>1. Submits(events) = {Len(events)} /\ Len(events) > 0
    BY <1>1, <1>2 DEF Submits, HasSubmit, SubmitLast
  <2>2. open = Len(events) - 1
    BY <2>1, FS_Singleton
  <2> HIDE DEF open
  <2>3. k \in 0..Len(events)
    BY <1>1, <2>1, <2>2
  <2>4. Batch(events) = SubSeq(events, 1, k)
    BY DEF Batch, open
  <2>5. Len(Batch(events)) = k
    BY <2>3, <2>4, HeadOf
  <2> QED
    BY <1>2, <2>1, <2>2, <2>5 DEF Smaller
<1>3. CASE ~HasSubmit(events)
  <2>1. Submits(events) = {}
    BY <1>3 DEF Submits, HasSubmit
  <2>2. open = Len(events)
    BY <1>1, <2>1, FS_EmptySet
  <2> HIDE DEF open
  <2>3. k \in 0..Len(events)
    BY <1>1, <2>2
  <2>4. Batch(events) = SubSeq(events, 1, k)
    BY DEF Batch, open
  <2>5. Len(Batch(events)) = k
    BY <2>3, <2>4, HeadOf
  <2> QED
    BY <1>3, <2>2, <2>5 DEF Smaller
<1> QED
  BY <1>2, <1>3

\* It never ends earlier when events are added ...
LEMMA BatchGrows ==
  ASSUME NEW events \in Seq(PageEvent), ~HasSubmit(events), NEW more \in Seq(PageEvent),
         ~HasSubmit(more), NEW new, new = events \o more
  PROVE  ~HasSubmit(new) /\ Len(Batch(events)) <= Len(Batch(new))
<1>1. /\ new \in Seq(PageEvent) /\ Len(new) = Len(events) + Len(more)
      /\ Len(events) \in Nat /\ Len(more) \in Nat /\ MaxEventsPerRequest \in Nat
  BY Joined, LimitAssumption
<1>2. ~HasSubmit(new)
  <2> SUFFICES ASSUME NEW i \in DOMAIN new PROVE new[i].type # "submit"
    BY DEF HasSubmit
  <2>1. /\ i \in 1..(Len(events) + Len(more))
        /\ \A j \in 1..Len(events) : new[j] = events[j]
        /\ \A j \in 1..Len(more) : new[Len(events) + j] = more[j]
        /\ DOMAIN events = 1..Len(events) /\ DOMAIN more = 1..Len(more)
    BY Joined, EventFields
  <2>2. CASE i <= Len(events)
    BY <2>1, <2>2 DEF HasSubmit
  <2>3. CASE i > Len(events)
    <3>1. i - Len(events) \in 1..Len(more) /\ i = Len(events) + (i - Len(events))
      BY <1>1, <2>1, <2>3
    <3> QED
      BY <2>1, <3>1 DEF HasSubmit
  <2> QED
    BY <1>1, <2>1, <2>2, <2>3
<1>3. SubmitLast(events) /\ SubmitLast(new)
  BY <1>2 DEF SubmitLast, HasSubmit
<1>4. /\ Len(Batch(events)) = Smaller(Len(events), MaxEventsPerRequest)
      /\ Len(Batch(new)) = Smaller(Len(new), MaxEventsPerRequest)
  BY <1>1, <1>2, <1>3, BatchLength
<1> QED
  BY <1>1, <1>2, <1>4 DEF Smaller

\* ... is the same when the submit event is added ...
LEMMA BatchFrozen ==
  ASSUME NEW events \in Seq(PageEvent), ~HasSubmit(events), NEW submit \in PageEvent,
         submit.type = "submit", NEW new, new = Append(events, submit)
  PROVE  SubmitLast(new) /\ Len(Batch(events)) = Len(Batch(new))
<1>1. /\ new \in Seq(PageEvent) /\ Len(new) = Len(events) + 1 /\ Len(events) \in Nat
      /\ DOMAIN events = 1..Len(events) /\ DOMAIN new = 1..(Len(events) + 1)
      /\ MaxEventsPerRequest \in Nat
      /\ \A i \in 1..Len(events) : new[i] = events[i]
      /\ new[Len(events) + 1] = submit
  BY LimitAssumption
<1>2. SubmitLast(new) /\ HasSubmit(new) /\ SubmitLast(events)
  <2>1. HasSubmit(new)
    <3>1. Len(events) + 1 \in DOMAIN new /\ new[Len(events) + 1].type = "submit"
      BY <1>1
    <3> QED
      BY <3>1 DEF HasSubmit
  <2>2. \A i \in DOMAIN new : i = Len(new) \/ i \in 1..Len(events)
    BY <1>1
  <2>3. \A i \in 1..Len(events) : new[i].type # "submit"
    BY <1>1 DEF HasSubmit
  <2> QED
    BY <2>1, <2>2, <2>3 DEF SubmitLast, HasSubmit
<1>3. /\ Len(Batch(events)) = Smaller(Len(events), MaxEventsPerRequest)
      /\ Len(Batch(new)) = Smaller(Len(new) - 1, MaxEventsPerRequest)
  BY <1>1, <1>2, BatchLength
<1> QED
  BY <1>1, <1>2, <1>3

\* ... and ends no earlier when the head of the outbox is dropped.
LEMMA BatchPruned ==
  ASSUME NEW events \in Seq(PageEvent), SubmitLast(events), NEW rest, NEW k,
         Left(rest, events, k)
  PROVE  SubmitLast(rest) /\ Len(Batch(events)) <= k + Len(Batch(rest))
<1>1. /\ Len(events) \in Nat /\ DOMAIN events = 1..Len(events)
      /\ rest \in Seq(PageEvent) /\ Len(rest) \in Nat /\ DOMAIN rest = 1..Len(rest)
      /\ MaxEventsPerRequest \in Nat
      /\ k \in 0..Len(events) /\ Len(rest) = Len(events) - k
      /\ \A i \in DOMAIN rest : rest[i] = events[k + i] /\ k + i \in DOMAIN events
  BY LimitAssumption DEF Left
<1>a. PICK n, l, max : n = Len(events) /\ l = Len(rest) /\ max = MaxEventsPerRequest
  OBVIOUS
<1>b. n \in Nat /\ l \in Nat /\ max \in Nat /\ k \in Nat /\ l + k = n
  BY <1>1, <1>a
<1>2. SubmitLast(rest)
  BY <1>1 DEF SubmitLast
<1>3. HasSubmit(rest) => HasSubmit(events)
  BY <1>1, SMTT(30) DEF HasSubmit
<1>4. HasSubmit(events) => HasSubmit(rest) \/ Len(rest) = 0
  <2> SUFFICES ASSUME HasSubmit(events), Len(rest) # 0 PROVE HasSubmit(rest)
    OBVIOUS
  <2>1. PICK i \in DOMAIN events : events[i].type = "submit"
    BY DEF HasSubmit
  <2>2. i = Len(events)
    BY <2>1, SMTT(30) DEF SubmitLast
  <2>3. Len(rest) \in DOMAIN rest /\ k + Len(rest) = Len(events)
    <3>1. l \in 1..l /\ k + l = n
      BY <1>a, <1>b
    <3> QED
      BY <1>1, <1>a, <3>1
  <2> QED
    BY <1>1, <2>1, <2>2, <2>3 DEF HasSubmit
<1>5. /\ Len(Batch(events)) = Smaller(IF HasSubmit(events) THEN n - 1 ELSE n, max)
      /\ Len(Batch(rest)) = Smaller(IF HasSubmit(rest) THEN l - 1 ELSE l, max)
      /\ HasSubmit(events) => n > 0
      /\ HasSubmit(rest) => l > 0
  BY <1>1, <1>2, <1>a, BatchLength
<1>6. HasSubmit(events) => HasSubmit(rest) \/ l = 0
  BY <1>4, <1>a
<1>7. CASE HasSubmit(events) /\ HasSubmit(rest)
  <2>1. Smaller(n - 1, max) <= k + Smaller(l - 1, max)
    BY <1>b DEF Smaller
  <2> QED
    BY <1>2, <1>5, <1>7, <2>1
<1>8. CASE HasSubmit(events) /\ ~HasSubmit(rest)
  <2>1. Smaller(n - 1, max) <= k + Smaller(l, max)
    BY <1>b, <1>6, <1>8 DEF Smaller
  <2> QED
    BY <1>2, <1>5, <1>8, <2>1
<1>9. CASE ~HasSubmit(events)
  <2>1. Smaller(n, max) <= k + Smaller(l, max)
    BY <1>b DEF Smaller
  <2> QED
    BY <1>2, <1>3, <1>5, <1>9, <2>1
<1> QED
  BY <1>7, <1>8, <1>9

\* The fields of a journal that is good.
LEMMA JournalForm ==
  ASSUME NEW saved, GoodJournal(saved)
  PROVE  /\ saved \in Journal
         /\ saved.events \in Seq(PageEvent) /\ Len(saved.events) \in Nat
         /\ DOMAIN saved.events = 1..Len(saved.events)
         /\ saved.next \in Nat
         /\ SubmitLast(saved.events)
         /\ saved.finish = None => ~HasSubmit(saved.events)
         /\ Handed(saved) = saved.next - 1 - Len(saved.events)
         /\ \A i \in DOMAIN saved.events : saved.events[i] \in PageEvent
<1>1. saved \in Journal /\ saved.events \in Seq(PageEvent) /\ saved.next \in Nat
  BY JournalFields DEF GoodJournal
<1> QED
  BY <1>1, EventFields DEF GoodJournal, SubmitLast, HasSubmit, Handed

\* A stored stream is a sequence of events.
LEMMA LogForm ==
  ASSUME S!TypeOK, NEW a \in DOMAIN attempts
  PROVE  /\ attempts[a].log \in Seq(Event) /\ Len(attempts[a].log) \in Nat
         /\ DOMAIN attempts[a].log = 1..Len(attempts[a].log)
         /\ a \in AttemptIds /\ a # NoAttempt
<1>1. attempts[a].log \in Seq(Event) /\ a \in AttemptIds
  BY ServerTyped
<1> QED
  BY <1>1, SessionAssumption

\* The attempts of the tasks in order: one per task, open when it is the current one.
LEMMA Ordering ==
  ASSUME S!IInv
  PROVE  /\ S!TypeOK /\ sessions[Me].index \in Nat /\ sessions[Me].index <= TaskCount
         /\ TaskCount \in Nat
         /\ \A a \in DOMAIN attempts :
              /\ Owns(Me, a)
              /\ attempts[a].index \in Nat /\ attempts[a].index < TaskCount
              /\ attempts[a].index <= sessions[Me].index
              /\ attempts[a].finish = Unfinished <=> attempts[a].index = sessions[Me].index
         /\ \A a, b \in DOMAIN attempts : attempts[a].index = attempts[b].index => a = b
<1>1. S!TypeOK /\ S!TasksInOrder
  BY DEF S!IInv
<1>2. /\ sessions[Me].index \in 0..TaskCount /\ TaskCount \in Nat
      /\ \A a \in DOMAIN attempts : attempts[a].session = Me /\ attempts[a].index \in 0..(TaskCount - 1)
  BY <1>1, ServerTyped, SessionAssumption
<1>3. \A a \in DOMAIN attempts :
        /\ attempts[a].index <= sessions[Me].index
        /\ attempts[a].finish # Unfinished <=> attempts[a].index < sessions[Me].index
  BY <1>1, <1>2 DEF S!TasksInOrder
<1>4. \A a, b \in DOMAIN attempts : attempts[a].index = attempts[b].index => a = b
  BY <1>1, <1>2 DEF S!TasksInOrder
<1>5. sessions[Me].index \in Nat /\ sessions[Me].index <= TaskCount
  BY <1>2
<1>6. ASSUME NEW a \in DOMAIN attempts
      PROVE  /\ attempts[a].index \in Nat /\ attempts[a].index < TaskCount
             /\ attempts[a].finish = Unfinished <=> attempts[a].index = sessions[Me].index
  <2>1. PICK i, j : i = attempts[a].index /\ j = sessions[Me].index
    OBVIOUS
  <2>2. i \in 0..(TaskCount - 1) /\ j \in Nat /\ i <= j /\ (attempts[a].finish # Unfinished <=> i < j)
    BY <1>2, <1>3, <1>5, <2>1
  <2>3. i \in Nat /\ i < TaskCount /\ (i < j <=> i # j)
    BY <1>2, <2>2
  <2> QED
    BY <2>1, <2>2, <2>3
<1> QED
  BY <1>1, <1>2, <1>3, <1>4, <1>5, <1>6 DEF Owns

\* A stored stream is numbered, and its submit event ends it.
LEMMA StreamForm ==
  ASSUME S!IInv, NEW a \in DOMAIN attempts, NEW i \in DOMAIN attempts[a].log
  PROVE  /\ attempts[a].log[i].seq = i
         /\ attempts[a].log[i].type = "submit" =>
              i = Len(attempts[a].log) /\ attempts[a].finish # Unfinished
<1>1. i \in 1..Len(attempts[a].log)
  BY LogForm DEF S!IInv
<1>2. S!EndsRight(attempts[a])
  BY DEF S!IInv, S!FinishedStreams
<1> QED
  BY <1>1, <1>2 DEF S!EndsRight

\* acceptSession, in the journal: what is left of the outbox, and what comes next.
Reopened(saved, v, rest) ==
  [attempt |-> v.attempt, next |-> v.next_seq + Len(rest), events |-> rest,
   start |-> None, finish |-> None]

\* Nothing to acknowledge in an empty outbox.
LEMMA NothingLeft == \A next \in Nat : AckEvents(<<>>, next) = <<>> /\ Len(AckEvents(<<>>, next)) = 0
<1> SUFFICES ASSUME NEW next \in Nat
             PROVE  AckEvents(<<>>, next) = <<>> /\ Len(AckEvents(<<>>, next)) = 0
  OBVIOUS
<1>1. <<>> \in Seq(PageEvent) /\ Len(<<>>) = 0 /\ Chain(<<>>)
  BY DEF Chain
<1>2. PICK k \in 0..0 : /\ AckEvents(<<>>, next) \in Seq(PageEvent)
                        /\ Len(AckEvents(<<>>, next)) = 0 - k
  BY <1>1, Acknowledged
<1>3. Len(AckEvents(<<>>, next)) = 0
  BY <1>2
<1> QED
  BY <1>2, <1>3, NoneLeft

\* The requests of a journal have their shape.
LEMMA RequestsMade ==
  ASSUME NEW saved \in Journal
  PROVE  /\ saved.start # None => StartRequest(saved.start) \in Request
         /\ saved.finish # None => FinishRequest(saved.finish) \in Request
<1>1. ASSUME saved.start # None PROVE StartRequest(saved.start) \in Request
  <2>1. PICK c : c = saved.start
    OBVIOUS
  <2>2. c \in StartCommand
    BY <1>1, <2>1, JournalFields
  <2>3. c.command \in CommandId /\ c.task \in Nat
    BY <2>2 DEF StartCommand
  <2> QED
    BY <2>1, <2>3 DEF StartRequest, Request
<1>2. ASSUME saved.finish # None PROVE FinishRequest(saved.finish) \in Request
  <2>1. PICK c : c = saved.finish
    OBVIOUS
  <2>2. c \in FinishCommand
    BY <1>2, <2>1, JournalFields
  <2>3. /\ c.command \in CommandId /\ c.attempt \in AttemptIds /\ c.outcome \in Outcomes
        /\ c.node \in Places /\ c.events \in Seq(PageEvent)
    BY <2>2 DEF FinishCommand
  <2>4. [outcome |-> c.outcome, node |-> c.node, events |-> c.events]
          \in FinishBody(Places, PageEvent)
    BY <2>3 DEF FinishBody
  <2> QED
    BY <2>1, <2>3, <2>4 DEF FinishRequest, Request
<1> QED
  BY <1>1, <1>2

\* So does a checkpoint.
LEMMA CheckpointTyped ==
  ASSUME NEW saved, GoodJournal(saved), saved.attempt # NoAttempt
  PROVE  EventsRequest(saved.attempt, Batch(saved.events)) \in Request
<1>1. saved.attempt \in AttemptIds /\ saved.events \in Seq(PageEvent) /\ SubmitLast(saved.events)
  BY JournalForm, JournalFields
<1>2. Batch(saved.events) \in Seq(PageEvent)
  BY <1>1, BatchHead DEF SubmitLast
<1> QED
  BY <1>1, <1>2 DEF EventsRequest, Request

SubmitOf(page, outcome, node, stamp) ==
  MakeEvent(stamp, page.saved.next, "submit", node, outcome)

CommandOf(page, outcome, node, submit) ==
  [attempt |-> page.attempt, outcome |-> outcome, node |-> node,
   events |-> TailEvents(Append(page.saved.events, submit)),
   command |-> <<"finish", page.epoch, page.index>>]

FrozenWith(saved, submit, c) ==
  [attempt |-> saved.attempt, events |-> Append(saved.events, submit), start |-> None,
   next |-> IF saved.next = NoSeq THEN NoSeq ELSE saved.next + 1, finish |-> c]

\* Freeze, in its parts.
LEMMA FreezeForm ==
  ASSUME NEW page \in Page, page.attempt # NoAttempt, NEW outcome \in Outcomes, NEW node \in Places,
         NEW stamp \in [id: Nat \X Nat, epoch: Nat], NEW q, q = Freeze(page, outcome, node, stamp),
         NEW submit, submit = SubmitOf(page, outcome, node, stamp),
         NEW c, c = CommandOf(page, outcome, node, submit)
  PROVE  /\ submit \in PageEvent /\ submit.seq = page.saved.next /\ submit.type = "submit"
         /\ submit.id = stamp.id
         /\ c \in FinishCommand /\ c # None /\ c.attempt = page.attempt
         /\ c.events = TailEvents(Append(page.saved.events, submit))
         /\ c.command[1] = "finish" /\ c.command[3] = page.index
         /\ q.saved = FrozenWith(page.saved, submit, c)
         /\ q.doing = page.doing /\ q.call = page.call /\ q.reply = page.reply
         /\ q.blocked = page.blocked /\ q.news = page.news /\ q.index = page.index
         /\ q.completed = page.completed /\ q.attempt = page.attempt
<1>a. PICK old, events : old = page.saved /\ events = Append(page.saved.events, submit)
  OBVIOUS
<1>1. /\ old \in Journal /\ old.next \in Nat /\ old.events \in Seq(PageEvent)
      /\ page.epoch \in Nat /\ page.index \in Nat /\ page.attempt \in AttemptIds
  BY <1>a, JournalFields DEF Page
<1>2. submit \in PageEvent /\ submit.seq = old.next /\ submit.type = "submit"
  <2>1. "submit" \in EventTypes
    BY DEF EventTypes
  <2>2. submit = MakeEvent(stamp, old.next, "submit", node, outcome)
    BY <1>a DEF SubmitOf
  <2> QED
    BY <1>1, <2>1, <2>2, EventMade
<1>3. submit.id = stamp.id
  BY DEF SubmitOf, MakeEvent
<1>4. events \in Seq(PageEvent) /\ events # <<>>
  <2>1. PICK outbox : outbox = old.events
    OBVIOUS
  <2>2. events = Append(outbox, submit) /\ outbox \in Seq(PageEvent)
    BY <1>1, <1>a, <2>1
  <2> QED
    BY <1>2, <2>2
<1>5. TailEvents(events) \in Seq(PageEvent)
  BY <1>4, FrozenTail
<1>6. c = [attempt |-> page.attempt, outcome |-> outcome, node |-> node, events |-> TailEvents(events),
           command |-> <<"finish", page.epoch, page.index>>]
  BY <1>a DEF CommandOf
<1>7. c \in FinishCommand
  <2>1. <<"finish", page.epoch, page.index>> \in CommandId
    BY <1>1 DEF CommandId
  <2> QED
    BY <1>1, <1>5, <1>6, <2>1 DEF FinishCommand
<1>8. c # None
  BY <1>7, NoneAssumption
<1>9. PICK saved, stream :
        /\ saved = [attempt |-> old.attempt, events |-> events, start |-> None,
                    next |-> IF old.next = NoSeq THEN NoSeq ELSE old.next + 1, finish |-> c]
        /\ stream = Append(page.stream, submit)
  OBVIOUS
<1>10. q = [page EXCEPT !.saved = saved, !.stream = stream, !.active = FALSE]
  BY <1>1, <1>6, <1>9, <1>a DEF Freeze, TailEvents, SubmitOf, Page
<1>11. /\ q.saved = saved /\ q.doing = page.doing /\ q.call = page.call /\ q.reply = page.reply
       /\ q.blocked = page.blocked /\ q.news = page.news /\ q.index = page.index
       /\ q.completed = page.completed /\ q.attempt = page.attempt
  BY <1>10 DEF Page
<1>12. c.attempt = page.attempt /\ c.events = TailEvents(events) /\ c.command[1] = "finish"
       /\ c.command[3] = page.index
  BY <1>6
<1>13. saved = FrozenWith(old, submit, c)
  BY <1>9, <1>a DEF FrozenWith
<1> QED
  BY <1>2, <1>3, <1>7, <1>8, <1>11, <1>12, <1>13, <1>a

Resumed(page, v) == Restored(page, v, FALSE)
Skipping(page, v) == Restored(page, v, TRUE)

\* acceptSession, in its parts.
LEMMA RestoredForm ==
  ASSUME NEW page \in Page, NEW v, NEW q, q = Resumed(page, v) \/ q = Skipping(page, v),
         NEW rest, rest = Reconciled(Pending(page, v), v.next_seq)
  PROVE  /\ q.news = page.news /\ q.blocked = page.blocked /\ q.index = v.index
         /\ q.completed = v.completed /\ q.attempt = v.attempt
         /\ v.attempt = NoAttempt => q.saved = EmptyJournal
         /\ v.attempt # NoAttempt /\ q = Resumed(page, v) =>
              q.saved = Reopened(page.saved, v, rest)
         /\ v.attempt # NoAttempt =>
              /\ q.saved.attempt = Reopened(page.saved, v, rest).attempt
              /\ q.saved.next = Reopened(page.saved, v, rest).next
              /\ q.saved.events = Reopened(page.saved, v, rest).events
<1>1. PICK shown : shown = Shown(page, v)
  OBVIOUS
<1>2. /\ shown = [page EXCEPT !.index = v.index, !.completed = v.completed, !.attempt = v.attempt,
                    !.stream = <<>>, !.here = Root, !.selected = None, !.active = FALSE]
      /\ page = [doing |-> page.doing, epoch |-> page.epoch, saved |-> page.saved,
                 index |-> page.index, completed |-> page.completed, attempt |-> page.attempt,
                 stream |-> page.stream, here |-> page.here, selected |-> page.selected,
                 active |-> page.active, blocked |-> page.blocked, call |-> page.call,
                 reply |-> page.reply, news |-> page.news]
  BY <1>1 DEF Shown, Page
<1>3. shown = [doing |-> page.doing, epoch |-> page.epoch, saved |-> page.saved,
               index |-> v.index, completed |-> v.completed, attempt |-> v.attempt,
               stream |-> <<>>, here |-> Root, selected |-> None,
               active |-> FALSE, blocked |-> page.blocked, call |-> page.call,
               reply |-> page.reply, news |-> page.news]
  BY <1>2
<1>4. CASE v.attempt = NoAttempt
  <2>1. q = [shown EXCEPT !.saved = EmptyJournal]
    BY <1>1, <1>4 DEF Restored, Resumed, Skipping
  <2> QED
    BY <1>3, <1>4, <2>1
<1>5. CASE v.attempt # NoAttempt
  <2>1. PICK log : log = v.events \o rest
    OBVIOUS
  <2>2. CASE q = Resumed(page, v)
    <3>1. PICK saved :
            saved = [attempt |-> v.attempt, next |-> v.next_seq + Len(rest), events |-> rest,
                     finish |-> None, start |-> None]
      OBVIOUS
    <3>2. q = [shown EXCEPT !.saved = saved, !.stream = log, !.here = Here(log),
                            !.selected = Selection(log), !.active = TRUE]
      BY <1>1, <1>5, <2>1, <2>2, <3>1 DEF Restored, Resumed
    <3>3. /\ q.news = page.news /\ q.blocked = page.blocked /\ q.index = v.index
          /\ q.completed = v.completed /\ q.attempt = v.attempt /\ q.saved = saved
      BY <1>3, <3>2
    <3>4. saved = Reopened(page.saved, v, rest)
      BY <3>1 DEF Reopened
    <3> QED
      BY <1>5, <3>3, <3>4
  <2>3. CASE q = Skipping(page, v) /\ q # Resumed(page, v)
    <3>1. PICK saved :
            saved = [attempt |-> v.attempt, next |-> v.next_seq + Len(rest), events |-> rest,
                     finish |-> None, start |-> page.saved.start]
      OBVIOUS
    <3>2. q = [shown EXCEPT !.saved = saved, !.stream = log, !.here = Here(log),
                            !.selected = Selection(log), !.active = FALSE]
      BY <1>1, <1>5, <2>1, <2>3, <3>1 DEF Restored, Skipping
    <3>3. /\ q.news = page.news /\ q.blocked = page.blocked /\ q.index = v.index
          /\ q.completed = v.completed /\ q.attempt = v.attempt /\ q.saved = saved
      BY <1>3, <3>2
    <3>4. /\ saved.attempt = Reopened(page.saved, v, rest).attempt
          /\ saved.next = Reopened(page.saved, v, rest).next
          /\ saved.events = Reopened(page.saved, v, rest).events
      BY <3>1 DEF Reopened
    <3> QED
      BY <1>5, <2>3, <3>3, <3>4
  <2> QED
    BY <2>2, <2>3
<1> QED
  BY <1>4, <1>5

LoadingWith(q, saved) ==
  /\ q.doing = "loading" /\ q.call = SessionRequest /\ q.reply = None /\ q.news = {}
  /\ ~q.blocked /\ q.saved = saved

LEMMA LoadingForm ==
  ASSUME NEW n, NEW saved,
         NEW q, q = [Loading(n) EXCEPT !.saved = saved] \/ (q = Loading(n) /\ saved = EmptyJournal)
  PROVE  LoadingWith(q, saved)
<1>a. PICK empty, request, closed : empty = EmptyJournal /\ request = SessionRequest /\ closed = NewPage
  OBVIOUS
<1>1. closed = [doing |-> "closed", epoch |-> 0, saved |-> empty, index |-> 0,
         completed |-> FALSE, attempt |-> NoAttempt, stream |-> <<>>, here |-> Root,
         selected |-> None, active |-> FALSE, blocked |-> FALSE,
         call |-> None, reply |-> None, news |-> {}]
  BY <1>a DEF NewPage
<1>2. PICK l : l = Loading(n)
  OBVIOUS
<1>3. l = [closed EXCEPT !.doing = "loading", !.epoch = n, !.call = request]
  BY <1>2, <1>a DEF Loading
<1>4. l = [doing |-> "loading", epoch |-> n, saved |-> empty, index |-> 0,
         completed |-> FALSE, attempt |-> NoAttempt, stream |-> <<>>, here |-> Root,
         selected |-> None, active |-> FALSE, blocked |-> FALSE,
         call |-> request, reply |-> None, news |-> {}]
  BY <1>1, <1>3
<1>5. /\ q.doing = "loading" /\ q.call = request /\ q.reply = None /\ q.news = {}
      /\ ~q.blocked /\ q.saved = saved
  <2>1. CASE q = [l EXCEPT !.saved = saved]
    BY <1>4, <2>1
  <2>2. CASE q = l /\ saved = empty
    BY <1>4, <2>2
  <2> QED
    BY <1>2, <1>a, <2>1, <2>2
<1> QED
  BY <1>5, <1>a DEF LoadingWith

\* appendEvents in a checkpoint: what Events does to the tables.
LEMMA EventsDone ==
  ASSUME S!IInv, NEW x \in AttemptIds, NEW batch \in Seq(PageEvent), Events(Me, x, batch)
  PROVE  /\ x \in DOMAIN attempts /\ Owns(Me, x)
         /\ \E frozen : /\ Appendable(attempts[x].log, batch, frozen)
                        /\ attempts[x].finish # Unfinished => frozen
         /\ DOMAIN attempts' = DOMAIN attempts
         /\ \A y \in DOMAIN attempts : y # x => attempts'[y] = attempts[y]
         /\ attempts'[x].log = Merged(attempts[x].log, batch)
         /\ attempts'[x].finish = attempts[x].finish
         /\ \A y \in DOMAIN attempts : S!SameStart(y)
         /\ sessions'[Me].index = sessions[Me].index
         /\ now' = now
<1>1. S!TypeOK
  BY DEF S!IInv
<1>b. PICK frozen : frozen = Frozen(Me, x)
  OBVIOUS
<1>2. Owns(Me, x) /\ Appendable(attempts[x].log, batch, frozen)
  BY <1>b DEF Events, AcceptsCheckpoint
<1>3. attempts[x].finish # Unfinished => frozen
  BY <1>b DEF Frozen
<1>4. batch \in Seq(Event)
  BY <1>1, <1>2, Accepted
<1>5. S!Events(Me, x, batch)
  BY SameEvents
<1>6. /\ DOMAIN attempts' = DOMAIN attempts
      /\ \A y \in DOMAIN attempts : y # x => attempts'[y] = attempts[y]
      /\ attempts'[x].finish = attempts[x].finish
  BY <1>1, <1>4, <1>5, ServerAssumptions, OneParticipant, S!EventsEffect
<1>9. attempts'[x].log = S!Merged(attempts[x].log, batch)
  BY <1>1, <1>4, <1>5, ServerAssumptions, OneParticipant, S!EventsEffect
<1>10. \A y \in DOMAIN attempts : S!SameStart(y)
  BY <1>1, <1>4, <1>5, ServerAssumptions, OneParticipant, S!EventsEffect
<1>7. sessions'[Me].index = sessions[Me].index
  BY <1>1, <1>4, <1>5, ServerAssumptions, OneParticipant, S!EventsEffect
<1>8. now' = now
  BY DEF Events
<1> QED
  BY <1>1, <1>2, <1>3, <1>6, <1>7, <1>8, <1>9, <1>10, SameMerged DEF Owns

\* A step that opens the task a start command asks for.
Opened(s, a) ==
  /\ a \notin DOMAIN attempts
  /\ DOMAIN attempts' = DOMAIN attempts \cup {a}
  /\ \A x \in DOMAIN attempts : attempts'[x] = attempts[x]
  /\ attempts'[a].session = Me /\ attempts'[a].index = s.task
  /\ attempts'[a].command = s.command /\ attempts'[a].log = <<>>
  /\ attempts'[a].finish = Unfinished
  /\ s.task = sessions[Me].index
  /\ NotStarted(Me)
  /\ UNCHANGED <<now, sessions>>

LEMMA StartDone ==
  ASSUME S!IInv, NEW command \in CommandId, NEW i \in Nat, Start(Me, command, i),
         NEW s, s.command = command, s.task = i
  PROVE  \E a : Opened(s, a)
<1>1. S!TypeOK /\ S!Start(Me, command, i) /\ NotStarted(Me)
  BY SameStart DEF S!IInv, Start
<1>2. i \in 0..(TaskCount - 1)
  BY Ordering DEF Start, IsCurrent
<1>3. PICK a \in AttemptIds \ DOMAIN attempts :
        /\ DOMAIN attempts' = DOMAIN attempts \cup {a}
        /\ \A x \in DOMAIN attempts : attempts'[x] = attempts[x]
        /\ attempts'[a] = [session |-> Me, index |-> i, command |-> command,
                           started_at |-> now, log |-> <<>>, finish |-> Unfinished]
        /\ i = sessions[Me].index
        /\ S!AttemptsAt(Me, i) = {}
        /\ UNCHANGED sessions
  BY <1>1, <1>2, ServerAssumptions, OneParticipant, S!StartEffect
<1>4. now' = now
  BY DEF Start
<1>5. Opened(s, a)
  BY <1>1, <1>3, <1>4 DEF Opened
<1> QED
  BY <1>5

\* A step that takes a finish command with its events.
Ended(a, command, body, log) ==
  /\ a \in DOMAIN attempts /\ Owns(Me, a)
  /\ attempts[a].finish = Unfinished
  /\ attempts[a].index = sessions[Me].index
  /\ Appendable(attempts[a].log, body.events, FALSE)
  /\ log = Merged(attempts[a].log, body.events)
  /\ DOMAIN attempts' = DOMAIN attempts
  /\ \A x \in DOMAIN attempts : x # a => attempts'[x] = attempts[x]
  /\ attempts'[a].session = attempts[a].session
  /\ attempts'[a].index = attempts[a].index
  /\ attempts'[a].command = attempts[a].command
  /\ attempts'[a].log = log
  /\ attempts'[a].finish = [at |-> now, command |-> command, request |-> body]
  /\ sessions'[Me].index = sessions[Me].index + 1
  /\ now' = now

LEMMA FinishDone ==
  ASSUME S!IInv, NEW command \in CommandId, NEW a \in AttemptIds,
         NEW body \in FinishBody(Nodes \cup {Root}, Event), S!Finish(Me, command, a, body),
         NEW log, log = Merged(attempts[a].log, body.events)
  PROVE  Ended(a, command, body, log) /\ body.events # <<>>
<1>1. S!TypeOK
  BY DEF S!IInv
<1>2. /\ a \in DOMAIN attempts
      /\ attempts[a].session = Me
      /\ attempts[a].finish = Unfinished
      /\ attempts[a].index = sessions[Me].index
  BY <1>1, ServerAssumptions, OneParticipant, S!FinishGuards
<1>3. S!AcceptsTerminal(attempts[a].log, body.events, body.outcome, body.node)
  BY <1>1, ServerAssumptions, OneParticipant, S!FinishGuards
<1>4. Appendable(attempts[a].log, body.events, FALSE) /\ body.events # <<>>
  <2>1. AcceptsTerminal(attempts[a].log, body.events, body.outcome, body.node)
    BY <1>3, SameTerminal
  <2> QED
    BY <2>1 DEF AcceptsTerminal
<1>5. /\ DOMAIN attempts' = DOMAIN attempts
      /\ \A y \in DOMAIN attempts : y # a => attempts'[y] = attempts[y]
      /\ attempts'[a].log = S!Merged(attempts[a].log, body.events)
      /\ attempts'[a].finish = [at |-> now, command |-> command, request |-> body]
      /\ \A y \in DOMAIN attempts : S!SameStart(y)
  BY <1>1, ServerAssumptions, OneParticipant, S!FinishAttempts
<1>6. sessions'[Me].index = sessions[Me].index + 1
  BY <1>1, ServerAssumptions, OneParticipant, S!FinishSessions
<1>7. now' = now
  BY DEF S!Finish
<1>8. attempts'[a].log = log
  BY <1>5, SameMerged
<1>9. S!SameStart(a)
  BY <1>2, <1>5
<1>10. Owns(Me, a)
  BY <1>2 DEF Owns
<1> QED
  BY <1>2, <1>4, <1>5, <1>6, <1>7, <1>8, <1>9, <1>10 DEF Ended, S!SameStart

LEMMA EndedNotStarted ==
  ASSUME S!IInv, NEW a, NEW command, NEW body, NEW log, Ended(a, command, body, log)
  PROVE  NotStarted(Me)'
<1>1. \A x \in DOMAIN attempts : attempts[x].index \in Nat /\ attempts[x].index <= sessions[Me].index
  BY Ordering
<1>2. /\ DOMAIN attempts' = DOMAIN attempts
      /\ \A x \in DOMAIN attempts : attempts'[x].index = attempts[x].index
      /\ sessions'[Me].index = sessions[Me].index + 1
  BY DEF Ended
<1>3. sessions[Me].index \in Nat
  BY Ordering
<1>4. \A x \in DOMAIN attempts' : attempts'[x].index # sessions'[Me].index
  BY <1>1, <1>2, <1>3
<1> QED
  BY <1>4 DEF NotStarted, AttemptsAt

\* makeSession: the position and the open attempt of the participant.
LEMMA ViewForm ==
  ASSUME S!IInv, NEW v, v = View(Me)
  PROVE  /\ GoodView(v) /\ v.index = sessions[Me].index
         /\ v.completed <=> v.index >= TaskCount
         /\ v.attempt = NoAttempt <=> NotStarted(Me)
         /\ v.attempt # NoAttempt =>
              /\ AttemptAt(v.attempt, sessions[Me].index)
              /\ v.events = attempts[v.attempt].log
<1>a. PICK i : i = sessions[Me].index
  OBVIOUS
<1>b. PICK open : open = IF i >= TaskCount THEN {} ELSE AttemptsAt(Me, i)
  OBVIOUS
<1>1. GoodView(v) /\ v.index = i
  BY <1>a, ViewGood
<1>2. /\ i \in Nat /\ TaskCount \in Nat
      /\ \A a \in DOMAIN attempts : attempts[a].index \in Nat /\ attempts[a].index < TaskCount
  BY <1>a, Ordering
<1>3. open = AttemptsAt(Me, i)
  <2>1. CASE i >= TaskCount
    <3>1. AttemptsAt(Me, i) = {}
      BY <1>2, <2>1 DEF AttemptsAt
    <3> QED
      BY <1>b, <2>1, <3>1
  <2>2. CASE ~(i >= TaskCount)
    BY <1>b, <2>2
  <2> QED
    BY <2>1, <2>2
<1>4. NotStarted(Me) <=> open = {}
  BY <1>3, <1>a DEF NotStarted
<1>5. v.completed = (i >= TaskCount)
  BY <1>a DEF View
<1>6. CASE open = {}
  <2>1. v.attempt = NoAttempt
    BY <1>6, <1>a, <1>b DEF View
  <2> QED
    BY <1>1, <1>4, <1>5, <1>6, <1>a, <2>1
<1>7. CASE open # {}
  <2>1. PICK a : a = CHOOSE x \in open : TRUE
    OBVIOUS
  <2>2. v.attempt = a /\ v.events = attempts[a].log
    BY <1>7, <1>a, <1>b, <2>1 DEF View
  <2>3. a \in AttemptsAt(Me, i)
    BY <1>3, <1>7, <2>1
  <2>4. AttemptAt(a, i) /\ a \in DOMAIN attempts
    BY <2>3 DEF AttemptAt, AttemptsAt, Owns
  <2>5. a # NoAttempt
    BY <2>4, Ordering, LogForm
  <2> QED
    BY <1>1, <1>4, <1>5, <1>7, <1>a, <2>2, <2>4, <2>5
<1> QED
  BY <1>6, <1>7

\* A row of events, numbered from f on, that goes on with a stream or repeats it.
InRow(batch, f) ==
  /\ Len(batch) \in Nat \ {0} /\ DOMAIN batch = 1..Len(batch)
  /\ \A i \in DOMAIN batch : batch[i].seq = f + i - 1

RowJoins(log, batch, f, m) ==
  /\ Len(m) \in Nat /\ Len(m) >= Len(log) /\ Len(m) >= f + Len(batch) - 1
  /\ \A s \in 1..Len(log) : m[s] = log[s]
  /\ \A s \in 1..Len(m) : s > Len(log) => s - f + 1 \in DOMAIN batch /\ m[s] = batch[s - f + 1]

LEMMA RowMerged ==
  ASSUME NEW log, Len(log) \in Nat, NEW f \in Nat, f >= 1, f <= Len(log) + 1,
         NEW batch, InRow(batch, f), NEW m, m = Merged(log, batch)
  PROVE  InSequence(log, batch) /\ RowJoins(log, batch, f, m)
<1>a. PICK n, l, last : n = Len(log) /\ l = Len(batch) /\ last = f + l - 1
  OBVIOUS
<1>1. /\ n \in Nat /\ l \in Nat /\ l >= 1 /\ last \in Nat /\ DOMAIN batch = 1..l /\ last >= f
      /\ \A i \in 1..l : batch[i].seq = f + i - 1
      /\ f <= n + 1
  BY <1>a DEF InRow
<1>2. InSequence(log, batch)
  <2> SUFFICES ASSUME NEW i \in 1..l
               PROVE  /\ batch[i].seq \in Nat \ {0}
                      /\ \A s \in (n + 1)..(batch[i].seq - 1) : \E j \in 1..(i - 1) : batch[j].seq = s
    BY <1>1, <1>a DEF InSequence
  <2>1. batch[i].seq = f + i - 1
    BY <1>1
  <2>2. ASSUME NEW s \in (n + 1)..(f + i - 2) PROVE \E j \in 1..(i - 1) : batch[j].seq = s
    <3>1. PICK j : j = s - f + 1
      OBVIOUS
    <3>2. j \in 1..(i - 1) /\ j \in 1..l /\ f + j - 1 = s
      BY <1>1, <2>2, <3>1
    <3> QED
      BY <1>1, <3>2
  <2>3. (f + i - 1) - 1 = f + i - 2 /\ f + i - 1 \in Nat \ {0}
    BY <1>1
  <2> QED
    BY <2>1, <2>2, <2>3
<1>b. PICK new : new = NewSeqs(log, batch)
  OBVIOUS
<1>3. new = (n + 1)..last
  <2>1. ASSUME NEW s \in new PROVE s \in (n + 1)..last
    <3>1. PICK i \in 1..l : s = batch[i].seq /\ s \notin 1..n
      BY <1>1, <1>a, <1>b, <2>1 DEF NewSeqs
    <3>2. s = f + i - 1
      BY <1>1, <3>1
    <3> QED
      BY <1>1, <1>a, <3>1, <3>2
  <2>2. ASSUME NEW s \in (n + 1)..last PROVE s \in new
    <3>1. PICK i : i = s - f + 1
      OBVIOUS
    <3>2. i \in 1..l /\ f + i - 1 = s /\ s \notin 1..n
      BY <1>1, <1>a, <2>2, <3>1
    <3>3. batch[i].seq = s
      BY <1>1, <3>2
    <3> QED
      BY <1>1, <1>a, <1>b, <3>2, <3>3 DEF NewSeqs
  <2> QED
    BY <2>1, <2>2
<1>4. Cardinality(new) = IF n + 1 > last THEN 0 ELSE last - (n + 1) + 1
  BY <1>1, <1>3, FS_Interval
<1>c. PICK k : k = n + Cardinality(new)
  OBVIOUS
<1>5. k \in Nat /\ k >= n /\ k >= last /\ (k > n => k = last)
  <2>1. CASE n + 1 > last
    <3>1. Cardinality(new) = 0
      BY <1>4, <2>1
    <3>2. k = n
      BY <1>1, <1>c, <3>1
    <3> QED
      BY <1>1, <2>1, <3>2
  <2>2. CASE n + 1 <= last
    <3>1. Cardinality(new) = last - n
      <4>1. ~(n + 1 > last)
        BY <1>1, <2>2
      <4>2. Cardinality(new) = last - (n + 1) + 1
        BY <1>4, <4>1
      <4> QED
        BY <1>1, <4>2
    <3>2. k = last
      BY <1>1, <1>c, <3>1
    <3> QED
      BY <1>1, <2>2, <3>2
  <2> QED
    BY <1>1, <2>1, <2>2
<1>6. m = [s \in 1..k |-> IF s <= n THEN log[s] ELSE batch[CHOOSE i \in DOMAIN batch : batch[i].seq = s]]
  BY <1>a, <1>b, <1>c DEF Merged
<1>7. Len(m) = k
  BY <1>5, <1>6
<1>8. \A s \in 1..n : m[s] = log[s]
  BY <1>1, <1>5, <1>6
<1>9. ASSUME NEW s \in 1..k, s > n
      PROVE  s - f + 1 \in DOMAIN batch /\ m[s] = batch[s - f + 1]
  <2>1. PICK i : i = s - f + 1
    OBVIOUS
  <2>2. i \in 1..l /\ f + i - 1 = s
    BY <1>1, <1>5, <1>9, <1>a, <2>1
  <2>3. batch[i].seq = s
    BY <1>1, <2>2
  <2>4. \A j \in 1..l : batch[j].seq = s => j = i
    <3> SUFFICES ASSUME NEW j \in 1..l, batch[j].seq = s PROVE j = i
      OBVIOUS
    <3>1. f + j - 1 = f + i - 1
      BY <1>1, <2>2
    <3> QED
      BY <1>1, <2>2, <3>1
  <2>5. (CHOOSE j \in DOMAIN batch : batch[j].seq = s) = i
    BY <1>1, <2>2, <2>3, <2>4
  <2>6. m[s] = batch[i]
    BY <1>1, <1>6, <1>9, <2>5
  <2> QED
    BY <1>1, <2>1, <2>2, <2>6
<1>10. RowJoins(log, batch, f, m)
  BY <1>1, <1>5, <1>7, <1>8, <1>9, <1>a DEF RowJoins
<1> QED
  BY <1>2, <1>10

\* What the receipts of the participant's commands say of the attempts.
StartReceipt(r) ==
  LET a == r.attempt
  IN  /\ a \in DOMAIN attempts
      /\ attempts[a].command = r.command
      /\ attempts[a].index = r.hash
      /\ attempts[a].index = r.response_index
      /\ r.expires_at = attempts[a].started_at + ReceiptLifetime

FinishReceipt(r) ==
  LET a == r.hash[1]
  IN  /\ a \in DOMAIN attempts
      /\ r.hash = <<a, r.hash[2]>>
      /\ attempts[a].finish # Unfinished
      /\ attempts[a].finish.command = r.command
      /\ attempts[a].finish.request = r.hash[2]
      /\ attempts[a].index + 1 = r.response_index
      /\ r.attempt = NoAttempt
      /\ r.expires_at = attempts[a].finish.at + ReceiptLifetime

LEMMA ReceiptForms ==
  ASSUME S!IInv
  PROVE  \A r \in commands :
           /\ r.session = Me /\ r.operation \in {"start", "finish"}
           /\ r.operation = "start" => StartReceipt(r)
           /\ r.operation = "finish" => FinishReceipt(r)
<1>1. S!TypeOK /\ S!StartRows /\ S!FinishRows
  BY DEF S!IInv, S!ReceiptsTrack
<1> SUFFICES ASSUME NEW r \in commands
             PROVE  /\ r.session = Me /\ r.operation \in {"start", "finish"}
                    /\ r.operation = "start" => StartReceipt(r)
                    /\ r.operation = "finish" => FinishReceipt(r)
  OBVIOUS
<1>2. r \in S!Receipt
  BY <1>1 DEF S!TypeOK
<1>3. r.session \in Participants /\ r.operation \in {"start", "finish"}
  BY <1>2 DEF S!Receipt
<1>4. r.session = Me
  BY <1>3, OneParticipant
<1>5. ASSUME r.operation = "start" PROVE StartReceipt(r)
  BY <1>1, <1>5 DEF S!StartRows, StartReceipt
<1>6. ASSUME r.operation = "finish" PROVE FinishReceipt(r)
  <2>1. r.hash \in AttemptIds \X FinishBody(Nodes \cup {Root}, Event) /\ r.attempt = NoAttempt
    BY <1>2, <1>6 DEF S!Receipt
  <2>2. r.hash = <<r.hash[1], r.hash[2]>>
    BY <2>1
  <2> QED
    BY <1>1, <1>6, <2>1, <2>2 DEF S!FinishRows, FinishReceipt
<1> QED
  BY <1>3, <1>4, <1>5, <1>6

\* A command without a receipt has taken effect a receipt's lifetime ago, or never.
LEMMA ReceiptGone ==
  ASSUME S!IInv, NEW a \in DOMAIN attempts
  PROVE  /\ (\A r \in commands : r.operation = "start" => r.attempt # a)
              => now >= ReceiptLifetime
         /\ attempts[a].finish # Unfinished
              /\ (\A r \in commands : r.operation = "finish" => r.hash[1] # a)
              => now >= ReceiptLifetime
<1>1. S!TypeOK /\ S!WindowCovered
  BY DEF S!IInv, S!ReceiptsTrack
<1>2. attempts[a] \in S!Attempt /\ now \in Nat /\ ReceiptLifetime \in Nat
  BY <1>1, SessionAssumption DEF S!TypeOK
<1>3. attempts[a].started_at \in Nat
      /\ (attempts[a].finish # Unfinished => attempts[a].finish.at \in Nat)
  BY <1>2 DEF S!Attempt
<1>4. /\ now < attempts[a].started_at + ReceiptLifetime =>
           \E r \in commands : r.operation = "start" /\ r.attempt = a
      /\ attempts[a].finish # Unfinished /\ now < attempts[a].finish.at + ReceiptLifetime =>
           \E r \in commands : r.operation = "finish" /\ r.hash[1] = a
  BY <1>1 DEF S!WindowCovered
<1>5. ASSUME \A r \in commands : r.operation = "start" => r.attempt # a
      PROVE  now >= ReceiptLifetime
  <2>1. ~(now < attempts[a].started_at + ReceiptLifetime)
    BY <1>4, <1>5
  <2> QED
    BY <1>2, <1>3, <2>1
<1>6. ASSUME attempts[a].finish # Unfinished,
             \A r \in commands : r.operation = "finish" => r.hash[1] # a
      PROVE  now >= ReceiptLifetime
  <2>1. ~(now < attempts[a].finish.at + ReceiptLifetime)
    BY <1>4, <1>6
  <2> QED
    BY <1>2, <1>3, <1>6, <2>1
<1> QED
  BY <1>5, <1>6

\* A finished attempt whose command has no receipt was finished long ago.
LEMMA FinishedLongAgo ==
  ASSUME S!IInv, NEW a \in DOMAIN attempts, attempts[a].finish # Unfinished,
         NEW command, command = attempts[a].finish.command,
         NEW body, body = attempts[a].finish.request,
         Replayable(Me, command, "finish", <<a, body>>) = {}
  PROVE  now >= ReceiptLifetime
<1>1. S!TypeOK
  BY DEF S!IInv
<1>2. attempts[a] \in S!Attempt /\ now \in Nat /\ ReceiptLifetime \in Nat
  BY <1>1, SessionAssumption DEF S!TypeOK
<1>3. attempts[a].finish.at \in Nat
  BY <1>2 DEF S!Attempt
<1>4. ASSUME NEW r \in commands, r.operation = "finish", r.hash[1] = a, now < ReceiptLifetime
      PROVE  FALSE
  <2>1. FinishReceipt(r) /\ r.session = Me
    BY <1>4, ReceiptForms
  <2>2. /\ r.command = command /\ r.hash = <<a, body>>
        /\ r.expires_at = attempts[a].finish.at + ReceiptLifetime
    BY <1>4, <2>1 DEF FinishReceipt
  <2>3. r.expires_at > now
    BY <1>2, <1>3, <1>4, <2>2
  <2>4. r \in Replayable(Me, command, "finish", <<a, body>>)
    BY <1>4, <2>1, <2>2, <2>3 DEF Replayable, Row
  <2> QED
    BY <2>4
<1>5. CASE now < ReceiptLifetime
  BY <1>4, <1>5, ReceiptGone
<1> QED
  BY <1>2, <1>5

\* A session as the tables have it.
AsStored(v) ==
  /\ GoodView(v) /\ v.index = sessions[Me].index
  /\ v.completed <=> v.index >= TaskCount
  /\ v.attempt = NoAttempt <=> NotStarted(Me)

LEMMA ViewAsStored == S!IInv => AsStored(View(Me))
BY ViewForm DEF AsStored

LEMMA ViewAsStoredNext ==
  ASSUME S!IInv', NEW v, v = View(Me)'
  PROVE  AsStored(v)'
<1>1. (S!IInv => AsStored(View(Me)))'
  BY ViewAsStored, PTL
<1> QED
  BY <1>1
=============================================================================
