------------------------------ MODULE EventStream ------------------------------
(***************************************************************************)
(* The navigation event stream of one attempt: what appendEvents           *)
(* (internal/server/events.go) lets a request add to the stored stream.    *)
(*                                                                         *)
(* The Go code walks the request and the stored stream in two loops and    *)
(* returns the first problem it meets.  A problem rolls the transaction    *)
(* back, so only whether there is one matters: each check is a predicate   *)
(* here, and a request is accepted when all of them hold.                  *)
(*                                                                         *)
(* Data abstraction: an event ID, an epoch and a node are members of small *)
(* sets (a value outside them stands for a malformed or unknown one); the  *)
(* optional "visible" flag is "yes", "no" or "absent"; the empty node_id   *)
(* is Root, which is also the location at the top of the tree.             *)
(***************************************************************************)
EXTENDS Integers, Sequences, FiniteSets, FiniteSetsExt

CONSTANTS
  Nodes,                \* public node IDs of the session's tree
  Root,                 \* the empty node_id: no node, the top of the tree
  Parent,               \* parent of every node, Root for the top level
  Selectable,           \* nodes that carry a content ID
  EventIds,             \* well-formed event IDs
  Epochs,               \* well-formed page epochs
  MaxElapsed,           \* bound of elapsed_ms (one year in the code)
  MaxEventsPerRequest,  \* maxEventsPerRequest, 200
  MaxEventsPerAttempt   \* maxEventsPerAttempt, 5000

ASSUME TreeAssumption ==
  /\ Root \notin Nodes
  /\ Parent \in [Nodes -> Nodes \cup {Root}]
  /\ Selectable \subseteq Nodes

ASSUME LimitAssumption ==
  /\ MaxElapsed \in Nat
  /\ MaxEventsPerRequest \in Nat \ {0}
  /\ MaxEventsPerAttempt \in Nat \ {0}

\* Any trimmed text of at most 128 bytes is an event ID, so is an epoch.
ASSUME NameAssumption ==
  /\ Epochs # {}
  /\ IsFiniteSet(EventIds) => Cardinality(EventIds) >= MaxEventsPerAttempt

Outcomes == {"selected", "gave_up", "skipped"}
NoOutcome == "none"
Moves == {"enter", "back", "root"}
EventTypes == {"tree_shown", "select", "visibility_hidden", "visibility_visible",
               "resume", "submit"} \cup Moves

\* Fields of an event as they arrive; the checks below narrow them down.
Event == [id: EventIds, seq: Nat \ {0}, type: EventTypes,
          node: Nodes \cup {Root}, epoch: Epochs, elapsed: 0..MaxElapsed,
          visible: {"yes", "no", "absent"}, outcome: Outcomes \cup {NoOutcome}]

-----------------------------------------------------------------------------
(* The first loop: sequence numbers, duplicates and the shape of an event. *)

\* Sequence numbers the request adds beyond the stored stream.
NewSeqs(saved, incoming) ==
  {incoming[i].seq : i \in DOMAIN incoming} \ 1..Len(saved)

\* The loop's variable saved when it ends.
Merged(saved, incoming) ==
  [s \in 1..(Len(saved) + Cardinality(NewSeqs(saved, incoming))) |->
     IF s <= Len(saved) THEN saved[s]
     ELSE incoming[CHOOSE i \in DOMAIN incoming : incoming[i].seq = s]]

\* No gap: when an event is reached, every earlier sequence number is there.
InSequence(saved, incoming) ==
  \A i \in DOMAIN incoming :
    /\ incoming[i].seq \in Nat \ {0}
    /\ \A s \in (Len(saved) + 1)..(incoming[i].seq - 1) :
         \E j \in 1..(i - 1) : incoming[j].seq = s

\* Mutation: an event with a number that is taken is skipped.
KeepsFirst(log, incoming) == \A i \in DOMAIN incoming : incoming[i].seq \in DOMAIN log

\* A sequence number that is already taken carries the same canonical event.
Agrees(log, incoming) ==
  \A i \in DOMAIN incoming : log[incoming[i].seq] = incoming[i]

UniqueIds(log, first) ==
  \A s \in first..Len(log), r \in 1..Len(log) : r < s => log[r].id # log[s].id

\* The checks on one event that depend on nothing but the event.
WellFormed(e) ==
  /\ e \in Event
  /\ e.seq = 1 => e.type = "tree_shown" \/ (e.type = "submit" /\ e.outcome = "skipped")
  /\ e.type = "submit" => e.visible # "absent" /\ e.outcome # NoOutcome
  /\ e.type # "submit" => e.outcome = NoOutcome
  /\ e.type = "visibility_hidden" => e.visible # "yes"
  /\ e.type = "visibility_visible" => e.visible # "no"
  /\ e.type = "enter" => e.node \in Nodes
  /\ e.type = "select" => e.node \in Selectable

-----------------------------------------------------------------------------
(* The second loop: the merged stream as a whole. *)

Starts(log, i) == i = 1 \/ log[i].epoch # log[i - 1].epoch

\* A page epoch is contiguous and begins with resume and a visibility flag.
EpochsInOrder(log) ==
  /\ \A i, j \in 1..Len(log) :
       i < j /\ Starts(log, j) => log[i].epoch # log[j].epoch
  /\ \A i \in 1..Len(log) :
       IF Starts(log, i)
       THEN log[i].visible # "absent" /\ (i > 1 => log[i].type = "resume")
       ELSE log[i].elapsed >= log[i - 1].elapsed

\* Proper ancestors of a node, Root excluded.
Ancestors[n \in Nodes] ==
  IF Parent[n] = Root THEN {} ELSE {Parent[n]} \cup Ancestors[Parent[n]]

\* Where the participant is just before event i.
Location(log, i) ==
  LET moves == {j \in 1..(i - 1) : log[j].type \in Moves}
  IN  IF moves = {} THEN Root ELSE log[Max(moves)].node

ValidMove(e, i, last, here) ==
  /\ e.type = "submit"     => i = last
  /\ e.type = "tree_shown" => i = 1
  /\ e.type = "enter"      => Parent[e.node] = here
  /\ e.type = "select"     => e.node = here \/ Parent[e.node] = here
  /\ e.type = "back"       => here # Root /\ e.node \in Ancestors[here] \cup {Root}
  /\ e.type = "root"       => e.node = Root
  /\ e.type \in {"resume", "visibility_hidden", "visibility_visible"}
                           => e.node \in {Root, here}

ValidStream(log) ==
  /\ EpochsInOrder(log)
  /\ \A i \in 1..Len(log) : ValidMove(log[i], i, Len(log), Location(log, i))

-----------------------------------------------------------------------------
(* What the callers use. frozen: the attempt is finished or is not the     *)
(* session's current one, so only duplicates are acknowledged.             *)

Appendable(saved, incoming, frozen) ==
  LET log == Merged(saved, incoming)
      new == (Len(saved) + 1)..Len(log)
  IN  /\ Len(incoming) <= MaxEventsPerRequest
      /\ InSequence(saved, incoming)
      /\ Agrees(log, incoming)
      /\ frozen => new = {}
      /\ UniqueIds(log, Len(saved) + 1)
      /\ \A s \in new : WellFormed(log[s])
      /\ new # {} => Len(log) <= MaxEventsPerAttempt
      /\ ValidStream(log)

Submits(incoming) == {i \in DOMAIN incoming : incoming[i].type = "submit"}

\* Mutation: a checkpoint checks single events and leaves the stream as a whole
\* to finish.
StreamUnchecked(saved, incoming, frozen) ==
  LET log == Merged(saved, incoming)
      new == (Len(saved) + 1)..Len(log)
  IN  /\ Submits(incoming) = {}
      /\ InSequence(saved, incoming)
      /\ Agrees(log, incoming)
      /\ frozen => new = {}
      /\ \A s \in new : WellFormed(log[s])

\* POST /events: appendEvents without a terminal selection.
AcceptsCheckpoint(saved, incoming, frozen) ==
  /\ Submits(incoming) = {}
  /\ Appendable(saved, incoming, frozen)

\* POST /finish: the last event, and no other, is the matching submit.
AcceptsTerminal(saved, incoming, outcome, node) ==
  /\ incoming # <<>>
  /\ Submits(incoming) = {Len(incoming)}
  /\ incoming[Len(incoming)].outcome = outcome
  /\ incoming[Len(incoming)].node = node
  /\ Appendable(saved, incoming, FALSE)

\* The node that finish takes as chosen: the last select that no later
\* navigation cancels.
Chosen(log, node) ==
  \E i \in 1..Len(log) :
    /\ log[i].type = "select"
    /\ log[i].node = node
    /\ \A j \in (i + 1)..Len(log) : log[j].type \notin Moves \cup {"select"}
=============================================================================
