------------------------------ MODULE RateLimiter ------------------------------
(***************************************************************************)
(* The fixed-window rate limiter (limits.go) and the three quotas that a   *)
(* participant's request passes: of its source network, in front of the    *)
(* handler (limitPublicSource), of the run and of the participant, inside  *)
(* its transaction (limitParticipant).                                     *)
(*                                                                         *)
(* allow reads the clock before it takes the lock, so a request may be     *)
(* judged by a time at which others have already been served: now is any   *)
(* time since the request's previous step.  One run and one operation are  *)
(* modelled; other keys take part only in filling the table.               *)
(***************************************************************************)
EXTENDS Integers, FiniteSets

CONSTANTS
  Calls,       \* requests in progress
  Sources,     \* source networks
  Identities,  \* participants
  Limit,       \* requests per window, of each scope
  Window,      \* length of a window, of each scope
  MaxWindows,  \* maxRateWindows
  MaxTime,     \* bound on the clock
  Null         \* no source, no participant

Scopes == {"source", "run", "participant"}

ASSUME LimiterAssumption ==
  /\ Limit \in [Scopes -> Nat \ {0}]
  /\ Window \in [Scopes -> Nat \ {0}]
  /\ MaxWindows \in Nat \ {0}
  /\ MaxTime \in Nat

Keys ==
  [scope: {"source"}, of: Sources] \cup [scope: {"run"}, of: {Null}]
    \cup [scope: {"participant"}, of: Identities]

VARIABLES
  windows,  \* the limiter's table; count 0 for no entry
  calls,    \* what each request waits for
  clock

vars == <<windows, calls, clock>>

NoWindow == [expiresAt |-> 0, count |-> 0]
Idle == [phase |-> "idle", source |-> Null, who |-> Null, replay |-> FALSE, since |-> 0]

Init ==
  /\ windows = [k \in Keys |-> NoWindow]
  /\ calls = [c \in Calls |-> Idle]
  /\ clock = 0

-----------------------------------------------------------------------------
(* allow. *)

Stored(table) == {k \in Keys : table[k].count > 0}

\* Mutation: the caller's window decides what has expired.
SweepsByCaller(table, k, now) ==
  [j \in Keys |-> IF now >= table[j].expiresAt - Window[j.scope] + Window[k.scope]
                  THEN NoWindow ELSE table[j]]

\* Mutation: nothing is removed from a full table.
NeverSweeps(table, k, now) == table

\* The capacity cleanup: every entry expires on its own schedule.
Swept(table, k, now) ==
  [j \in Keys |-> IF now >= table[j].expiresAt THEN NoWindow ELSE table[j]]

\* A key that has no entry, and a table that has no room for one.
Full(table, k) == table[k].count = 0 /\ Cardinality(Stored(table)) >= MaxWindows

\* The table in which the request is looked up.
Cleaned(k, now) == IF Full(windows, k) THEN Swept(windows, k, now) ELSE windows

\* The window of the key: the current one or, from its expiry, a new one.
Current(table, k, now) ==
  IF now >= table[k].expiresAt
  THEN [expiresAt |-> now + Window[k.scope], count |-> 0]
  ELSE table[k]

HasCapacity(k, now) == ~Full(Cleaned(k, now), k)

Granted(k, now) ==
  HasCapacity(k, now) /\ Current(Cleaned(k, now), k, now).count < Limit[k.scope]

Allow(k, now) ==
  windows' = IF Granted(k, now)
             THEN [Cleaned(k, now) EXCEPT ![k] =
                    [Current(Cleaned(k, now), k, now) EXCEPT !.count = @ + 1]]
             ELSE Cleaned(k, now)

-----------------------------------------------------------------------------
(* Requests. *)

\* A request arrives; replay: its receipt is found (a start or finish again).
Request(c, s, i, replay) ==
  /\ calls[c] = Idle
  /\ calls' = [calls EXCEPT ![c] =
       [phase |-> "source", source |-> s, who |-> i, replay |-> replay, since |-> clock]]
  /\ UNCHANGED <<windows, clock>>

\* The key of the quota that a request asks for.
KeyOf(call) ==
  [scope |-> call.phase,
   of |-> CASE call.phase = "source" -> call.source
            [] call.phase = "run" -> Null
            [] call.phase = "participant" -> call.who]

\* Mutation: a replay is charged like a new command.
ReplaysCharged(call) ==
  CASE call.phase = "source" -> "run"
    [] call.phase = "run" -> "participant"
    [] call.phase = "participant" -> "idle"

\* The next quota of a granted request: a replay does not use the participant's.
NextPhase(call) ==
  CASE call.phase = "source" -> "run"
    [] call.phase = "run" -> IF call.replay THEN "idle" ELSE "participant"
    [] call.phase = "participant" -> "idle"

\* One call of allow. The quotas of run and participant are asked for in one
\* transaction, and the database has one connection.
Charge(c) ==
  LET call == calls[c]
      k == KeyOf(call)
  IN  /\ call # Idle
      /\ call.phase = "run" => \A d \in Calls : calls[d].phase # "participant"
      /\ \E now \in call.since .. clock :
           /\ Allow(k, now)
           /\ calls' = [calls EXCEPT ![c] =
                IF Granted(k, now) /\ NextPhase(call) # "idle"
                THEN [call EXCEPT !.phase = NextPhase(call), !.since = clock]
                ELSE Idle]
      /\ UNCHANGED clock

Tick ==
  /\ clock < MaxTime
  /\ clock' = clock + 1
  /\ UNCHANGED <<windows, calls>>

Next ==
  \/ \E c \in Calls, s \in Sources, i \in Identities, replay \in BOOLEAN : Request(c, s, i, replay)
  \/ \E c \in Calls : Charge(c)
  \/ Tick

Spec == Init /\ [][Next]_vars

-----------------------------------------------------------------------------
(* Properties. *)

Call ==
  [phase: {"idle", "source", "run", "participant"}, source: Sources \cup {Null},
   who: Identities \cup {Null}, replay: BOOLEAN, since: Nat]

\* Rows have their types, and a request asks for a quota that there is.
TypeOK ==
  /\ windows \in [Keys -> [expiresAt: Nat, count: Nat]]
  /\ calls \in [Calls -> Call]
  /\ \A c \in Calls : calls[c] # Idle =>
       /\ calls[c].phase # "idle" /\ calls[c].source \in Sources /\ calls[c].who \in Identities
       /\ KeyOf(calls[c]) \in Keys
       /\ calls[c].since <= clock
  /\ clock \in Nat

\* limits.go: "rateLimiter bounds the number of distinct keys".  New keys never
\* push the table over its limit, whatever has expired.
Bounded == Cardinality(Stored(windows)) <= MaxWindows

\* allow: "Each quota expires on its own schedule, even when a request with a
\* shorter window triggers capacity cleanup".  What a key has used of a window
\* that has not expired is never forgotten, and the window is never moved, by
\* requests for any key, in any order, with clocks read before the lock.
QuotaKept ==
  [][\A k \in Keys : windows[k].count > 0 /\ clock < windows[k].expiresAt =>
       /\ windows'[k].expiresAt = windows[k].expiresAt
       /\ windows'[k].count >= windows[k].count
       /\ windows'[k].count <= Limit[k.scope]]_vars

LongestWindow ==
  CHOOSE w \in {Window[s] : s \in Scopes} : \A s \in Scopes : w >= Window[s]

\* retryAfter: "too many requests; try again later".  No refusal is for ever: a
\* request for any key, known or new, is granted once the longest window has
\* passed without others, even if the table is full now.
Recovers == \A k \in Keys : Granted(k, clock + LongestWindow)

\* limitParticipant: "Verified receipt replays still consume source and run
\* capacity, but must not use the participant's budget".  Whatever is in
\* progress at the same time, a participant's budget is used by a new command of
\* that participant, which source and run have let pass.
ReplaysFree ==
  [][\A k \in Keys : k.scope = "participant" /\ windows'[k].count > windows[k].count =>
       \E c \in Calls :
         /\ calls[c].phase = "participant" /\ calls'[c] = Idle
         /\ calls[c].who = k.of /\ ~calls[c].replay]_vars

-----------------------------------------------------------------------------
(* The inductive invariant. *)

\* No window outlasts its length, or holds more than its limit.
WindowsSound ==
  \A k \in Keys :
    windows[k].expiresAt <= clock + Window[k.scope] /\ windows[k].count <= Limit[k.scope]

\* A replay does not get as far as the participant's quota.
ReplaysStop == \A c \in Calls : calls[c].phase = "participant" => ~calls[c].replay

IInv == TypeOK /\ WindowsSound /\ ReplaysStop /\ IsFiniteSet(Stored(windows)) /\ Bounded
=============================================================================
