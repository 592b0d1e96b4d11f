--------------------------- MODULE RateLimiterProofs ---------------------------
(***************************************************************************)
(* Proofs about RateLimiter, for any number of keys and of requests in     *)
(* progress, and any limits and windows.                                   *)
(***************************************************************************)
EXTENDS RateLimiter, FiniteSetTheorems, TLAPS

Row == [expiresAt: Nat, count: Nat]

-----------------------------------------------------------------------------
(* What allow does to the table. *)

\* Every key has a scope with a limit and a window.
LEMMA KeyScopes ==
  ASSUME NEW k \in Keys
  PROVE  /\ k.scope \in Scopes
         /\ Limit[k.scope] \in Nat \ {0} /\ Window[k.scope] \in Nat \ {0}
<1>1. k.scope \in Scopes
  BY DEF Keys, Scopes
<1> QED
  BY <1>1, LimiterAssumption

\* The capacity cleanup removes what has expired and changes nothing else.
LEMMA CleanedRows ==
  ASSUME windows \in [Keys -> Row], NEW k \in Keys, NEW now \in Nat
  PROVE  /\ Cleaned(k, now) \in [Keys -> Row]
         /\ \A j \in Keys : \/ Cleaned(k, now)[j] = windows[j]
                            \/ Cleaned(k, now)[j] = NoWindow /\ now >= windows[j].expiresAt
         /\ Stored(Cleaned(k, now)) \subseteq Stored(windows)
<1>1. NoWindow \in Row /\ NoWindow.count = 0
  BY DEF NoWindow, Row
<1>2. Swept(windows, k, now) \in [Keys -> Row]
  BY <1>1 DEF Swept
<1>3. \A j \in Keys : \/ Swept(windows, k, now)[j] = windows[j]
                      \/ Swept(windows, k, now)[j] = NoWindow /\ now >= windows[j].expiresAt
  BY DEF Swept
<1>4. /\ Cleaned(k, now) \in [Keys -> Row]
      /\ \A j \in Keys : \/ Cleaned(k, now)[j] = windows[j]
                         \/ Cleaned(k, now)[j] = NoWindow /\ now >= windows[j].expiresAt
  BY <1>2, <1>3 DEF Cleaned
<1>5. Stored(Cleaned(k, now)) \subseteq Stored(windows)
  BY <1>1, <1>4 DEF Stored
<1> QED
  BY <1>4, <1>5

\* A key of the table after allow: as it was, removed after its expiry, counted in
\* its window, or counted in a new window after the expiry of its last one.
LEMMA AllowRows ==
  ASSUME windows \in [Keys -> Row], NEW k \in Keys, NEW now \in Nat, Allow(k, now)
  PROVE  /\ windows' \in [Keys -> Row]
         /\ \A j \in Keys :
              \/ windows'[j] = windows[j]
              \/ windows'[j] = NoWindow /\ now >= windows[j].expiresAt
              \/ /\ j = k /\ windows'[j].count <= Limit[j.scope]
                 /\ \/ /\ windows'[j].count = windows[j].count + 1
                       /\ windows'[j].expiresAt = windows[j].expiresAt
                    \/ /\ now >= windows[j].expiresAt
                       /\ windows'[j].expiresAt = now + Window[j.scope]
<1> DEFINE table == Cleaned(k, now)
           v == Current(table, k, now)
<1>0. Limit[k.scope] \in Nat /\ Window[k.scope] \in Nat
  BY KeyScopes
<1>1. /\ table \in [Keys -> Row]
      /\ \A j \in Keys : \/ table[j] = windows[j]
                         \/ table[j] = NoWindow /\ now >= windows[j].expiresAt
  BY CleanedRows
<1>2. v \in Row
  <2>1. [expiresAt |-> now + Window[k.scope], count |-> 0] \in Row
    BY <1>0 DEF Row
  <2>2. table[k] \in Row
    BY <1>1
  <2> HIDE DEF table
  <2> QED
    BY <2>1, <2>2 DEF Current
<1>3. CASE ~Granted(k, now)
  <2>1. windows' = table
    BY <1>3 DEF Allow
  <2> HIDE DEF table
  <2> QED
    BY <1>1, <2>1
<1>4. CASE Granted(k, now)
  <2>1. windows' = [table EXCEPT ![k] = [v EXCEPT !.count = @ + 1]]
    BY <1>4 DEF Allow
  <2>2. v.count < Limit[k.scope]
    BY <1>4 DEF Granted
  <2>3. \/ v = table[k] /\ now < table[k].expiresAt
        \/ now >= table[k].expiresAt /\ v = [expiresAt |-> now + Window[k.scope], count |-> 0]
    <3>1. table[k].expiresAt \in Nat
      BY <1>1 DEF Row
    <3> HIDE DEF table
    <3> QED
      BY <3>1 DEF Current
  <2> HIDE DEF table, v
  <2>4. [v EXCEPT !.count = @ + 1] \in Row
    BY <1>2 DEF Row
  <2>5. windows' \in [Keys -> Row]
    BY <1>1, <2>1, <2>4
  <2>6. windows'[k].count = v.count + 1 /\ windows'[k].expiresAt = v.expiresAt
    BY <1>1, <1>2, <2>1 DEF Row
  <2>7. \A j \in Keys : j # k => windows'[j] = table[j]
    BY <1>1, <2>1
  <2>8. windows'[k].count <= Limit[k.scope]
    BY <1>0, <1>2, <2>2, <2>6 DEF Row
  <2>9. now < table[k].expiresAt => table[k] = windows[k]
    BY <1>1 DEF NoWindow
  <2>10. now >= table[k].expiresAt => now >= windows[k].expiresAt
    BY <1>1
  <2> QED
    BY <1>1, <2>3, <2>5, <2>6, <2>7, <2>8, <2>9, <2>10
<1> QED
  BY <1>3, <1>4

\* The table stays within its limit.
LEMMA AllowBounded ==
  ASSUME windows \in [Keys -> Row], IsFiniteSet(Stored(windows)), Bounded,
         NEW k \in Keys, NEW now \in Nat, Allow(k, now)
  PROVE  IsFiniteSet(Stored(windows)') /\ Bounded'
<1> DEFINE table == Cleaned(k, now)
<1>0. MaxWindows \in Nat
  BY LimiterAssumption
<1>1. table \in [Keys -> Row] /\ Stored(table) \subseteq Stored(windows)
  BY CleanedRows
<1>2. /\ IsFiniteSet(Stored(table)) /\ Cardinality(Stored(table)) <= Cardinality(Stored(windows))
      /\ Cardinality(Stored(table)) \in Nat /\ Cardinality(Stored(windows)) \in Nat
  <2> HIDE DEF table
  <2> QED
    BY <1>1, FS_Subset, FS_CardinalityType
<1>3. CASE ~Granted(k, now)
  <2>1. windows' = table
    BY <1>3 DEF Allow
  <2>2. Stored(windows)' = Stored(table)
    BY <2>1 DEF Stored
  <2> HIDE DEF table
  <2> QED
    BY <1>0, <1>2, <2>2 DEF Bounded
<1>4. CASE Granted(k, now)
  <2>1. windows' = [table EXCEPT ![k] = [Current(table, k, now) EXCEPT !.count = @ + 1]]
    BY <1>4 DEF Allow
  <2>2. table[k].count # 0 \/ Cardinality(Stored(table)) < MaxWindows
    BY <1>0, <1>2, <1>4 DEF Granted, HasCapacity, Full
  <2>3. Stored(windows)' \subseteq Stored(table) \cup {k}
    BY <1>1, <2>1 DEF Stored
  <2> HIDE DEF table
  <2>4. CASE table[k].count # 0
    <3>1. k \in Stored(table)
      BY <1>1, <2>4 DEF Stored, Row
    <3>2. Stored(windows)' \subseteq Stored(table)
      BY <2>3, <3>1
    <3>3. /\ IsFiniteSet(Stored(windows)') /\ Cardinality(Stored(windows)') \in Nat
          /\ Cardinality(Stored(windows)') <= Cardinality(Stored(table))
      <4> DEFINE T == Stored(windows)'
      <4> HIDE DEF T
      <4>1. T \subseteq Stored(table)
        BY <3>2 DEF T
      <4>2. IsFiniteSet(T) /\ Cardinality(T) <= Cardinality(Stored(table))
        BY <1>2, <4>1, FS_Subset
      <4> QED
        BY <4>2, FS_CardinalityType DEF T
    <3> QED
      BY <1>0, <1>2, <3>3 DEF Bounded
  <2>5. CASE Cardinality(Stored(table)) < MaxWindows
    <3>1. /\ IsFiniteSet(Stored(table) \cup {k})
          /\ Cardinality(Stored(table) \cup {k}) <= Cardinality(Stored(table)) + 1
          /\ Cardinality(Stored(table) \cup {k}) \in Nat
      <4> DEFINE S == Stored(table)
      <4>1. IsFiniteSet(S) /\ Cardinality(S) \in Nat
        BY <1>2
      <4> HIDE DEF S
      <4>2. /\ IsFiniteSet(S \cup {k})
            /\ Cardinality(S \cup {k}) = Cardinality(S) \/ Cardinality(S \cup {k}) = Cardinality(S) + 1
        BY <4>1, FS_AddElement
      <4> QED
        BY <4>1, <4>2 DEF S
    <3>2. /\ IsFiniteSet(Stored(windows)') /\ Cardinality(Stored(windows)') \in Nat
          /\ Cardinality(Stored(windows)') <= Cardinality(Stored(table) \cup {k})
      BY <2>3, <3>1, FS_Subset, FS_CardinalityType
    <3> QED
      BY <1>0, <1>2, <2>5, <3>1, <3>2 DEF Bounded
  <2> QED
    BY <2>2, <2>4, <2>5
<1> QED
  BY <1>3, <1>4

-----------------------------------------------------------------------------
(* Requests. *)

\* A key is a scope and what it is of.
LEMMA KeyTypes ==
  ASSUME NEW call \in Call, call.phase # "idle", call.source \in Sources, call.who \in Identities
  PROVE  KeyOf(call) \in Keys /\ KeyOf(call).scope = call.phase
         /\ (call.phase = "participant" => KeyOf(call).of = call.who)
BY DEF KeyOf, Keys, Call

\* The inductive invariant holds at the start.
LEMMA InvInit == Init => IInv
<1> SUFFICES ASSUME Init PROVE IInv
  OBVIOUS
<1>1. TypeOK
  BY DEF Init, TypeOK, NoWindow, Idle, Call
<1>2. WindowsSound
  BY KeyScopes DEF Init, WindowsSound, NoWindow
<1>3. ReplaysStop
  BY DEF Init, ReplaysStop, Idle
<1>4. Stored(windows) = {}
  BY DEF Init, Stored, NoWindow
<1> QED
  BY <1>1, <1>2, <1>3, <1>4, FS_EmptySet, LimiterAssumption DEF IInv, Bounded

\* What a request that is charged asks for.
LEMMA ChargeFacts ==
  ASSUME IInv, NEW c \in Calls, Charge(c)
  PROVE  /\ KeyOf(calls[c]) \in Keys /\ KeyOf(calls[c]).scope = calls[c].phase
         /\ calls[c].phase \in Scopes
         /\ calls[c].phase = "participant" => KeyOf(calls[c]).of = calls[c].who
         /\ \E now \in Nat : now <= clock /\ Allow(KeyOf(calls[c]), now)
         /\ clock' = clock
         /\ \/ calls' = [calls EXCEPT ![c] = Idle]
            \/ /\ NextPhase(calls[c]) # "idle"
               /\ calls' = [calls EXCEPT ![c] = [calls[c] EXCEPT !.phase = NextPhase(calls[c]),
                                                                 !.since = clock]]
<1>1. /\ calls[c] \in Call /\ calls[c] # Idle /\ calls[c].phase # "idle"
      /\ calls[c].source \in Sources /\ calls[c].who \in Identities
      /\ clock \in Nat
  BY DEF Charge, IInv, TypeOK
<1>2. calls[c].since \in Nat /\ calls[c].phase \in Scopes
  BY <1>1 DEF Call, Scopes
<1>3. PICK now \in calls[c].since .. clock :
        /\ Allow(KeyOf(calls[c]), now)
        /\ calls' = [calls EXCEPT ![c] =
             IF Granted(KeyOf(calls[c]), now) /\ NextPhase(calls[c]) # "idle"
             THEN [calls[c] EXCEPT !.phase = NextPhase(calls[c]), !.since = clock]
             ELSE Idle]
  BY DEF Charge
<1>4. now \in Nat /\ now <= clock
  BY <1>1, <1>2, <1>3
<1>5. clock' = clock
  BY DEF Charge
<1>6. \/ calls' = [calls EXCEPT ![c] = Idle]
      \/ /\ NextPhase(calls[c]) # "idle"
         /\ calls' = [calls EXCEPT ![c] = [calls[c] EXCEPT !.phase = NextPhase(calls[c]),
                                                           !.since = clock]]
  BY <1>3
<1> QED
  BY <1>1, <1>2, <1>3, <1>4, <1>5, <1>6, KeyTypes

\* Every step keeps the inductive invariant.
LEMMA InvStep ==
  ASSUME IInv, [Next]_vars
  PROVE  IInv'
<1>0. /\ windows \in [Keys -> Row] /\ calls \in [Calls -> Call] /\ clock \in Nat
      /\ TypeOK /\ WindowsSound /\ ReplaysStop /\ IsFiniteSet(Stored(windows)) /\ Bounded
  BY DEF IInv, TypeOK, Row
<1>1. ASSUME NEW c \in Calls, NEW s \in Sources, NEW i \in Identities, NEW replay \in BOOLEAN,
             Request(c, s, i, replay)
      PROVE  IInv'
  <2> DEFINE call == [phase |-> "source", source |-> s, who |-> i, replay |-> replay, since |-> clock]
  <2>1. call \in Call
    BY <1>0 DEF Call
  <2>2. call.phase = "source" /\ call.source = s /\ call.who = i /\ call.since = clock
    OBVIOUS
  <2>3. calls' = [calls EXCEPT ![c] = call] /\ windows' = windows /\ clock' = clock
    BY <1>1 DEF Request
  <2> HIDE DEF call
  <2>4. KeyOf(call) \in Keys
    BY <2>1, <2>2, KeyTypes
  <2>5. TypeOK'
    BY <1>0, <2>1, <2>2, <2>3, <2>4 DEF TypeOK
  <2>6. WindowsSound' /\ IsFiniteSet(Stored(windows)') /\ Bounded'
    BY <1>0, <2>3 DEF WindowsSound, Bounded, Stored
  <2>7. ReplaysStop'
    BY <1>0, <2>2, <2>3 DEF ReplaysStop
  <2> QED
    BY <2>5, <2>6, <2>7 DEF IInv
<1>2. ASSUME NEW c \in Calls, Charge(c) PROVE IInv'
  <2> DEFINE k == KeyOf(calls[c])
  <2>1. /\ k \in Keys /\ clock' = clock
        /\ \E now \in Nat : now <= clock /\ Allow(k, now)
    BY <1>2, ChargeFacts
  <2>2. PICK now \in Nat : now <= clock /\ Allow(k, now)
    BY <2>1
  <2> HIDE DEF k
  <2>3. IsFiniteSet(Stored(windows)') /\ Bounded'
    BY <1>0, <2>1, <2>2, AllowBounded
  <2>4. /\ windows' \in [Keys -> Row]
        /\ \A j \in Keys :
             \/ windows'[j] = windows[j]
             \/ windows'[j] = NoWindow
             \/ /\ windows'[j].count <= Limit[j.scope]
                /\ \/ windows'[j].expiresAt = windows[j].expiresAt
                   \/ windows'[j].expiresAt = now + Window[j.scope]
    BY <1>0, <2>1, <2>2, AllowRows
  <2>5. WindowsSound'
    <3> SUFFICES ASSUME NEW j \in Keys
                 PROVE  /\ windows'[j].expiresAt <= clock' + Window[j.scope]
                        /\ windows'[j].count <= Limit[j.scope]
      BY DEF WindowsSound
    <3>1. Window[j.scope] \in Nat /\ Limit[j.scope] \in Nat
      BY KeyScopes
    <3>2. windows[j].expiresAt <= clock + Window[j.scope] /\ windows[j].count <= Limit[j.scope]
      BY <1>0 DEF WindowsSound
    <3> QED
      BY <1>0, <2>1, <2>2, <2>4, <3>1, <3>2 DEF NoWindow
  <2>6. /\ calls[c] \in Call /\ calls[c].source \in Sources /\ calls[c].who \in Identities
        /\ calls[c].phase \in Scopes
    BY <1>0, <1>2, ChargeFacts DEF TypeOK, Charge
  <2>7. CASE calls' = [calls EXCEPT ![c] = Idle]
    <3>1. Idle \in Call /\ Idle.phase = "idle"
      BY DEF Idle, Call
    <3>2. TypeOK'
      BY <1>0, <2>1, <2>4, <2>7, <3>1 DEF TypeOK, Row
    <3>3. ReplaysStop'
      BY <1>0, <2>7, <3>1 DEF ReplaysStop
    <3> QED
      BY <2>3, <2>5, <3>2, <3>3 DEF IInv
  <2>8. CASE /\ NextPhase(calls[c]) # "idle"
             /\ calls' = [calls EXCEPT ![c] = [calls[c] EXCEPT !.phase = NextPhase(calls[c]),
                                                               !.since = clock]]
    <3> DEFINE call == [calls[c] EXCEPT !.phase = NextPhase(calls[c]), !.since = clock]
    <3>1. NextPhase(calls[c]) \in {"run", "participant"}
      BY <2>6, <2>8 DEF NextPhase, Scopes
    <3>2. call \in Call
      BY <1>0, <2>6, <3>1 DEF Call
    <3>3. /\ call.phase = NextPhase(calls[c]) /\ call.source = calls[c].source
          /\ call.who = calls[c].who /\ call.since = clock /\ call.replay = calls[c].replay
      BY <2>6 DEF Call
    <3>4. call.phase = "participant" => ~call.replay
      BY <2>6, <3>3 DEF NextPhase, Scopes
    <3>5. calls' = [calls EXCEPT ![c] = call]
      BY <2>8
    <3> HIDE DEF call
    <3>6. KeyOf(call) \in Keys
      BY <2>6, <3>1, <3>2, <3>3, KeyTypes
    <3>7. TypeOK'
      BY <1>0, <2>1, <2>4, <2>6, <3>1, <3>2, <3>3, <3>5, <3>6 DEF TypeOK, Row
    <3>8. ReplaysStop'
      BY <1>0, <3>4, <3>5 DEF ReplaysStop
    <3> QED
      BY <2>3, <2>5, <3>7, <3>8 DEF IInv
  <2> QED
    BY <1>2, <2>7, <2>8, ChargeFacts
<1>3. CASE Tick
  <2>1. clock' = clock + 1 /\ windows' = windows /\ calls' = calls
    BY <1>3 DEF Tick
  <2>2. TypeOK'
    BY <1>0, <2>1 DEF TypeOK, Call
  <2>3. WindowsSound'
    <3> SUFFICES ASSUME NEW j \in Keys
                 PROVE  /\ windows'[j].expiresAt <= clock' + Window[j.scope]
                        /\ windows'[j].count <= Limit[j.scope]
      BY DEF WindowsSound
    <3>1. Window[j.scope] \in Nat /\ windows[j].expiresAt \in Nat
      BY <1>0, KeyScopes DEF Row
    <3> QED
      BY <1>0, <2>1, <3>1 DEF WindowsSound
  <2> QED
    BY <1>0, <2>1, <2>2, <2>3 DEF IInv, ReplaysStop, Bounded, Stored
<1>4. CASE UNCHANGED vars
  BY <1>0, <1>4 DEF vars, IInv, TypeOK, WindowsSound, ReplaysStop, Bounded, Stored
<1> QED
  BY <1>1, <1>2, <1>3, <1>4 DEF Next

-----------------------------------------------------------------------------
(* The theorems. *)

\* The inductive invariant is one.
THEOREM Invariance == Spec => []IInv
BY InvInit, InvStep, PTL DEF Spec

\* limits.go: rows and requests have their types, and a request asks for a quota
\* that there is.
THEOREM TypeCorrect == Spec => []TypeOK
<1>1. IInv => TypeOK
  BY DEF IInv
<1> QED
  BY <1>1, Invariance, PTL

\* allow: the table never holds more than its limit of keys.
THEOREM AlwaysBounded == Spec => []Bounded
<1>1. IInv => Bounded
  BY DEF IInv
<1> QED
  BY <1>1, Invariance, PTL

\* allow: a quota that has not expired is neither forgotten nor exceeded.
THEOREM QuotasKept == Spec => QuotaKept
<1> DEFINE Step ==
      \A k \in Keys : windows[k].count > 0 /\ clock < windows[k].expiresAt =>
        /\ windows'[k].expiresAt = windows[k].expiresAt
        /\ windows'[k].count >= windows[k].count
        /\ windows'[k].count <= Limit[k.scope]
<1>1. ASSUME IInv, [Next]_vars, NEW k \in Keys,
             windows[k].count > 0, clock < windows[k].expiresAt
      PROVE  /\ windows'[k].expiresAt = windows[k].expiresAt
             /\ windows'[k].count >= windows[k].count
             /\ windows'[k].count <= Limit[k.scope]
  <2>0. /\ windows \in [Keys -> Row] /\ clock \in Nat
        /\ windows[k].count \in Nat /\ windows[k].expiresAt \in Nat
        /\ windows[k].count <= Limit[k.scope]
    BY <1>1 DEF IInv, TypeOK, WindowsSound, Row
  <2>1. CASE UNCHANGED windows
    BY <2>0, <2>1
  <2>2. ASSUME NEW c \in Calls, Charge(c)
        PROVE  /\ windows'[k].expiresAt = windows[k].expiresAt
               /\ windows'[k].count >= windows[k].count
               /\ windows'[k].count <= Limit[k.scope]
    <3>1. KeyOf(calls[c]) \in Keys
      BY <1>1, <2>2, ChargeFacts
    <3>2. PICK now \in Nat : now <= clock /\ Allow(KeyOf(calls[c]), now)
      BY <1>1, <2>2, ChargeFacts
    <3>3. ~(now >= windows[k].expiresAt)
      BY <1>1, <2>0, <3>2
    <3>4. \/ windows'[k] = windows[k]
          \/ /\ windows'[k].count <= Limit[k.scope]
             /\ windows'[k].count = windows[k].count + 1
             /\ windows'[k].expiresAt = windows[k].expiresAt
      BY <2>0, <3>1, <3>2, <3>3, AllowRows
    <3> QED
      BY <2>0, <3>4
  <2> QED
    BY <1>1, <2>1, <2>2 DEF Next, Request, Tick, vars
<1>2. IInv /\ [Next]_vars => [Step]_vars
  BY <1>1
<1> HIDE DEF Step
<1>3. Spec => [][Step]_vars
  BY <1>2, Invariance, PTL DEF Spec
<1> QED
  BY <1>3 DEF QuotaKept, Step

\* limitParticipant: a replay never uses the participant's budget.
THEOREM ReplaysAreFree == Spec => ReplaysFree
<1> DEFINE Step ==
      \A k \in Keys : k.scope = "participant" /\ windows'[k].count > windows[k].count =>
        \E c \in Calls :
          /\ calls[c].phase = "participant" /\ calls'[c] = Idle
          /\ calls[c].who = k.of /\ ~calls[c].replay
<1>1. ASSUME IInv, [Next]_vars, NEW k \in Keys, k.scope = "participant",
             windows'[k].count > windows[k].count
      PROVE  \E c \in Calls :
               /\ calls[c].phase = "participant" /\ calls'[c] = Idle
               /\ calls[c].who = k.of /\ ~calls[c].replay
  <2>0. /\ windows \in [Keys -> Row] /\ calls \in [Calls -> Call] /\ clock \in Nat
        /\ windows[k].count \in Nat /\ ReplaysStop
    BY <1>1 DEF IInv, TypeOK, Row
  <2>1. windows' # windows
    BY <1>1, <2>0
  <2>2. PICK c \in Calls : Charge(c)
    BY <1>1, <2>1 DEF Next, Request, Tick, vars
  <2>3. KeyOf(calls[c]) \in Keys /\ KeyOf(calls[c]).scope = calls[c].phase
    BY <1>1, <2>2, ChargeFacts
  <2>4. PICK now \in Nat : Allow(KeyOf(calls[c]), now)
    BY <1>1, <2>2, ChargeFacts
  <2>5. k = KeyOf(calls[c])
    <3>1. windows'[k] # windows[k] /\ windows'[k] # NoWindow
      BY <1>1, <2>0 DEF NoWindow
    <3> QED
      BY <2>0, <2>3, <2>4, <3>1, AllowRows
  <2>6. calls[c].phase = "participant" /\ k.of = calls[c].who
    BY <1>1, <2>2, <2>3, <2>5, ChargeFacts
  <2>7. NextPhase(calls[c]) = "idle"
    BY <2>6 DEF NextPhase
  <2>8. calls'[c] = Idle
    BY <1>1, <2>0, <2>2, <2>7, ChargeFacts
  <2> QED
    BY <2>0, <2>6, <2>8 DEF ReplaysStop
<1>2. IInv /\ [Next]_vars => [Step]_vars
  BY <1>1
<1> HIDE DEF Step
<1>3. Spec => [][Step]_vars
  BY <1>2, Invariance, PTL DEF Spec
<1> QED
  BY <1>3 DEF ReplaysFree, Step

\* retryAfter: no refusal is for ever.
THEOREM RefusalsEnd == Spec => []Recovers
<1>1. ASSUME IInv PROVE Recovers
  <2> DEFINE now == clock + LongestWindow
  <2>0. clock \in Nat /\ windows \in [Keys -> Row] /\ WindowsSound
    BY <1>1 DEF IInv, TypeOK, Row
  <2>1. /\ LongestWindow \in Nat
        /\ \A s \in Scopes : LongestWindow >= Window[s]
    <3>1. /\ Window["source"] \in Nat /\ Window["run"] \in Nat /\ Window["participant"] \in Nat
          /\ Scopes = {"source", "run", "participant"}
      BY LimiterAssumption DEF Scopes
    <3>2. \E w \in {Window[s] : s \in Scopes} : \A s \in Scopes : w >= Window[s]
      BY <3>1
    <3> QED
      BY <3>1, <3>2 DEF LongestWindow
  <2>2. now \in Nat /\ \A j \in Keys : now >= windows[j].expiresAt
    <3> SUFFICES ASSUME NEW j \in Keys PROVE now \in Nat /\ now >= windows[j].expiresAt
      BY <2>0, <2>1
    <3>1. j.scope \in Scopes /\ Window[j.scope] \in Nat
      BY KeyScopes
    <3>2. windows[j].expiresAt <= clock + Window[j.scope] /\ windows[j].expiresAt \in Nat
      BY <2>0 DEF WindowsSound, Row
    <3> QED
      BY <2>0, <2>1, <3>1, <3>2
  <2> HIDE DEF now
  <2>3. ASSUME NEW k \in Keys PROVE Granted(k, now)
    <3>1. ~Full(Cleaned(k, now), k)
      <4>1. CASE Full(windows, k)
        <5>1. Cleaned(k, now) = [j \in Keys |-> NoWindow]
          BY <2>2, <4>1 DEF Cleaned, Swept
        <5>2. Stored(Cleaned(k, now)) = {}
          BY <5>1 DEF Stored, NoWindow
        <5> QED
          BY <5>2, FS_EmptySet, LimiterAssumption DEF Full
      <4>2. CASE ~Full(windows, k)
        BY <4>2 DEF Cleaned
      <4> QED
        BY <4>1, <4>2
    <3>2. Cleaned(k, now)[k].expiresAt <= now
      BY <2>0, <2>2, CleanedRows DEF NoWindow
    <3>3. Current(Cleaned(k, now), k, now).count = 0
      BY <2>2, <3>2 DEF Current
    <3> QED
      BY <3>1, <3>3, KeyScopes DEF Granted, HasCapacity
  <2> QED
    BY <2>3 DEF Recovers, now
<1> QED
  BY <1>1, Invariance, PTL
=============================================================================
