---------------------------- MODULE AdminAuthProofs ----------------------------
(***************************************************************************)
(* Proofs about the accounts and sessions of AdminAuth, for any number of  *)
(* users, browsers and sessions, and logins that take any time.            *)
(***************************************************************************)
EXTENDS AdminAuth, FiniteSetTheorems, SequenceTheorems, TLAPS

\* No account, session or login is there at the start.
LEMMA InvInit == Init => IInv
BY AuthAssumption DEF Init, IInv, AccountsType, LoginsSound, SessionsCurrent, NoUser, NoSession,
                     NoLogin, User, Session, Attempt

\* Every step keeps the types of accounts and sessions.
LEMMA TypeStep ==
  ASSUME AccountsType, [Next]_vars
  PROVE  AccountsType'
<1>0. /\ users \in [Users -> User] /\ salts \in Nat /\ sessions \in [Tokens -> Session]
      /\ cookies \in [Browsers -> Tokens \cup {Null}] /\ logins \in [Browsers -> Attempt]
      /\ clock \in Nat
      /\ NoSession \in Session /\ NoLogin \in Attempt
  BY AuthAssumption DEF AccountsType, NoSession, NoLogin, NoUser, Session, Attempt, User
<1>1. ASSUME NEW u \in Users, NEW password \in Passwords, NEW role \in {"owner", "analyst"},
             SetUser(u, password, role)
      PROVE  AccountsType'
  <2>1. [password |-> password, salt |-> salts + 1, role |-> role] \in User
    BY <1>0 DEF User
  <2>2. sessions' \in [Tokens -> Session]
    BY <1>0, <1>1 DEF SetUser
  <2> QED
    BY <1>0, <1>1, <2>1, <2>2 DEF SetUser, AccountsType
<1>2. ASSUME NEW b \in Browsers, NEW u \in Users, NEW password \in Passwords, Login(b, u, password)
      PROVE  AccountsType'
  <2>1. [username |-> u, password |-> password, row |-> users[u], oldToken |-> cookies[b],
         since |-> clock] \in Attempt
    BY <1>0 DEF Attempt
  <2> QED
    BY <1>0, <1>2, <2>1 DEF Login, AccountsType, accounts
<1>3. ASSUME NEW b \in Browsers, FailLogin(b) PROVE AccountsType'
  BY <1>0, <1>3 DEF FailLogin, AccountsType, accounts
<1>4. ASSUME NEW b \in Browsers, NEW t \in Tokens, CreateAdminSession(b, t) PROVE AccountsType'
  <2>1. [username |-> logins[b].username, salt |-> logins[b].row.salt,
         role |-> logins[b].row.role, expiresAt |-> clock + SessionLife] \in Session
    <3>1. logins[b].username \in Users \cup {Null} /\ logins[b].row \in User
      BY <1>0 DEF Attempt
    <3>2. logins[b].row.salt \in Nat /\ logins[b].row.role \in {"none", "owner", "analyst"}
      BY <3>1 DEF User
    <3>3. clock + SessionLife \in Nat
      BY <1>0, AuthAssumption
    <3> QED
      BY <3>1, <3>2, <3>3 DEF Session
  <2>2. sessions' \in [Tokens -> Session]
    BY <1>0, <1>4, <2>1 DEF CreateAdminSession
  <2> QED
    BY <1>0, <1>4, <2>2 DEF CreateAdminSession, AccountsType, accounts
<1>5. ASSUME NEW b \in Browsers, ChangedLogin(b) PROVE AccountsType'
  BY <1>0, <1>5 DEF ChangedLogin, AccountsType, accounts
<1>6. ASSUME NEW b \in Browsers, AbortLogin(b) PROVE AccountsType'
  BY <1>0, <1>6 DEF AbortLogin, AccountsType, accounts
<1>7. ASSUME NEW b \in Browsers, Logout(b) PROVE AccountsType'
  BY <1>0, <1>7 DEF Logout, AccountsType, accounts
<1>8. CASE Tick
  BY <1>0, <1>8 DEF Tick, AccountsType, accounts
<1>9. CASE UNCHANGED vars
  BY <1>0, <1>9 DEF vars, AccountsType, accounts
<1> QED
  BY <1>1, <1>2, <1>3, <1>4, <1>5, <1>6, <1>7, <1>8, <1>9 DEF Next, RefuseLogin

\* Every step keeps the sessions current.
LEMMA SessionsStep ==
  ASSUME IInv, [Next]_vars
  PROVE  LoginsSound' /\ SessionsCurrent'
<1>0. /\ users \in [Users -> User] /\ sessions \in [Tokens -> Session]
      /\ logins \in [Browsers -> Attempt] /\ LoginsSound /\ SessionsCurrent
      /\ Null \notin Users
      /\ NoLogin.username = Null /\ NoLogin.row = NoUser /\ NoSession.username = Null
  BY AuthAssumption DEF IInv, AccountsType, NoLogin, NoSession
<1>1. ASSUME NEW u \in Users, NEW password \in Passwords, NEW role \in {"owner", "analyst"},
             SetUser(u, password, role)
      PROVE  LoginsSound' /\ SessionsCurrent'
  <2>1. \A x \in Users : x # u => users'[x] = users[x]
    BY <1>0, <1>1 DEF SetUser
  <2>2. \A t \in Tokens : sessions'[t].username # Null =>
          sessions'[t] = sessions[t] /\ sessions[t].username # u /\ sessions[t].username \in Users
    BY <1>0, <1>1 DEF SetUser, Session
  <2> QED
    BY <1>0, <1>1, <2>1, <2>2 DEF SetUser, LoginsSound, SessionsCurrent
<1>2. ASSUME NEW b \in Browsers, NEW u \in Users, NEW password \in Passwords, Login(b, u, password)
      PROVE  LoginsSound' /\ SessionsCurrent'
  BY <1>0, <1>2 DEF Login, accounts, LoginsSound, SessionsCurrent
<1>3. ASSUME NEW b \in Browsers,
             logins' = [logins EXCEPT ![b] = NoLogin], UNCHANGED <<users, sessions>>
      PROVE  LoginsSound' /\ SessionsCurrent'
  BY <1>0, <1>3 DEF LoginsSound, SessionsCurrent
<1>4. ASSUME NEW b \in Browsers, NEW t \in Tokens, CreateAdminSession(b, t)
      PROVE  LoginsSound' /\ SessionsCurrent'
  <2>1. logins[b].username \in Users /\ users[logins[b].username] = logins[b].row
    BY <1>0, <1>4 DEF CreateAdminSession, Verified, StillThere, LoginsSound, Attempt
  <2>2. sessions'[t] = [username |-> logins[b].username, salt |-> logins[b].row.salt,
                        role |-> logins[b].row.role, expiresAt |-> clock + SessionLife]
    BY <1>4 DEF CreateAdminSession
  <2>3. \A s \in Tokens : s # t => sessions'[s] = NoSession \/ sessions'[s] = sessions[s]
    BY <1>4 DEF CreateAdminSession
  <2>4. UNCHANGED users /\ logins' = [logins EXCEPT ![b] = NoLogin]
    BY <1>4 DEF CreateAdminSession, accounts
  <2>5. SessionsCurrent'
    BY <1>0, <2>1, <2>2, <2>3, <2>4 DEF SessionsCurrent
  <2>6. LoginsSound'
    BY <1>0, <2>4 DEF LoginsSound
  <2> QED
    BY <2>5, <2>6
<1>5. ASSUME NEW b \in Browsers, Logout(b) PROVE LoginsSound' /\ SessionsCurrent'
  <2>1. \A t \in Tokens : sessions'[t] = NoSession \/ sessions'[t] = sessions[t]
    BY <1>0, <1>5 DEF Logout
  <2> QED
    BY <1>0, <1>5, <2>1 DEF Logout, accounts, LoginsSound, SessionsCurrent
<1>6. CASE UNCHANGED <<users, sessions, logins>>
  BY <1>0, <1>6 DEF LoginsSound, SessionsCurrent
<1> QED
  BY <1>1, <1>2, <1>3, <1>4, <1>5, <1>6 DEF Next, RefuseLogin, FailLogin, ChangedLogin, AbortLogin, Tick, vars, accounts

\* createAdminSession against SetUser: no session outlives the password or the
\* role that it was obtained with.
THEOREM AlwaysCurrent == Spec => []SessionsCurrent
<1>1. IInv /\ [Next]_vars => IInv'
  BY TypeStep, SessionsStep DEF IInv
<1>2. IInv => SessionsCurrent
  BY DEF IInv
<1> QED
  BY <1>1, <1>2, InvInit, PTL DEF Spec

\* Accounts are set with a role, logins read accounts, and sessions are created with
\* the role of a row that belongs to an account.
LEMMA RolesStep ==
  ASSUME IInv, RolesSound, [Next]_vars
  PROVE  RolesSound'
<1>0. /\ users \in [Users -> User] /\ sessions \in [Tokens -> Session]
      /\ logins \in [Browsers -> Attempt]
      /\ NoLogin.row = NoUser /\ NoSession.username = Null
      /\ \A u \in Users : Roled(users[u])
      /\ \A b \in Browsers : Roled(logins[b].row)
      /\ \A t \in Tokens : sessions[t].username # Null => sessions[t].role \in {"owner", "analyst"}
  BY DEF IInv, AccountsType, RolesSound, NoLogin, NoSession
<1>1. ASSUME NEW u \in Users, NEW password \in Passwords, NEW role \in {"owner", "analyst"},
             SetUser(u, password, role)
      PROVE  RolesSound'
  <2>1. \A x \in Users : users'[x] = users[x] \/ users'[x].role = role
    BY <1>0, <1>1 DEF SetUser
  <2>2. \A t \in Tokens : sessions'[t] = NoSession \/ sessions'[t] = sessions[t]
    BY <1>1 DEF SetUser
  <2> QED
    BY <1>0, <1>1, <2>1, <2>2 DEF SetUser, RolesSound, Roled
<1>2. ASSUME NEW b \in Browsers, NEW u \in Users, NEW password \in Passwords, Login(b, u, password)
      PROVE  RolesSound'
  BY <1>0, <1>2 DEF Login, accounts, RolesSound, Roled
<1>3. ASSUME NEW b \in Browsers, logins' = [logins EXCEPT ![b] = NoLogin], UNCHANGED users,
             \A t \in Tokens : \/ sessions'[t] = NoSession \/ sessions'[t] = sessions[t]
                              \/ sessions'[t].role \in {"owner", "analyst"}
      PROVE  RolesSound'
  BY <1>0, <1>3 DEF RolesSound, Roled
<1>4. ASSUME NEW b \in Browsers, NEW t \in Tokens, CreateAdminSession(b, t) PROVE RolesSound'
  <2>1. logins[b].row.role \in {"owner", "analyst"}
    BY <1>0, <1>4 DEF CreateAdminSession, Verified, Roled
  <2>2. \A s \in Tokens : \/ sessions'[s] = NoSession \/ sessions'[s] = sessions[s]
                          \/ sessions'[s].role \in {"owner", "analyst"}
    BY <1>4, <2>1 DEF CreateAdminSession
  <2> QED
    BY <1>3, <1>4, <2>2 DEF CreateAdminSession, accounts
<1>5. ASSUME NEW b \in Browsers, Logout(b) PROVE RolesSound'
  <2>1. \A t \in Tokens : sessions'[t] = NoSession \/ sessions'[t] = sessions[t]
    BY <1>0, <1>5 DEF Logout
  <2> QED
    BY <1>0, <1>5, <2>1 DEF Logout, accounts, RolesSound, Roled
<1>6. CASE UNCHANGED <<users, sessions, logins>>
  BY <1>0, <1>6 DEF RolesSound, Roled
<1> QED
  BY <1>1, <1>2, <1>3, <1>4, <1>5, <1>6
     DEF Next, RefuseLogin, FailLogin, ChangedLogin, AbortLogin, Tick, vars, accounts

\* A cookie is set to the token of the session that is created, or forgotten.
LEMMA CookiesStep ==
  ASSUME AccountsType, CookiesSound, [Next]_vars
  PROVE  CookiesSound'
<1>0. cookies \in [Browsers -> Tokens \cup {Null}]
  BY DEF AccountsType
<1>1. CASE UNCHANGED <<issued, cookies>>
  BY <1>1 DEF CookiesSound
<1>2. ASSUME NEW b \in Browsers, NEW t \in Tokens, CreateAdminSession(b, t) PROVE CookiesSound'
  BY <1>0, <1>2 DEF CreateAdminSession, CookiesSound
<1>3. ASSUME NEW b \in Browsers, Logout(b) PROVE CookiesSound'
  BY <1>0, <1>3 DEF Logout, CookiesSound
<1> QED
  BY <1>1, <1>2, <1>3
     DEF Next, SetUser, Login, RefuseLogin, FailLogin, ChangedLogin, AbortLogin, Tick, vars
-----------------------------------------------------------------------------
(* The limiter of failed logins: no delay is longer than the longest one.  *)

\* A number of failures has earned none of the delays or one of them.
LEMMA DelayListed ==
  ASSUME NEW count \in Nat
  PROVE  Delay(count) = 0 \/ \E i \in DOMAIN Delays : Delay(count) = Delays[i]
<1> DEFINE reached == {i \in DOMAIN Thresholds : count >= Thresholds[i]}
<1>1. reached \subseteq 1..Len(Delays) /\ Len(Delays) \in Nat /\ DOMAIN Delays = 1..Len(Delays)
  BY AuthAssumption
<1>2. ASSUME NEW n \in Nat PROVE IsFiniteSet(1..n) /\ Cardinality(1..n) = n
  <2>1. 1 \in Int /\ n \in Int
    OBVIOUS
  <2>2. IsFiniteSet(1..n) /\ Cardinality(1..n) = IF 1 > n THEN 0 ELSE n - 1 + 1
    BY ONLY <2>1, FS_Interval, Zenon
  <2> QED
    BY <2>2
<1>3. IsFiniteSet(reached) /\ Cardinality(reached) <= Len(Delays)
  BY <1>1, <1>2, FS_Subset
<1>4. Cardinality(reached) \in Nat /\ (reached # {} => Cardinality(reached) # 0)
  BY <1>3, FS_CardinalityType, FS_EmptySet
<1>5. reached # {} => Cardinality(reached) \in DOMAIN Delays
  BY <1>1, <1>3, <1>4
<1>6. Delay(count) = IF reached = {} THEN 0 ELSE Delays[Cardinality(reached)]
  BY DEF Delay
<1> QED
  BY <1>5, <1>6

\* One more failure at a time that is not ahead of the clock delays a login by one
\* of the delays at most.
LEMMA CountedSound ==
  ASSUME clock \in Nat, NEW now \in 0..clock, NEW e \in Entry, Bounded(e)
  PROVE  Counted(e, now) \in Entry /\ Bounded(Counted(e, now))
<1> DEFINE count == IF e.count < Thresholds[Len(Thresholds)] THEN e.count + 1 ELSE e.count
<1>1. count \in Nat /\ e.until \in Nat
  BY AuthAssumption DEF Entry
<1>2. CASE Delay(count) = 0
  <2>1. Counted(e, now) = [count |-> count, until |-> e.until, touched |-> now]
    BY <1>2 DEF Counted, Until
  <2> QED
    BY <1>1, <2>1 DEF Entry, Bounded
<1>3. ASSUME NEW i \in DOMAIN Delays, Delay(count) = Delays[i], Delay(count) # 0
      PROVE  Counted(e, now) \in Entry /\ Bounded(Counted(e, now))
  <2>1. Counted(e, now) = [count |-> count, until |-> now + Delays[i], touched |-> now]
    BY <1>3 DEF Counted, Until
  <2>2. Delays[i] \in Nat
    BY AuthAssumption
  <2> QED
    BY <1>1, <2>1, <2>2 DEF Entry, Bounded
<1> QED
  BY <1>1, <1>2, <1>3, DelayListed

\* Entries are removed, left alone or counted up, and time goes on.
LEMMA EntriesStep ==
  ASSUME AccountsType, EntriesSound, [Next]_vars
  PROVE  EntriesSound'
<1>0. /\ failures \in [Keys -> Entry] /\ \A k \in Keys : Bounded(failures[k])
      /\ clock \in Nat /\ NoFailure \in Entry /\ Bounded(NoFailure)
  BY DEF EntriesSound, AccountsType, NoFailure, Entry, Bounded
<1>1. ASSUME UNCHANGED clock,
             failures' \in [Keys -> Entry], \A k \in Keys : Bounded(failures'[k])
      PROVE  EntriesSound'
  BY <1>1 DEF EntriesSound, Bounded
<1>2. ASSUME NEW key, Remove(key), UNCHANGED clock PROVE EntriesSound'
  <2>1. \A k \in Keys : failures'[k] = NoFailure \/ failures'[k] = failures[k]
    BY <1>2 DEF Remove, Without
  <2>2. failures' \in [Keys -> Entry]
    BY <1>0, <1>2 DEF Remove, Without
  <2> QED
    BY <1>0, <1>1, <1>2, <2>1, <2>2
<1>3. ASSUME UNCHANGED <<failures, clock>> PROVE EntriesSound'
  BY <1>0, <1>1, <1>3
<1>4. ASSUME NEW b \in Browsers, NEW u \in Users, NEW password \in Passwords, Login(b, u, password)
      PROVE  EntriesSound'
  BY <1>2, <1>3, <1>4 DEF Login, limiter
<1>5. ASSUME NEW b \in Browsers, FailLogin(b) PROVE EntriesSound'
  <2>1. PICK now \in logins[b].since..clock : Failed(<<Source[b], logins[b].username>>, now)
    BY <1>5 DEF FailLogin
  <2>2. now \in 0..clock
    BY <1>0, <2>1 DEF AccountsType, Attempt
  <2> DEFINE key == <<Source[b], logins[b].username>>
  <2>3. PICK n \in 0..Len(order) :
          failures' = [Without(failures, {order[i] : i \in 1..n + Evicted(key, n)})
                         EXCEPT ![key] = Counted(@, now)]
    BY <2>1 DEF Failed
  <2> DEFINE rest == Without(failures, {order[i] : i \in 1..n + Evicted(key, n)})
  <2>4. failures' = [rest EXCEPT ![key] = Counted(rest[key], now)]
    BY <2>3
  <2>5. rest \in [Keys -> Entry] /\ \A k \in Keys : Bounded(rest[k])
    BY <1>0 DEF Without
  <2>6. key \in Keys => Counted(rest[key], now) \in Entry /\ Bounded(Counted(rest[key], now))
    BY <1>0, <2>2, <2>5, CountedSound
  <2>7. failures' \in [Keys -> Entry] /\ \A k \in Keys : Bounded(failures'[k])
    <3> HIDE DEF rest, key
    <3> QED
      BY <2>4, <2>5, <2>6
  <2> QED
    BY <1>1, <1>5, <2>7 DEF FailLogin
<1>6. ASSUME NEW b \in Browsers, NEW t \in Tokens, CreateAdminSession(b, t) PROVE EntriesSound'
  BY <1>2, <1>6 DEF CreateAdminSession
<1>7. CASE Tick
  <2>1. UNCHANGED failures /\ clock' = clock + 1
    BY <1>7 DEF Tick, limiter
  <2>2. ASSUME NEW k \in Keys PROVE Bounded(failures[k])'
    <3>1. failures[k].until \in Nat /\ \A i \in DOMAIN Delays : Delays[i] \in Nat
      BY <1>0, AuthAssumption, SMTT(30) DEF Entry
    <3> QED
      BY <1>0, <2>1, <3>1 DEF Bounded
  <2> QED
    BY <1>0, <2>1, <2>2 DEF EntriesSound
<1>8. CASE UNCHANGED limiter /\ UNCHANGED clock
  BY <1>3, <1>8 DEF limiter
<1> QED
  BY <1>4, <1>5, <1>6, <1>7, <1>8
     DEF Next, SetUser, RefuseLogin, ChangedLogin, AbortLogin, Logout, vars

\* failed under its lock: however many failures pile up, at once or over time, no
\* login has to wait for longer than the longest delay.
THEOREM DelaysEnd == Spec => []NoLockout
<1>1. Init => EntriesSound
  BY DEF Init, EntriesSound, Entry, Bounded, NoFailure
<1>2. IInv /\ EntriesSound /\ [Next]_vars => IInv' /\ EntriesSound'
  BY TypeStep, SessionsStep, EntriesStep DEF IInv
<1>3. EntriesSound => NoLockout
  BY DEF EntriesSound, Bounded, NoLockout
<1> QED
  BY <1>1, <1>2, <1>3, InvInit, PTL DEF Spec

\* Accounts, sessions, logins and failures have their types: in particular every
\* session has a role that authorize knows.
THEOREM TypeCorrect == Spec => []TypeOK
<1>1. Init => EntriesSound /\ RolesSound /\ CookiesSound
  BY DEF Init, EntriesSound, Entry, Bounded, NoFailure, RolesSound, Roled, NoLogin, NoSession,
         CookiesSound
<1>2. IInv /\ EntriesSound /\ RolesSound /\ CookiesSound /\ [Next]_vars
        => IInv' /\ EntriesSound' /\ RolesSound' /\ CookiesSound'
  BY TypeStep, SessionsStep, EntriesStep, RolesStep, CookiesStep DEF IInv
<1>3. IInv /\ EntriesSound /\ RolesSound /\ CookiesSound => TypeOK
  BY DEF IInv, EntriesSound, RolesSound, CookiesSound, TypeOK
<1> QED
  BY <1>1, <1>2, <1>3, InvInit, PTL DEF Spec

-----------------------------------------------------------------------------
(* The limiter's list and its map. *)

\* The list and the map of any moment have the same keys, once each.
Matched(entries, list) ==
  /\ list \in Seq(Keys)
  /\ \A k \in Keys : entries[k].count > 0 <=> \E i \in DOMAIN list : list[i] = k
  /\ \A i, j \in DOMAIN list : list[i] = list[j] => i = j

\* remove takes one key out of the list and leaves the others in their order.
LEMMA OthersList ==
  ASSUME NEW list \in Seq(Keys), NEW key,
         \A i, j \in DOMAIN list : list[i] = list[j] => i = j
  PROVE  /\ Others(list, key) \in Seq(Keys)
         /\ Len(Others(list, key)) <= Len(list)
         /\ \A i, j \in DOMAIN Others(list, key) :
              Others(list, key)[i] = Others(list, key)[j] => i = j
         /\ \A k : (\E i \in DOMAIN Others(list, key) : Others(list, key)[i] = k)
                     <=> k # key /\ \E i \in DOMAIN list : list[i] = k
         /\ (\E i \in DOMAIN list : list[i] = key) => Len(Others(list, key)) = Len(list) - 1
<1>1. CASE \A i \in DOMAIN list : list[i] # key
  <2>1. Others(list, key) = list
    BY <1>1 DEF Others
  <2>2. Len(list) <= Len(list)
    OBVIOUS
  <2>3. \A k : (\E i \in DOMAIN list : list[i] = k) <=> k # key /\ \E i \in DOMAIN list : list[i] = k
    BY <1>1
  <2> QED
    BY <1>1, <2>1, <2>2, <2>3, Zenon
<1>2. CASE \E i \in DOMAIN list : list[i] = key
  <2> DEFINE p == CHOOSE i \in DOMAIN list : list[i] = key
             n == Len(list)
             from(i) == IF i < p THEN i ELSE i + 1
             rest == [i \in 1..n - 1 |-> list[from(i)]]
  <2>1. p \in DOMAIN list /\ list[p] = key
    BY <1>2
  <2>2. n \in Nat /\ DOMAIN list = 1..n /\ p \in 1..n /\ n > 0
    BY <2>1
  <2>3. Others(list, key) = rest
    BY <1>2 DEF Others
  <2> HIDE DEF p, n
  <2>4. \A i \in 1..n - 1 : from(i) \in 1..n /\ from(i) # p
    BY <2>2
  <2>5. \A i, j \in 1..n - 1 : from(i) = from(j) => i = j
    BY <2>2
  <2>6. \A m \in 1..n : m # p => \E i \in 1..n - 1 : from(i) = m
    <3> SUFFICES ASSUME NEW m \in 1..n, m # p PROVE \E i \in 1..n - 1 : from(i) = m
      OBVIOUS
    <3>1. CASE m < p
      BY <2>2, <3>1
    <3>2. CASE m > p
      <4>1. m - 1 \in 1..n - 1 /\ from(m - 1) = m
        BY <2>2, <3>2
      <4> QED
        BY <4>1
    <3> QED
      BY <2>2, <3>1, <3>2
  <2>7. n - 1 \in Nat
    BY <2>2
  <2> HIDE DEF from
  <2>8. rest \in Seq(Keys) /\ Len(rest) = n - 1 /\ DOMAIN rest = 1..n - 1
    <3>1. \A i \in 1..n - 1 : list[from(i)] \in Keys
      BY <2>2, <2>4
    <3> QED
      BY <2>7, <3>1
  <2>9. \A i \in 1..n - 1 : rest[i] = list[from(i)]
    OBVIOUS
  <2> HIDE DEF rest
  <2>10. \A i, j \in DOMAIN rest : rest[i] = rest[j] => i = j
    BY <2>2, <2>4, <2>5, <2>8, <2>9
  <2>11. \A k : (\E i \in DOMAIN rest : rest[i] = k) <=> k # key /\ \E i \in DOMAIN list : list[i] = k
    <3>1. ASSUME NEW i \in DOMAIN rest PROVE rest[i] # key /\ \E j \in DOMAIN list : list[j] = rest[i]
      BY <2>1, <2>2, <2>4, <2>8, <2>9
    <3>2. ASSUME NEW m \in DOMAIN list, list[m] # key PROVE \E i \in DOMAIN rest : rest[i] = list[m]
      BY <2>1, <2>2, <2>6, <2>8, <2>9, <3>2
    <3> QED
      BY <3>1, <3>2
  <2>12. Len(rest) <= Len(list) /\ Len(rest) = Len(list) - 1
    BY <2>2, <2>8 DEF n
  <2> QED
    BY <2>3, <2>8, <2>10, <2>11, <2>12
<1> QED
  BY <1>1, <1>2

\* The first entries make way for the rest of the list.
Rest(list, gone) == SubSeq(list, gone + 1, Len(list))

LEMMA RestList ==
  ASSUME NEW list \in Seq(Keys), NEW gone, gone \in 0..Len(list),
         \A i, j \in DOMAIN list : list[i] = list[j] => i = j
  PROVE  /\ Rest(list, gone) \in Seq(Keys)
         /\ Len(Rest(list, gone)) = Len(list) - gone
         /\ \A i, j \in DOMAIN Rest(list, gone) : Rest(list, gone)[i] = Rest(list, gone)[j] => i = j
         /\ \A k : (\E i \in DOMAIN Rest(list, gone) : Rest(list, gone)[i] = k)
                     <=> \E i \in gone + 1 .. Len(list) : list[i] = k
         /\ \A k : (\E i \in DOMAIN Rest(list, gone) : Rest(list, gone)[i] = k)
                     <=> ((\A i \in 1..gone : list[i] # k) /\ \E i \in DOMAIN list : list[i] = k)
<1> DEFINE n == Len(list)
           rest == Rest(list, gone)
<1>0. rest = SubSeq(list, gone + 1, n)
  BY DEF Rest
<1> HIDE DEF rest
<1>1. n \in Nat /\ DOMAIN list = 1..n /\ gone \in Nat /\ gone <= n
  OBVIOUS
<1>2. \A i \in gone + 1 .. n : list[i] \in Keys
  BY <1>1
<1>3. /\ rest \in Seq(Keys)
      /\ Len(rest) = IF gone + 1 <= n THEN n - (gone + 1) + 1 ELSE 0
      /\ \A i \in 1 .. n - (gone + 1) + 1 : rest[i] = list[(gone + 1) + i - 1]
  <2>1. gone + 1 \in Int /\ n \in Int
    BY <1>1
  <2> QED
    BY ONLY SMTT(30), <1>2, <2>1, <1>0, SubSeqProperties
<1>4. Len(rest) = n - gone /\ DOMAIN rest = 1..n - gone
  <2>1. (IF gone + 1 <= n THEN n - (gone + 1) + 1 ELSE 0) = n - gone
    <3> HIDE DEF n
    <3> QED
      BY ONLY <1>1
  <2>2. DOMAIN rest = 1..Len(rest)
    BY ONLY <1>3, LenProperties
  <2> QED
    BY <1>3, <2>1, <2>2, Zenon
<1>5. \A i \in 1..n - gone : rest[i] = list[gone + i]
  <2>1. n - (gone + 1) + 1 = n - gone
    BY <1>1
  <2>2. ASSUME NEW i \in 1..n - gone PROVE (gone + 1) + i - 1 = gone + i
    BY <1>1
  <2> QED
    BY <1>3, <2>1, <2>2
<1> HIDE DEF n
<1>6. \A i, j \in DOMAIN rest : rest[i] = rest[j] => i = j
  <2> SUFFICES ASSUME NEW i \in 1..n - gone, NEW j \in 1..n - gone, rest[i] = rest[j] PROVE i = j
    BY <1>4
  <2>1. gone + i \in 1..n /\ gone + j \in 1..n
    BY <1>1
  <2>2. list[gone + i] = list[gone + j]
    BY <1>5
  <2>3. gone + i = gone + j
    BY <1>1, <2>1, <2>2
  <2> QED
    BY <1>1, <2>3
<1>7. ASSUME NEW k PROVE (\E i \in DOMAIN rest : rest[i] = k) <=> \E i \in gone + 1 .. n : list[i] = k
  <2>1. ASSUME NEW i \in 1..n - gone PROVE gone + i \in gone + 1 .. n /\ rest[i] = list[gone + i]
    BY <1>1, <1>5
  <2>2. ASSUME NEW m \in gone + 1 .. n PROVE m - gone \in 1..n - gone /\ rest[m - gone] = list[m]
    <3>1. m - gone \in 1..n - gone /\ gone + (m - gone) = m
      BY <1>1
    <3> QED
      BY <1>5, <3>1
  <2> QED
    BY <1>4, <2>1, <2>2
<1>8. ASSUME NEW k
      PROVE  (\E i \in gone + 1 .. n : list[i] = k)
               <=> ((\A i \in 1..gone : list[i] # k) /\ \E i \in DOMAIN list : list[i] = k)
  <2>1. ASSUME NEW i \in gone + 1 .. n, NEW j \in 1..gone PROVE list[i] # list[j]
    <3>1. i \in 1..n /\ j \in 1..n /\ i # j
      BY <1>1
    <3> QED
      BY <1>1, <3>1
  <2>2. gone + 1 .. n \subseteq 1..n /\ \A i \in 1..n : i \in 1..gone \/ i \in gone + 1 .. n
    BY <1>1
  <2> QED
    BY <1>1, <2>1, <2>2
<1> QED
  <2>1. Len(rest) = Len(list) - gone
    BY <1>4 DEF n
  <2>2. \A k : (\E i \in DOMAIN rest : rest[i] = k) <=> \E i \in gone + 1 .. Len(list) : list[i] = k
    BY <1>7 DEF n
  <2>3. \A k : (\E i \in DOMAIN rest : rest[i] = k)
               <=> ((\A i \in 1..gone : list[i] # k) /\ \E i \in DOMAIN list : list[i] = k)
    BY <1>7, <1>8
  <2> QED
    BY <1>3, <1>4, <1>6, <2>1, <2>2, <2>3 DEF rest

\* A login that is in progress is for a user.
LoginsNamed == \A b \in Browsers : logins[b] # NoLogin => logins[b].username \in Users

LimiterInv == EntriesSound /\ LoginsNamed /\ Matched(failures, order) /\ Len(order) <= MaxFailures

\* remove, of any key.
LEMMA RemoveMatched ==
  ASSUME NEW entries \in [Keys -> Entry], NEW list, Matched(entries, list), NEW key
  PROVE  Matched(Without(entries, {key}), Others(list, key)) /\ Len(Others(list, key)) <= Len(list)
<1>1. \A k \in Keys : Without(entries, {key})[k].count > 0 <=> k # key /\ entries[k].count > 0
  BY DEF Without, NoFailure
<1> DEFINE rest == Others(list, key)
<1>2. list \in Seq(Keys) /\ \A i, j \in DOMAIN list : list[i] = list[j] => i = j
  BY DEF Matched
<1>3. /\ rest \in Seq(Keys) /\ Len(rest) <= Len(list)
      /\ \A i, j \in DOMAIN rest : rest[i] = rest[j] => i = j
      /\ \A k : (\E i \in DOMAIN rest : rest[i] = k) <=> k # key /\ \E i \in DOMAIN list : list[i] = k
  BY <1>2, OthersList
<1> HIDE DEF rest
<1>4. \A k \in Keys : Without(entries, {key})[k].count > 0 <=> \E i \in DOMAIN rest : rest[i] = k
  BY <1>1, <1>3 DEF Matched
<1>5. Matched(Without(entries, {key}), rest) /\ Len(rest) <= Len(list)
  BY <1>3, <1>4 DEF Matched
<1> QED
  BY <1>5 DEF rest

\* A failure counts: the last threshold is not zero.
LEMMA CountedPositive ==
  ASSUME NEW e \in Entry, NEW now
  PROVE  Counted(e, now).count > 0
<1>1. Thresholds[Len(Thresholds)] \in Nat \ {0} /\ e.count \in Nat
  BY AuthAssumption DEF Entry
<1> QED
  BY <1>1 DEF Counted

\* failed: whatever has expired and whoever makes room, the key ends up at the back
\* of the list, once.
LEMMA FailedStep ==
  ASSUME LimiterInv, NEW key \in Keys, NEW now, Failed(key, now)
  PROVE  Matched(failures', order') /\ Len(order') <= MaxFailures
<1>1. /\ failures \in [Keys -> Entry] /\ Matched(failures, order) /\ order \in Seq(Keys)
      /\ \A k \in Keys : failures[k].count > 0 <=> \E i \in DOMAIN order : order[i] = k
      /\ \A i, j \in DOMAIN order : order[i] = order[j] => i = j
      /\ Len(order) \in Nat /\ Len(order) <= MaxFailures /\ MaxFailures \in Nat \ {0}
  BY AuthAssumption DEF LimiterInv, EntriesSound, Matched
<1> DEFINE gone(n) == n + Evicted(key, n)
           front(n) == {order[i] : i \in 1..gone(n)}
<1>2. PICK n \in 0..Len(order) :
        /\ failures' = [Without(failures, front(n)) EXCEPT ![key] = Counted(@, now)]
        /\ order' = Append(Others(Rest(order, gone(n)), key), key)
  BY DEF Failed, Rest
<1> DEFINE m == gone(n)
           rest == Rest(order, m)
           list == Others(rest, key)
           kept == Without(failures, front(n))
<1>3. /\ m \in 0..Len(order)
      /\ m = n => Len(order) - n < MaxFailures \/ \E i \in n + 1 .. Len(order) : order[i] = key
      /\ m # n => m > 0
  <2>1. CASE Len(order) - n >= MaxFailures /\ \A i \in n + 1 .. Len(order) : order[i] # key
    <3>1. Evicted(key, n) = 1
      BY <2>1 DEF Evicted
    <3> QED
      BY <1>1, <2>1, <3>1
  <2>2. CASE ~(Len(order) - n >= MaxFailures /\ \A i \in n + 1 .. Len(order) : order[i] # key)
    <3>1. Evicted(key, n) = 0
      BY <2>2 DEF Evicted
    <3>2. m = n
      BY <3>1
    <3>3. Len(order) - n < MaxFailures \/ \E i \in n + 1 .. Len(order) : order[i] = key
      BY <1>1, <2>2
    <3> QED
      BY <3>2, <3>3
  <2> QED
    BY <2>1, <2>2
<1>4. /\ rest \in Seq(Keys)
      /\ Len(rest) = Len(order) - m
      /\ \A i, j \in DOMAIN rest : rest[i] = rest[j] => i = j
      /\ \A k : (\E i \in DOMAIN rest : rest[i] = k) <=> \E i \in m + 1 .. Len(order) : order[i] = k
      /\ \A k : (\E i \in DOMAIN rest : rest[i] = k)
                  <=> ((\A i \in 1..m : order[i] # k) /\ \E i \in DOMAIN order : order[i] = k)
  <2>1. m \in 0..Len(order)
    BY <1>3
  <2> HIDE DEF m
  <2> QED
    BY <1>1, <2>1, RestList, Zenon
<1> HIDE DEF rest
<1>5. /\ list \in Seq(Keys)
      /\ Len(list) <= Len(rest)
      /\ \A i, j \in DOMAIN list : list[i] = list[j] => i = j
      /\ \A k : (\E i \in DOMAIN list : list[i] = k)
                  <=> k # key /\ \E i \in DOMAIN rest : rest[i] = k
      /\ (\E i \in DOMAIN rest : rest[i] = key) => Len(list) = Len(rest) - 1
  BY <1>4, OthersList
<1>6. \A k \in Keys : kept[k].count > 0
                        <=> (\A i \in 1..m : order[i] # k) /\ \E i \in DOMAIN order : order[i] = k
  BY <1>1 DEF Without, NoFailure
<1>7. kept \in [Keys -> Entry]
  BY <1>1 DEF Without, NoFailure, Entry
<1>8. Len(list) < MaxFailures
  <2> HIDE DEF m, list
  <2>0. Len(list) \in Nat
    BY <1>5
  <2>1. CASE m # n
    BY <1>1, <1>3, <1>4, <1>5, <2>0, <2>1
  <2>2. CASE m = n /\ Len(order) - n < MaxFailures
    BY <1>1, <1>3, <1>4, <1>5, <2>0, <2>2
  <2>3. CASE m = n /\ \E i \in n + 1 .. Len(order) : order[i] = key
    <3>1. \E i \in m + 1 .. Len(order) : order[i] = key
      BY <2>3
    <3>2. Len(list) = Len(rest) - 1
      <4> HIDE DEF m, list
      <4> QED
        BY <1>4, <1>5, <3>1
    <3> QED
      BY <1>1, <1>3, <1>4, <2>0, <3>2
  <2> QED
    BY <1>3, <2>1, <2>2, <2>3
<1> HIDE DEF list, m, kept
<1>9. order' = Append(list, key) /\ failures' = [kept EXCEPT ![key] = Counted(kept[key], now)]
  BY <1>2 DEF list, m, rest, kept
<1>10. /\ order' \in Seq(Keys) /\ Len(order') = Len(list) + 1
       /\ DOMAIN order' = 1..Len(list) + 1 /\ DOMAIN list = 1..Len(list) /\ Len(list) \in Nat
       /\ \A i \in DOMAIN list : order'[i] = list[i]
       /\ order'[Len(list) + 1] = key
  BY <1>5, <1>9
<1>11. \A k : (\E i \in DOMAIN order' : order'[i] = k) <=> k = key \/ \E i \in DOMAIN list : list[i] = k
  BY <1>10
<1>12. \A i, j \in DOMAIN order' : order'[i] = order'[j] => i = j
  BY <1>5, <1>10
<1>13. \A k \in Keys : failures'[k].count > 0 <=> k = key \/ kept[k].count > 0
  BY <1>7, <1>9, CountedPositive
<1>14. \A k \in Keys : failures'[k].count > 0 <=> \E i \in DOMAIN order' : order'[i] = k
  BY <1>4, <1>5, <1>6, <1>11, <1>13
<1> QED
  BY <1>1, <1>8, <1>10, <1>12, <1>14 DEF Matched

\* A login starts with a user, and then only ends.
LEMMA NamedStep ==
  ASSUME AccountsType, LoginsNamed, [Next]_vars
  PROVE  LoginsNamed'
<1>0. logins \in [Browsers -> Attempt]
  BY DEF AccountsType
<1>1. CASE UNCHANGED logins
  BY <1>1 DEF LoginsNamed
<1>2. ASSUME NEW b \in Browsers, NEW u \in Users, NEW password \in Passwords, Login(b, u, password)
      PROVE  LoginsNamed'
  BY <1>0, <1>2 DEF Login, LoginsNamed
<1>3. ASSUME NEW b \in Browsers, logins' = [logins EXCEPT ![b] = NoLogin] PROVE LoginsNamed'
  BY <1>0, <1>3 DEF LoginsNamed
<1> QED
  BY <1>1, <1>2, <1>3 DEF Next, SetUser, RefuseLogin, FailLogin, CreateAdminSession, ChangedLogin,
                          AbortLogin, Logout, Tick, vars

\* Every step keeps the list and the map of the limiter together.
LEMMA LimiterStep ==
  ASSUME AccountsType, LimiterInv, [Next]_vars
  PROVE  LimiterInv'
<1>0. EntriesSound' /\ LoginsNamed'
  BY EntriesStep, NamedStep DEF LimiterInv
<1>1. ASSUME NEW key, Remove(key) PROVE Matched(failures', order') /\ Len(order') <= MaxFailures
  <2>1. /\ failures \in [Keys -> Entry] /\ Matched(failures, order) /\ Len(order) <= MaxFailures
        /\ failures' = Without(failures, {key}) /\ order' = Others(order, key)
    BY <1>1 DEF Remove, LimiterInv, EntriesSound
  <2>2. Matched(Without(failures, {key}), Others(order, key)) /\ Len(Others(order, key)) <= Len(order)
    BY <2>1, RemoveMatched
  <2>3. Len(order) \in Nat /\ Len(Others(order, key)) \in Nat /\ MaxFailures \in Nat
    BY <2>1, <2>2, AuthAssumption DEF Matched
  <2> QED
    BY <2>1, <2>2, <2>3
<1>2. ASSUME UNCHANGED limiter PROVE Matched(failures', order') /\ Len(order') <= MaxFailures
  BY <1>2 DEF limiter, LimiterInv
<1>3. ASSUME NEW b \in Browsers, FailLogin(b)
      PROVE  Matched(failures', order') /\ Len(order') <= MaxFailures
  <2>1. PICK now : Failed(<<Source[b], logins[b].username>>, now)
    BY <1>3 DEF FailLogin
  <2>2. <<Source[b], logins[b].username>> \in Keys
    BY <1>3 DEF FailLogin, LimiterInv, LoginsNamed, Keys
  <2> QED
    BY <2>1, <2>2, FailedStep
<1>4. Matched(failures', order') /\ Len(order') <= MaxFailures
  BY <1>1, <1>2, <1>3
     DEF Next, SetUser, Login, RefuseLogin, CreateAdminSession, ChangedLogin, AbortLogin, Logout,
         Tick, vars
<1> QED
  BY <1>0, <1>4 DEF LimiterInv, Matched

\* blocked, failed and succeeded, in any order: the limiter's list and its map have the
\* same keys, once each and within the limit, so that what failed finds at the front of
\* the list is in the map.
THEOREM LimiterStaysConsistent == Spec => []LimiterConsistent
<1>1. Init => LimiterInv
  BY AuthAssumption
     DEF Init, LimiterInv, EntriesSound, LoginsNamed, Matched, Entry, Bounded, NoFailure
<1>2. IInv /\ LimiterInv /\ [Next]_vars => IInv' /\ LimiterInv'
  BY TypeStep, SessionsStep, LimiterStep DEF IInv
<1>3. LimiterInv => LimiterConsistent
  BY DEF LimiterInv, Matched, LimiterConsistent
<1> QED
  BY <1>1, <1>2, <1>3, InvInit, PTL DEF Spec
=============================================================================
