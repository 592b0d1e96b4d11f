------------------------------- MODULE AdminAuth -------------------------------
(***************************************************************************)
(* Accounts, sign-in and sessions of administrators (auth.go): SetUser,    *)
(* login with createAdminSession, logout, and the limiter of failed        *)
(* logins.                                                                 *)
(*                                                                         *)
(* login reads the account, spends a bcrypt comparison and only then opens *)
(* the transaction that creates the session: Login, then one of FailLogin, *)
(* CreateAdminSession, ChangedLogin or AbortLogin.  The limiter's failed   *)
(* reads the clock before it takes its lock: now is any time since the     *)
(* login began.                                                            *)
(*                                                                         *)
(* Data abstraction: a password hash is a password and a salt, and every   *)
(* SetUser draws a new salt.  Failures beyond the last threshold are not   *)
(* told apart.  CSRF tokens and the rate limiter in front of login are     *)
(* left out: a refused request changes nothing here.                       *)
(***************************************************************************)
EXTENDS Integers, Sequences, FiniteSets

CONSTANTS
  Users,        \* usernames
  Passwords,
  Browsers,
  Source,       \* the source network of each browser
  Tokens,       \* random session tokens
  Thresholds,   \* failures from which a login is delayed: 5, 8, 12
  Delays,       \* and for how long: 30 s, 5 min, 15 min
  MaxFailures,  \* maxLoginFailures
  FailureLife,  \* loginFailureLifetime
  SessionLife,  \* 12 hours
  MaxTime,      \* bound on the clock
  MaxSets,      \* bound on the number of account changes
  Null

ASSUME AuthAssumption ==
  /\ Thresholds \in Seq(Nat \ {0}) /\ Delays \in Seq(Nat)
  /\ Len(Thresholds) = Len(Delays) /\ Len(Delays) > 0
  /\ \A i, j \in DOMAIN Thresholds : i < j => Thresholds[i] < Thresholds[j]
  /\ MaxFailures \in Nat \ {0} /\ FailureLife \in Nat \ {0} /\ SessionLife \in Nat \ {0}
  /\ MaxTime \in Nat /\ MaxSets \in Nat
  /\ Null \notin Tokens /\ Null \notin Users

VARIABLES
  users,      \* the accounts; salt 0 for none
  salts,      \* number of account changes
  sessions,   \* rows of admin_sessions; username Null for none
  issued,     \* tokens that were drawn
  cookies,    \* the session cookie of each browser
  logins,     \* the login in progress of each browser
  failures,   \* the limiter's entries; count 0 for none
  order,      \* the limiter's list
  clock

accounts == <<users, salts>>
limiter == <<failures, order>>
vars == <<accounts, sessions, issued, cookies, logins, limiter, clock>>

Keys == {Source[b] : b \in Browsers} \X Users
NoUser == [password |-> Null, salt |-> 0, role |-> "none"]
NoSession == [username |-> Null, salt |-> 0, role |-> "none", expiresAt |-> 0]
NoLogin == [username |-> Null, password |-> Null, row |-> NoUser, oldToken |-> Null, since |-> 0]
NoFailure == [count |-> 0, until |-> 0, touched |-> 0]

Init ==
  /\ users = [u \in Users |-> NoUser]
  /\ salts = 0
  /\ sessions = [t \in Tokens |-> NoSession]
  /\ issued = {}
  /\ cookies = [b \in Browsers |-> Null]
  /\ logins = [b \in Browsers |-> NoLogin]
  /\ failures = [k \in Keys |-> NoFailure]
  /\ order = <<>>
  /\ clock = 0

-----------------------------------------------------------------------------
(* The limiter of failed logins, with its lock held. *)

Expired(entry, now) == now - entry.touched >= FailureLife

\* remove: a key is in the list once at most.
Without(entries, removed) == [k \in Keys |-> IF k \in removed THEN NoFailure ELSE entries[k]]

Others(list, key) ==
  IF \A i \in DOMAIN list : list[i] # key THEN list
  ELSE LET p == CHOOSE i \in DOMAIN list : list[i] = key
       IN  [i \in 1 .. Len(list) - 1 |-> list[IF i < p THEN i ELSE i + 1]]

Remove(key) ==
  /\ failures' = Without(failures, {key})
  /\ order' = Others(order, key)

\* failed: the first n entries of the list are those that its loop finds expired.
Stale(n, now) ==
  /\ \A i \in 1 .. n : Expired(failures[order[i]], now)
  /\ n < Len(order) => ~Expired(failures[order[n + 1]], now)

\* Mutation: no entry makes room.
NoneEvicted(key, n) == 0

\* failed: after the first n, whether one more makes room for a new entry.
Evicted(key, n) ==
  IF Len(order) - n >= MaxFailures /\ \A i \in n + 1 .. Len(order) : order[i] # key THEN 1 ELSE 0

\* The delay that a number of failures has earned: that of the last threshold
\* reached, as the thresholds ascend.
Delay(count) ==
  LET reached == {i \in DOMAIN Thresholds : count >= Thresholds[i]}
  IN  IF reached = {} THEN 0 ELSE Delays[Cardinality(reached)]

\* Mutation: delays add up.
AddsUp(entry, count, now) ==
  IF Delay(count) = 0 THEN entry.until
  ELSE (IF entry.until > now THEN entry.until ELSE now) + Delay(count)

\* failed: until when the next login has to wait.
Until(entry, count, now) == IF Delay(count) = 0 THEN entry.until ELSE now + Delay(count)

\* One more failure of an entry.
Counted(entry, now) ==
  LET count == IF entry.count < Thresholds[Len(Thresholds)] THEN entry.count + 1 ELSE entry.count
  IN  [count |-> count, until |-> Until(entry, count, now), touched |-> now]

Failed(key, now) ==
  \E n \in 0 .. Len(order) :
    LET gone == n + Evicted(key, n)
        removed == {order[i] : i \in 1 .. gone}
    IN  /\ Stale(n, now)
        /\ failures' = [Without(failures, removed) EXCEPT ![key] = Counted(@, now)]
        /\ order' = Append(Others(SubSeq(order, gone + 1, Len(order)), key), key)

\* blocked: the entry is not expired and delays a login now.
Blocked(key) == ~Expired(failures[key], clock) /\ clock < failures[key].until

-----------------------------------------------------------------------------
(* Accounts, logins and sessions. *)

\* The command that sets an account: SetUser.
SetUser(u, password, role) ==
  /\ salts < MaxSets
  /\ salts' = salts + 1
  /\ users' = [users EXCEPT ![u] = [password |-> password, salt |-> salts + 1, role |-> role]]
  /\ sessions' = [t \in Tokens |-> IF sessions[t].username = u THEN NoSession ELSE sessions[t]]
  /\ UNCHANGED <<issued, cookies, logins, limiter, clock>>

\* login up to its SELECT.
Login(b, u, password) ==
  LET key == <<Source[b], u>>
  IN  /\ logins[b] = NoLogin
      /\ ~Blocked(key)
      /\ IF failures[key].count > 0 /\ Expired(failures[key], clock)
         THEN Remove(key) ELSE UNCHANGED limiter
      /\ logins' = [logins EXCEPT ![b] =
           [username |-> u, password |-> password, row |-> users[u], oldToken |-> cookies[b],
            since |-> clock]]
      /\ UNCHANGED <<accounts, sessions, issued, cookies, clock>>

\* login: "too many requests".
RefuseLogin(b, u) ==
  /\ logins[b] = NoLogin
  /\ Blocked(<<Source[b], u>>)
  /\ UNCHANGED vars

\* bcrypt: the password is that of the row which login has read.
Verified(login) == login.row # NoUser /\ login.row.password = login.password

\* login: unknown user or wrong password.
FailLogin(b) ==
  /\ logins[b] # NoLogin
  /\ ~Verified(logins[b])
  /\ \E now \in logins[b].since .. clock : Failed(<<Source[b], logins[b].username>>, now)
  /\ logins' = [logins EXCEPT ![b] = NoLogin]
  /\ UNCHANGED <<accounts, sessions, issued, cookies, clock>>

\* Mutation: the account is not read again.
AsVerified(login) == TRUE

\* createAdminSession: the account is still what was verified.
StillThere(login) == users[login.username] = login.row

\* createAdminSession and the rest of login; the answer may get lost.
CreateAdminSession(b, t) ==
  /\ logins[b] # NoLogin
  /\ Verified(logins[b])
  /\ StillThere(logins[b])
  /\ t \notin issued
  /\ issued' = issued \cup {t}
  /\ sessions' = [s \in Tokens |->
       IF s = t THEN [username |-> logins[b].username, salt |-> logins[b].row.salt,
                      role |-> logins[b].row.role, expiresAt |-> clock + SessionLife]
       ELSE IF sessions[s].expiresAt <= clock \/ s = logins[b].oldToken THEN NoSession
       ELSE sessions[s]]
  /\ cookies' \in {cookies, [cookies EXCEPT ![b] = t]}
  /\ Remove(<<Source[b], logins[b].username>>)
  /\ logins' = [logins EXCEPT ![b] = NoLogin]
  /\ UNCHANGED <<accounts, clock>>

\* createAdminSession: "credentials changed; log in again".
ChangedLogin(b) ==
  /\ logins[b] # NoLogin
  /\ Verified(logins[b])
  /\ ~StillThere(logins[b])
  /\ logins' = [logins EXCEPT ![b] = NoLogin]
  /\ UNCHANGED <<accounts, sessions, issued, cookies, limiter, clock>>

\* login: the browser is gone (the request's context) or the database fails.
AbortLogin(b) ==
  /\ logins[b] # NoLogin
  /\ logins' = [logins EXCEPT ![b] = NoLogin]
  /\ UNCHANGED <<accounts, sessions, issued, cookies, limiter, clock>>

\* admin: the session that a request of the browser is made in.
Authenticated(b) ==
  /\ cookies[b] # Null
  /\ sessions[cookies[b]].username # Null
  /\ sessions[cookies[b]].expiresAt > clock

\* authorize and logout.
Logout(b) ==
  /\ Authenticated(b)
  /\ sessions' = [sessions EXCEPT ![cookies[b]] = NoSession]
  /\ cookies' = [cookies EXCEPT ![b] = Null]
  /\ UNCHANGED <<accounts, issued, logins, limiter, clock>>

Tick ==
  /\ clock < MaxTime
  /\ clock' = clock + 1
  /\ UNCHANGED <<accounts, sessions, issued, cookies, logins, limiter>>

Next ==
  \/ \E u \in Users, password \in Passwords, role \in {"owner", "analyst"} : SetUser(u, password, role)
  \/ \E b \in Browsers, u \in Users, password \in Passwords : Login(b, u, password)
  \/ \E b \in Browsers, u \in Users : RefuseLogin(b, u)
  \/ \E b \in Browsers : FailLogin(b)
  \/ \E b \in Browsers, t \in Tokens : CreateAdminSession(b, t)
  \/ \E b \in Browsers : ChangedLogin(b)
  \/ \E b \in Browsers : AbortLogin(b)
  \/ \E b \in Browsers : Logout(b)
  \/ Tick

Spec == Init /\ [][Next]_vars

-----------------------------------------------------------------------------
(* Properties. *)

User == [password: Passwords \cup {Null}, salt: Nat, role: {"none", "owner", "analyst"}]

Session ==
  [username: Users \cup {Null}, salt: Nat, role: {"none", "owner", "analyst"}, expiresAt: Nat]

Attempt ==
  [username: Users \cup {Null}, password: Passwords \cup {Null}, row: User,
   oldToken: Tokens \cup {Null}, since: Nat]

Entry == [count: Nat, until: Nat, touched: Nat]

\* The part of the types that is about accounts and sessions.
AccountsType ==
  /\ users \in [Users -> User]
  /\ salts \in Nat
  /\ sessions \in [Tokens -> Session]
  /\ cookies \in [Browsers -> Tokens \cup {Null}]
  /\ logins \in [Browsers -> Attempt]
  /\ clock \in Nat

\* Every row has its type, a session has a role, and a cookie is a token that was
\* drawn.
TypeOK ==
  /\ AccountsType
  /\ \A t \in Tokens : sessions[t].username # Null => sessions[t].role \in {"owner", "analyst"}
  /\ issued \subseteq Tokens
  /\ \A b \in Browsers : cookies[b] \in issued \cup {Null}
  /\ failures \in [Keys -> Entry]

\* createAdminSession: "SetUser cannot reset/revoke between this check and the
\* INSERT".  However long a login takes and whatever happens to the account
\* meanwhile, there is no session that was obtained with a password, or for a
\* role, which has since been replaced.
SessionsCurrent ==
  \A t \in Tokens :
    LET s == sessions[t]
    IN  s.username # Null => users[s.username].salt = s.salt /\ users[s.username].role = s.role

\* The list and the map of the limiter have the same keys, once each, within the
\* limit: failed follows the keys of one into the other without a check.
LimiterConsistent ==
  /\ order \in Seq(Keys)
  /\ \A k \in Keys : failures[k].count > 0 <=> \E i \in DOMAIN order : order[i] = k
  /\ \A i, j \in DOMAIN order : order[i] = order[j] => i = j
  /\ Len(order) <= MaxFailures

\* failed: "A bounded delay slows guessing without enabling a permanent-lockout
\* DoS".  However many failures pile up, together or in a row, no login has to
\* wait for longer than the longest delay.
NoLockout ==
  \A k \in Keys :
    failures[k].until > clock =>
      \E i \in DOMAIN Delays : failures[k].until <= clock + Delays[i]

-----------------------------------------------------------------------------
(* The inductive invariant. *)

\* Only a login for a user has read a row.
LoginsSound ==
  \A b \in Browsers : logins[b].username = Null => logins[b].row = NoUser

IInv == AccountsType /\ LoginsSound /\ SessionsCurrent

\* Every account, and so every row that a login has read and every session, has a role.
Roled(row) == row = NoUser \/ row.role \in {"owner", "analyst"}

RolesSound ==
  /\ \A u \in Users : Roled(users[u])
  /\ \A b \in Browsers : Roled(logins[b].row)
  /\ \A t \in Tokens : sessions[t].username # Null => sessions[t].role \in {"owner", "analyst"}

\* A browser holds the token of a session that was created.
CookiesSound ==
  issued \subseteq Tokens /\ \A b \in Browsers : cookies[b] \in issued \cup {Null}

\* The delay of an entry is one of the delays at most; NoLockout, entry by entry.
Bounded(entry) ==
  entry.until > clock => \E i \in DOMAIN Delays : entry.until <= clock + Delays[i]

EntriesSound ==
  failures \in [Keys -> Entry] /\ \A k \in Keys : Bounded(failures[k])
=============================================================================
