----------------------------- MODULE RunLifecycle ------------------------------
(***************************************************************************)
(* A run from its creation to the purge of its participant data: createRun *)
(* and updateRun (internal/server/admin.go), createInvitation              *)
(* (invitations.go), join (participant.go), PurgeCandidates, PurgeRun and  *)
(* sanitizeDatabase (purge.go), and the purge command (cmd/treetest).      *)
(*                                                                         *)
(* A handler in one transaction is one action; a refused request changes   *)
(* nothing and is no step.  createInvitation reads the run and inserts the *)
(* invitation in two statements of their own, and a purge is a process of  *)
(* its own that deletes, compacts, checkpoints and marks in four: each is  *)
(* an action here, and other requests and purges run in between.           *)
(*                                                                         *)
(* Data abstraction: the slug is the run; a cell is a variant and panel    *)
(* combination; allocation_json, a shuffled list read from its front, is   *)
(* the set of cells left in it, from which any may come next.              *)
(***************************************************************************)
EXTENDS Integers, FiniteSets, FiniteSetsExt

CONSTANTS
  RunIds,           \* runs that may be created
  Participants,     \* identities that may join
  Cells,            \* variant and panel combinations, an allocation block
  Tokens,           \* random invitation tokens
  Purgers,          \* operator processes running the purge command
  Caps,             \* enrollment caps in use
  Recruitments,     \* kinds of recruitment in use
  DaysInUse,        \* retention periods in use
  InviteLifetimes,  \* expires_in_hours in use
  SessionStorage,   \* bytes join charges for a session
  EventSize,        \* bytes a participant's request adds
  MaxRunBytes,      \* maxRunEventData
  MaxTime,          \* bound on the model's clock
  Null              \* SQL NULL

ASSUME LifecycleAssumption ==
  /\ Recruitments \subseteq {"public", "invitation"}
  /\ Caps \subseteq Nat \ {0}
  /\ DaysInUse \subseteq Nat \ {0}
  /\ InviteLifetimes \subseteq Nat \ {0}
  /\ SessionStorage \in Nat /\ EventSize \in Nat /\ MaxRunBytes \in Nat
  /\ IsFiniteSet(Participants)
  /\ Null \notin Nat
  /\ Null \notin RunIds /\ Null \notin Participants

VARIABLES
  now,          \* the clock
  runs,         \* rows of runs, by run
  sessions,     \* rows of sessions
  invitations,  \* rows of invitations
  issuing,      \* createInvitation requests between their two statements
  purges,       \* the purge processes
  residue       \* deleted participant rows still present in the files

vars == <<now, runs, sessions, invitations, issuing, purges, residue>>

Statuses == {"open", "paused", "closed"}
Enrolled(r) == {s \in sessions : s.run = r}
Idle == [pc |-> "idle", run |-> Null, overdue |-> FALSE, queue |-> {}]

Init ==
  /\ now = 0
  /\ runs = [r \in {} |-> {}]
  /\ sessions = {}
  /\ invitations = {}
  /\ issuing = {}
  /\ purges = [k \in Purgers |-> Idle]
  /\ residue = {}

-----------------------------------------------------------------------------
(* The administrator. *)

\* POST /admin/api/runs.
CreateRun(r, cap, recruitment, days) ==
  /\ r \notin DOMAIN runs
  /\ runs' = [x \in DOMAIN runs \cup {r} |->
       IF x = r
       THEN [status |-> "paused", suspended |-> FALSE, created_at |-> now,
             cap |-> cap, recruitment |-> recruitment, retention_days |-> days,
             closed_at |-> Null, target |-> Null, purged |-> FALSE,
             pending |-> FALSE, allocation |-> {}, data_bytes |-> 0]
       ELSE runs[x]]
  /\ UNCHANGED <<now, sessions, invitations, issuing, purges, residue>>

\* Mutation: a run awaiting cleanup may be opened or paused.
PendingMayOpen(row, status) == ~(row.purged /\ status = "open")

\* updateRun: the status changes that a purge rules out.
MayBecome(row, status) ==
  /\ ~(row.purged /\ status = "open")
  /\ ~(row.pending /\ status \in {"open", "paused"})

\* updateRun: closed_at, kept by a run that stays closed.
ClosedAt(row, status) ==
  IF status # "closed" THEN Null
  ELSE IF row.status = "closed" /\ row.closed_at # Null THEN row.closed_at
  ELSE now

\* updateRun: the retention period, kept when the request leaves it out.
Days(row, days) == IF days # 0 THEN days ELSE row.retention_days

\* Mutation: an edit of the retention period leaves the target alone.
KeepsTarget(row, status, days) ==
  IF status # "closed" THEN Null
  ELSE IF row.status = "closed" /\ row.target # Null THEN row.target
  ELSE ClosedAt(row, status) + Days(row, days)

\* updateRun: retention_target_at; days is 0 when the request does not edit it.
Target(row, status, days) ==
  IF status # "closed" THEN Null
  ELSE IF row.status = "closed" /\ row.closed_at # Null /\ row.target # Null /\ days = 0
  THEN row.target
  ELSE ClosedAt(row, status) + Days(row, days)

\* updateRun: the row it writes.
Updated(row, status, days) ==
  LET next == IF status \in Statuses THEN status ELSE row.status
  IN  [row EXCEPT !.status = next,
                  !.suspended = IF status = "" THEN row.suspended ELSE status = "suspended",
                  !.retention_days = Days(row, days),
                  !.closed_at = ClosedAt(row, next),
                  !.target = Target(row, next, days)]

\* PATCH /admin/api/runs/{id}; "" and 0 stand for fields that are left out.
UpdateRun(r, status, days) ==
  /\ r \in DOMAIN runs
  /\ status # "" \/ days # 0
  /\ MayBecome(runs[r], status)
  /\ runs' = [runs EXCEPT ![r] = Updated(runs[r], status, days)]
  /\ UNCHANGED <<now, sessions, invitations, issuing, purges, residue>>

\* createInvitation: the run is read and its recruitment and suspension checked.
\* A token that is stored nowhere any more may be drawn again.
CheckInvitation(r, t) ==
  /\ r \in DOMAIN runs
  /\ runs[r].recruitment = "invitation"
  /\ ~runs[r].suspended
  /\ t \notin {i.token : i \in invitations \cup issuing}
  /\ issuing' = issuing \cup {[run |-> r, token |-> t]}
  /\ UNCHANGED <<now, runs, sessions, invitations, purges, residue>>

\* createInvitation: the INSERT, whatever became of the run since.
InsertInvitation(i, hours) ==
  /\ i \in issuing
  /\ issuing' = issuing \ {i}
  /\ invitations' = invitations \cup
       {[run |-> i.run, token |-> i.token, expires_at |-> now + hours, session |-> Null]}
  /\ UNCHANGED <<now, runs, sessions, purges, residue>>

\* createInvitation: the request is cancelled or the server stops in between.
LoseInvitation(i) ==
  /\ i \in issuing
  /\ issuing' = issuing \ {i}
  /\ UNCHANGED <<now, runs, sessions, invitations, purges, residue>>

-----------------------------------------------------------------------------
(* Participants. *)

\* Mutation: a used invitation enrolls again.
AnyUnexpired(r, t) ==
  {i \in invitations : i.run = r /\ i.token = t /\ i.expires_at > now}

\* join: the invitation that its UPDATE marks as used.
Redeemable(r, t) ==
  {i \in invitations : /\ i.run = r
                       /\ i.token = t
                       /\ i.session = Null
                       /\ i.expires_at > now}

\* Mutation: every enrollment draws from a fresh block.
FreshBlock(row) == Cells

\* join: the block to draw from, a fresh one when the last is used up.
Block(row) == IF row.allocation = {} THEN Cells ELSE row.allocation

\* POST /join by an identity without a session; t is its invitation token, Null
\* if it sends none. An identity with a session gets that session
\* back, which changes nothing.
Join(r, p, t) ==
  /\ r \in DOMAIN runs
  /\ ~runs[r].suspended
  /\ \A s \in Enrolled(r) : s.identity # p
  /\ runs[r].status = "open"
  /\ Cardinality(Enrolled(r)) < runs[r].cap
  /\ runs[r].data_bytes + SessionStorage <= MaxRunBytes
  /\ IF runs[r].recruitment = "invitation"
     THEN \E i \in Redeemable(r, t) :
            invitations' = (invitations \ {i}) \cup {[i EXCEPT !.session = p]}
     ELSE UNCHANGED invitations
  /\ \E c \in Block(runs[r]) :
       /\ sessions' = sessions \cup {[run |-> r, identity |-> p, cell |-> c, event_bytes |-> 0]}
       /\ runs' = [runs EXCEPT ![r].allocation = Block(runs[r]) \ {c},
                               ![r].data_bytes = @ + SessionStorage]
  /\ UNCHANGED <<now, issuing, purges, residue>>

\* Any request of module Participation that stores events: the session must be
\* there (owned), the run not suspended and within its budget (appendEvents).
Record(s) ==
  /\ s \in sessions
  /\ ~runs[s.run].suspended
  /\ runs[s.run].data_bytes + EventSize <= MaxRunBytes
  /\ sessions' = (sessions \ {s}) \cup {[s EXCEPT !.event_bytes = @ + EventSize]}
  /\ runs' = [runs EXCEPT ![s.run].data_bytes = @ + EventSize]
  /\ UNCHANGED <<now, invitations, issuing, purges, residue>>

-----------------------------------------------------------------------------
(* The purge command. *)

\* Mutation: a pending cleanup is not selected again.
OverdueOnce(r) ==
  /\ runs[r].status = "closed"
  /\ ~runs[r].purged
  /\ ~runs[r].pending
  /\ runs[r].target # Null /\ runs[r].target <= now

\* PurgeCandidates with overdueOnly.
Overdue(r) ==
  /\ runs[r].status = "closed"
  /\ ~runs[r].purged
  /\ runs[r].pending \/ (runs[r].target # Null /\ runs[r].target <= now)

\* purge --overdue --confirm: the list of candidates.
SelectOverdue(k) ==
  /\ purges[k].pc = "idle"
  /\ \E r \in DOMAIN runs : Overdue(r)
  /\ purges' = [purges EXCEPT ![k] =
       [pc |-> "selected", run |-> Null, overdue |-> TRUE,
        queue |-> {r \in DOMAIN runs : Overdue(r)}]]
  /\ UNCHANGED <<now, runs, sessions, invitations, issuing, residue>>

\* purge --run r --confirm.
SelectRun(k, r) ==
  /\ purges[k].pc = "idle"
  /\ r \in DOMAIN runs /\ runs[r].status = "closed"
  /\ purges' = [purges EXCEPT ![k] =
       [pc |-> "selected", run |-> Null, overdue |-> FALSE, queue |-> {r}]]
  /\ UNCHANGED <<now, runs, sessions, invitations, issuing, residue>>

\* Mutation: PurgeRun relies on the selection and does not read the status again.
AnyRun(r) == TRUE

\* PurgeRun: only closed runs can be purged.
Purgeable(r) == runs[r].status = "closed"

\* Deleted rows stay in free pages of the database and in the write-ahead log.
Remains(r) ==
  {[run |-> r, data |-> d, place |-> w] :
     d \in (IF Enrolled(r) = {} THEN {} ELSE {"session"}) \cup
           (IF \E i \in invitations : i.run = r THEN {"invitation"} ELSE {}),
     w \in {"page", "log"}}

\* The candidate whose turn it is: they are in order of creation.
First(k, r) ==
  r \in purges[k].queue /\ \A x \in purges[k].queue : runs[r].created_at <= runs[x].created_at

\* PurgeRun: "only closed runs can be purged" ends the command, though others are
\* waiting for their turn.
Refuse(k, r) ==
  /\ purges[k].pc = "selected"
  /\ First(k, r)
  /\ ~Purgeable(r)
  /\ purges' = [purges EXCEPT ![k] = Idle]
  /\ UNCHANGED <<now, runs, sessions, invitations, issuing, residue>>

\* PurgeRun: the transaction that deletes.
Delete(k, r) ==
  /\ purges[k].pc = "selected"
  /\ First(k, r)
  /\ Purgeable(r)
  /\ sessions' = sessions \ Enrolled(r)
  /\ invitations' = {i \in invitations : i.run # r}
  /\ runs' = [runs EXCEPT ![r].data_bytes = 0, ![r].purged = FALSE, ![r].pending = TRUE]
  /\ residue' = residue \cup Remains(r)
  /\ purges' = [purges EXCEPT ![k].pc = "deleted", ![k].run = r, ![k].queue = @ \ {r}]
  /\ UNCHANGED <<now, issuing>>

\* sanitizeDatabase: VACUUM drops the free pages of the whole database.
Vacuum(k) ==
  /\ purges[k].pc = "deleted"
  /\ residue' = {x \in residue : x.place # "page"}
  /\ purges' = [purges EXCEPT ![k].pc = "vacuumed"]
  /\ UNCHANGED <<now, runs, sessions, invitations, issuing>>

\* sanitizeDatabase: the checkpoint truncates the log, unless it is busy.
Checkpoint(k) ==
  /\ purges[k].pc = "vacuumed"
  /\ residue' = {x \in residue : x.place # "log"}
  /\ purges' = [purges EXCEPT ![k].pc = "sanitized"]
  /\ UNCHANGED <<now, runs, sessions, invitations, issuing>>

\* Mutation: a busy checkpoint is not an error.
Sloppy(k) == purges[k].pc \in {"vacuumed", "sanitized"}

\* PurgeRun: sanitizeDatabase has returned without an error.
Sanitized(k) == purges[k].pc = "sanitized"

\* PurgeRun: the last UPDATE, and on to the next candidate.
Mark(k) ==
  /\ Sanitized(k)
  /\ runs' = [runs EXCEPT ![purges[k].run].purged = TRUE, ![purges[k].run].pending = FALSE]
  /\ purges' = [purges EXCEPT ![k] =
       IF @.queue = {} THEN Idle ELSE [@ EXCEPT !.pc = "selected", !.run = Null]]
  /\ UNCHANGED <<now, sessions, invitations, issuing, residue>>

\* The command ends early: a failed VACUUM, a busy checkpoint, an error of the
\* database, or a crash.
Abort(k) ==
  /\ purges[k].pc # "idle"
  /\ purges' = [purges EXCEPT ![k] = Idle]
  /\ UNCHANGED <<now, runs, sessions, invitations, issuing, residue>>

-----------------------------------------------------------------------------
Tick ==
  /\ now < MaxTime
  /\ now' = now + 1
  /\ UNCHANGED <<runs, sessions, invitations, issuing, purges, residue>>

Administrate ==
  \/ \E r \in RunIds, cap \in Caps, k \in Recruitments, d \in DaysInUse : CreateRun(r, cap, k, d)
  \/ \E r \in RunIds, status \in Statuses \cup {"suspended", ""}, d \in DaysInUse \cup {0} :
       UpdateRun(r, status, d)
  \/ \E r \in RunIds, t \in Tokens : CheckInvitation(r, t)
  \/ \E i \in issuing, h \in InviteLifetimes : InsertInvitation(i, h)
  \/ \E i \in issuing : LoseInvitation(i)

Participate ==
  \/ \E r \in RunIds, p \in Participants, t \in Tokens \cup {Null} : Join(r, p, t)
  \/ \E s \in sessions : Record(s)

Purge(k) ==
  \/ SelectOverdue(k)
  \/ \E r \in RunIds : SelectRun(k, r)
  \/ \E r \in RunIds : Refuse(k, r)
  \/ \E r \in RunIds : Delete(k, r)
  \/ Vacuum(k)
  \/ Checkpoint(k)
  \/ Mark(k)
  \/ Abort(k)

Next ==
  \/ Administrate
  \/ Participate
  \/ \E k \in Purgers : Purge(k)
  \/ Tick

Spec == Init /\ [][Next]_vars

\* The purge that the operator keeps running; others may come and go.
Kept == CHOOSE k \in Purgers : TRUE

\* The operator keeps running purge --overdue --confirm, and no step of it fails
\* forever: README.md has a blocked cleanup retried once the other connection
\* lets go.
Fairness ==
  /\ SF_vars(SelectOverdue(Kept))
  /\ SF_vars(\E r \in RunIds : Refuse(Kept, r) \/ Delete(Kept, r))
  /\ SF_vars(Vacuum(Kept))
  /\ SF_vars(Checkpoint(Kept))
  /\ SF_vars(Mark(Kept))

FairSpec == Spec /\ Fairness

-----------------------------------------------------------------------------
(* Properties. *)

Run ==
  [status: Statuses, suspended: BOOLEAN, created_at: Nat, cap: Nat \ {0},
   recruitment: {"public", "invitation"}, retention_days: Nat \ {0},
   closed_at: Nat \cup {Null}, target: Nat \cup {Null}, purged: BOOLEAN,
   pending: BOOLEAN, allocation: SUBSET Cells, data_bytes: Nat]

Session == [run: RunIds, identity: Participants, cell: Cells, event_bytes: Nat]

Invitation ==
  [run: RunIds, token: Tokens, expires_at: Nat, session: Participants \cup {Null}]

Process ==
  [pc: {"idle", "selected", "deleted", "vacuumed", "sanitized"},
   run: RunIds \cup {Null}, overdue: BOOLEAN, queue: SUBSET RunIds]

\* Every table holds rows of its schema (db.go), and rows of a run that exists.
TypeOK ==
  /\ now \in Nat
  /\ DOMAIN runs \subseteq RunIds
  /\ runs \in [DOMAIN runs -> Run]
  /\ sessions \subseteq Session
  /\ \A s \in sessions : s.run \in DOMAIN runs
  /\ invitations \subseteq Invitation
  /\ issuing \subseteq [run: RunIds, token: Tokens]
  /\ purges \in [Purgers -> Process]
  /\ \A k \in Purgers : purges[k].queue \subseteq DOMAIN runs
  /\ residue \subseteq [run: RunIds, data: {"session", "invitation"}, place: {"page", "log"}]

\* API.md: "Pending purges cannot reopen enrollment"; updateRun: "a purged run
\* cannot be reopened".  Once a purge has deleted a run's data no session and no
\* event of it comes back, whatever requests and purges overlap.
PurgedStayEmpty ==
  \A r \in DOMAIN runs :
    /\ runs[r].pending => runs[r].status = "closed"
    /\ runs[r].purged => runs[r].status # "open"
    /\ runs[r].pending \/ runs[r].purged => Enrolled(r) = {} /\ runs[r].data_bytes = 0

\* README.md: "A purge is marked complete only after that cleanup succeeds".  No
\* deleted session is left in the files of a run that is marked as purged, even
\* when several purges interleave their steps (PurgeRun, sanitizeDatabase).
PurgedMeansClean ==
  \A r \in DOMAIN runs, x \in residue :
    runs[r].purged /\ x.run = r => x.data # "session"

\* README.md: the purge deletes "sessions, demographics, attempts, events,
\* receipts, and invitations" and "is marked complete only after that cleanup
\* succeeds" -- for all of the data it deletes.
PurgedLeavesNothing ==
  \A r \in DOMAIN runs, x \in residue : runs[r].purged => x.run # r

\* One invitation per participant of an invitation run and one participant per
\* used invitation (README.md: invitation links "are single-use"), across joins
\* that are refused after the session was inserted, late inserts and purges.
SingleUse ==
  /\ \A i, j \in invitations : i.token = j.token => i = j
  /\ \A s \in sessions : runs[s.run].recruitment = "invitation" =>
       Cardinality({i \in invitations : i.run = s.run /\ i.session = s.identity}) = 1
  /\ \A i \in invitations : i.session # Null =>
       \E s \in sessions : s.run = i.run /\ s.identity = i.session

\* README.md: "Completed blocks balance assigned exposure".  No two cells differ
\* by more than one session, and the hard enrollment cap holds (join).
BalancedAllocation ==
  \A r \in DOMAIN runs :
    LET assigned(c) == Cardinality({s \in Enrolled(r) : s.cell = c})
    IN  /\ Cardinality(Enrolled(r)) <= runs[r].cap
        /\ \A c, d \in Cells : assigned(c) <= assigned(d) + 1

\* API.md: "Retention edits use that closure time", "Reopening clears the
\* target".  A closed run, and no other, has a target, which is its closure time
\* plus its current retention period (updateRun).
RetentionAnchored ==
  \A r \in DOMAIN runs :
    IF runs[r].status = "closed"
    THEN /\ runs[r].closed_at \in 0..now
         /\ runs[r].target = runs[r].closed_at + runs[r].retention_days
    ELSE runs[r].closed_at = Null /\ runs[r].target = Null

\* API.md: "repeated close requests preserve it": nothing that leaves a run
\* closed moves its closure time (updateRun, PurgeRun).
ClosureKept ==
  [][\A r \in DOMAIN runs :
       runs[r].status = "closed" /\ runs'[r].status = "closed"
         => runs'[r].closed_at = runs[r].closed_at]_vars

\* A participant keeps session and assignment until a purge takes them, and a
\* purge takes them only from a run that is closed at that moment, though it was
\* selected earlier (PurgeRun).
KeptUntilPurged ==
  [][\A s \in sessions :
       \/ \E x \in sessions' : x.run = s.run /\ x.identity = s.identity /\ x.cell = s.cell
       \/ runs[s.run].status = "closed" /\ runs'[s.run].pending]_vars

\* main.go describes --overdue as "Select all closed runs past their retention
\* target": such a purge deletes no run that is not past its target.
OverdueOnly ==
  [][\A k \in Purgers, r \in RunIds :
       purges[k].overdue /\ purges[k].run # r /\ purges'[k].run = r => Overdue(r)]_vars

\* README.md: "`--overdue` also retries pending cleanup": under Fairness a purge
\* that was interrupted after its deletion is completed.
PendingCompletes ==
  \A r \in RunIds : (r \in DOMAIN runs /\ runs[r].pending)
                      ~> (r \in DOMAIN runs /\ runs[r].purged)

-----------------------------------------------------------------------------
(* The inductive invariant behind the properties of a purge. *)

\* A purge that has deleted works on a run that is pending, or that another
\* purge has completed in the meantime.
PurgesCommitted ==
  \A k \in Purgers : purges[k].pc \in {"deleted", "vacuumed", "sanitized"} =>
    /\ purges[k].run \in DOMAIN runs
    /\ runs[purges[k].run].pending \/ runs[purges[k].run].purged

\* What a purge has cleaned of its run stays clean: nothing can be enrolled that
\* another purge of the run would delete again.
CleanupProgress ==
  \A k \in Purgers, x \in residue :
    x.run = purges[k].run /\ x.data = "session" =>
      /\ purges[k].pc = "vacuumed" => x.place # "page"
      /\ purges[k].pc # "sanitized"

IInv == /\ TypeOK
        /\ PurgedStayEmpty
        /\ PurgedMeansClean
        /\ PurgesCommitted
        /\ CleanupProgress
        /\ RetentionAnchored
=============================================================================
