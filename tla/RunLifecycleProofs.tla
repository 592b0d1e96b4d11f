--------------------------- MODULE RunLifecycleProofs --------------------------
(***************************************************************************)
(* Proofs about RunLifecycle, for any number of runs, participants,        *)
(* invitations and purge processes.                                        *)
(***************************************************************************)
EXTENDS RunLifecycle, FiniteSetTheorems, TLAPS

\* What a request may say.
StatusRequests == Statuses \cup {"suspended", ""}
DayRequests == DaysInUse \cup {0}

-----------------------------------------------------------------------------
(* Type correctness. *)

LEMMA UpdatedType ==
  ASSUME now \in Nat, NEW row \in Run, NEW status \in StatusRequests, NEW days \in DayRequests
  PROVE  Updated(row, status, days) \in Run
<1> DEFINE next == IF status \in Statuses THEN status ELSE row.status
<1>1. next \in Statuses
  BY DEF Run
<1>2. Days(row, days) \in Nat \ {0}
  BY LifecycleAssumption DEF Days, DayRequests, Run
<1>3. ClosedAt(row, next) \in Nat \cup {Null}
  BY DEF ClosedAt, Run
<1>4. next = "closed" => ClosedAt(row, next) \in Nat
  BY DEF ClosedAt, Run
<1>5. Target(row, next, days) \in Nat \cup {Null}
  BY <1>2, <1>4 DEF Target, Run
<1>6. (IF status = "" THEN row.suspended ELSE status = "suspended") \in BOOLEAN
  BY DEF Run
<1> QED
  BY <1>1, <1>2, <1>3, <1>5, <1>6, ZenonT(40) DEF Updated, Run

LEMMA TypeInit == Init => TypeOK
BY DEF Init, TypeOK, Idle, Process

LEMMA TypeStep == TypeOK /\ [Next]_vars => TypeOK'
<1> SUFFICES ASSUME TypeOK, [Next]_vars PROVE TypeOK'
  OBVIOUS
<1> USE DEF TypeOK
<1>1. ASSUME NEW r \in RunIds, NEW cap \in Caps, NEW k \in Recruitments, NEW d \in DaysInUse,
             CreateRun(r, cap, k, d)
      PROVE  TypeOK'
  <2>1. [status |-> "paused", suspended |-> FALSE, created_at |-> now,
         cap |-> cap, recruitment |-> k, retention_days |-> d,
         closed_at |-> Null, target |-> Null, purged |-> FALSE,
         pending |-> FALSE, allocation |-> {}, data_bytes |-> 0] \in Run
    BY LifecycleAssumption DEF Run, Statuses
  <2>2. DOMAIN runs' = DOMAIN runs \cup {r} /\ runs' \in [DOMAIN runs' -> Run]
    BY <1>1, <2>1 DEF CreateRun
  <2> QED
    BY <1>1, <2>2 DEF CreateRun
<1>2. ASSUME NEW r \in RunIds, NEW status \in StatusRequests, NEW d \in DayRequests,
             UpdateRun(r, status, d)
      PROVE  TypeOK'
  <2>1. runs[r] \in Run /\ Updated(runs[r], status, d) \in Run
    BY <1>2, UpdatedType DEF UpdateRun
  <2>2. DOMAIN runs' = DOMAIN runs /\ runs' \in [DOMAIN runs -> Run]
    BY <1>2, <2>1 DEF UpdateRun
  <2> QED
    BY <1>2, <2>2 DEF UpdateRun
<1>3. ASSUME NEW r \in RunIds, NEW t \in Tokens, CheckInvitation(r, t) PROVE TypeOK'
  BY <1>3 DEF CheckInvitation
<1>4. ASSUME NEW i \in issuing, NEW h \in InviteLifetimes, InsertInvitation(i, h) PROVE TypeOK'
  <2>1. [run |-> i.run, token |-> i.token, expires_at |-> now + h, session |-> Null] \in Invitation
    BY LifecycleAssumption DEF Invitation
  <2> QED
    BY <1>4, <2>1 DEF InsertInvitation
<1>5. ASSUME NEW i \in issuing, LoseInvitation(i) PROVE TypeOK'
  BY <1>5 DEF LoseInvitation
<1>6. ASSUME NEW r \in RunIds, NEW p \in Participants, NEW t \in Tokens \cup {Null},
             Join(r, p, t)
      PROVE  TypeOK'
  <2>1. r \in DOMAIN runs /\ runs[r] \in Run /\ Block(runs[r]) \subseteq Cells
    BY <1>6 DEF Join, Block, Run
  <2>2. PICK c \in Block(runs[r]) :
          /\ sessions' = sessions \cup {[run |-> r, identity |-> p, cell |-> c, event_bytes |-> 0]}
          /\ runs' = [runs EXCEPT ![r].allocation = Block(runs[r]) \ {c},
                                  ![r].data_bytes = @ + SessionStorage]
    BY <1>6 DEF Join
  <2>3. DOMAIN runs' = DOMAIN runs /\ runs' \in [DOMAIN runs -> Run]
    BY <2>1, <2>2, LifecycleAssumption DEF Run
  <2>4. sessions' \subseteq Session /\ \A s \in sessions' : s.run \in DOMAIN runs
    BY <2>1, <2>2 DEF Session
  <2>5. invitations' \subseteq Invitation
    <3>1. CASE runs[r].recruitment = "invitation"
      <4>1. PICK i \in Redeemable(r, t) :
              invitations' = (invitations \ {i}) \cup {[i EXCEPT !.session = p]}
        BY <1>6, <3>1 DEF Join
      <4>2. i \in Invitation
        BY DEF Redeemable
      <4>3. [i EXCEPT !.session = p] \in Invitation
        BY <4>2 DEF Invitation
      <4> QED
        BY <4>1, <4>3
    <3>2. CASE runs[r].recruitment # "invitation"
      BY <1>6, <3>2 DEF Join
    <3> QED
      BY <3>1, <3>2
  <2> QED
    BY <1>6, <2>3, <2>4, <2>5 DEF Join
<1>7. ASSUME NEW s \in sessions, Record(s) PROVE TypeOK'
  <2>1. s \in Session /\ s.run \in DOMAIN runs /\ runs[s.run] \in Run
    BY <1>7
  <2>2. [s EXCEPT !.event_bytes = @ + EventSize] \in Session
    BY <2>1, LifecycleAssumption DEF Session
  <2>3. [s EXCEPT !.event_bytes = @ + EventSize].run = s.run
    BY <2>1 DEF Session
  <2>4. DOMAIN runs' = DOMAIN runs /\ runs' \in [DOMAIN runs -> Run]
    BY <1>7, <2>1, LifecycleAssumption, SMTT(30) DEF Record, Run
  <2> QED
    BY <1>7, <2>1, <2>2, <2>3, <2>4 DEF Record
<1>8. ASSUME NEW k \in Purgers, SelectOverdue(k) PROVE TypeOK'
  BY <1>8 DEF SelectOverdue, Process
<1>9. ASSUME NEW k \in Purgers, NEW r \in RunIds, SelectRun(k, r) PROVE TypeOK'
  BY <1>9 DEF SelectRun, Process
<1>10. ASSUME NEW k \in Purgers, NEW r \in RunIds, Delete(k, r) PROVE TypeOK'
  <2>1. r \in DOMAIN runs /\ runs[r] \in Run
    BY <1>10 DEF Delete, First
  <2>2. DOMAIN runs' = DOMAIN runs /\ runs' \in [DOMAIN runs -> Run]
    BY <1>10, <2>1 DEF Delete, Run
  <2>3. Remains(r) \subseteq
          [run: RunIds, data: {"session", "invitation"}, place: {"page", "log"}]
    BY DEF Remains
  <2>4. purges' \in [Purgers -> Process] /\ \A x \in Purgers : purges'[x].queue \subseteq DOMAIN runs
    <3>1. purges' = [purges EXCEPT ![k].pc = "deleted", ![k].run = r, ![k].queue = @ \ {r}]
      BY <1>10 DEF Delete
    <3>2. /\ purges'[k] = [purges[k] EXCEPT !.pc = "deleted", !.run = r, !.queue = @ \ {r}]
          /\ \A x \in Purgers : x # k => purges'[x] = purges[x]
          /\ DOMAIN purges' = Purgers /\ purges' = [x \in Purgers |-> purges'[x]]
      BY <3>1
    <3>3. purges'[k] \in Process /\ purges'[k].queue \subseteq DOMAIN runs
      <4>1. purges[k] \in Process /\ purges[k].queue \subseteq DOMAIN runs
        OBVIOUS
      <4>2. purges'[k] \in Process
        BY <4>1, <3>2, ZenonT(40) DEF Process
      <4>3. purges'[k].queue = purges[k].queue \ {r}
        BY <4>1, <3>2 DEF Process
      <4> QED
        BY <4>1, <4>2, <4>3
    <3> QED
      BY <3>2, <3>3
  <2> QED
    BY <1>10, <2>2, <2>3, <2>4 DEF Delete, Enrolled
<1>11. ASSUME NEW k \in Purgers, Vacuum(k) PROVE TypeOK'
  BY <1>11 DEF Vacuum, Process
<1>12. ASSUME NEW k \in Purgers, Checkpoint(k) PROVE TypeOK'
  BY <1>12 DEF Checkpoint, Process
<1>13. ASSUME NEW k \in Purgers, Mark(k) PROVE TypeOK'
  <2> DEFINE row == [runs[purges[k].run] EXCEPT !.purged = TRUE, !.pending = FALSE]
  <2>0. DOMAIN runs' = DOMAIN runs /\ runs' = [runs EXCEPT ![purges[k].run] = row]
    BY <1>13 DEF Mark
  <2>1. DOMAIN runs' = DOMAIN runs /\ runs' \in [DOMAIN runs -> Run]
    <3>1. CASE purges[k].run \in DOMAIN runs
      <4>1. runs[purges[k].run] \in Run
        BY <3>1
      <4>2. row \in Run
        BY <4>1 DEF Run
      <4> QED
        BY <2>0, <4>2
    <3>2. CASE purges[k].run \notin DOMAIN runs
      BY <2>0, <3>2
    <3> QED
      BY <3>1, <3>2
  <2>2. purges' \in [Purgers -> Process] /\ \A x \in Purgers : purges'[x].queue \subseteq DOMAIN runs
    BY <1>13, ZenonT(40) DEF Mark, Process, Idle
  <2> QED
    BY <1>13, <2>1, <2>2 DEF Mark
<1>14. ASSUME NEW k \in Purgers, Abort(k) PROVE TypeOK'
  BY <1>14 DEF Abort, Process, Idle
<1>15. CASE Tick
  BY <1>15 DEF Tick
<1>16. CASE UNCHANGED vars
  BY <1>16 DEF vars
<1>17. ASSUME NEW k \in Purgers, NEW r \in RunIds, Refuse(k, r) PROVE TypeOK'
  BY <1>17 DEF Refuse, Process, Idle
<1> QED
  BY <1>1, <1>2, <1>3, <1>4, <1>5, <1>6, <1>7, <1>8, <1>9, <1>10, <1>11, <1>12, <1>13,
     <1>14, <1>15, <1>16, <1>17
     DEF Next, Administrate, Participate, Purge, StatusRequests, DayRequests

\* Every table holds rows of its schema, and rows of a run that exists.
THEOREM TypeCorrect == Spec => []TypeOK
BY TypeInit, TypeStep, PTL DEF Spec

-----------------------------------------------------------------------------
(* What the actions do to the rows of a run. *)

LEMMA CreateEffect ==
  ASSUME TypeOK, NEW r \in RunIds, NEW cap, NEW recruitment, NEW d,
         CreateRun(r, cap, recruitment, d)
  PROVE  /\ r \notin DOMAIN runs
         /\ DOMAIN runs' = DOMAIN runs \cup {r}
         /\ \A x \in DOMAIN runs : runs'[x] = runs[x]
         /\ runs'[r].status = "paused"
         /\ ~runs'[r].pending /\ ~runs'[r].purged
         /\ runs'[r].closed_at = Null /\ runs'[r].target = Null
         /\ UNCHANGED <<now, sessions, invitations, issuing, purges, residue>>
BY DEF CreateRun

LEMMA UpdateEffect ==
  ASSUME TypeOK, NEW r \in RunIds, NEW status \in StatusRequests, NEW d \in DayRequests,
         UpdateRun(r, status, d)
  PROVE  LET next == IF status \in Statuses THEN status ELSE runs[r].status
         IN  /\ r \in DOMAIN runs
             /\ DOMAIN runs' = DOMAIN runs
             /\ \A x \in DOMAIN runs : x # r => runs'[x] = runs[x]
             /\ runs'[r].status = next
             /\ runs'[r].pending <=> runs[r].pending
             /\ runs'[r].purged <=> runs[r].purged
             /\ runs'[r].data_bytes = runs[r].data_bytes
             /\ runs'[r].retention_days = Days(runs[r], d)
             /\ runs'[r].closed_at = ClosedAt(runs[r], next)
             /\ runs'[r].target = Target(runs[r], next, d)
             /\ MayBecome(runs[r], status)
             /\ UNCHANGED <<now, sessions, invitations, issuing, purges, residue>>
<1>1. r \in DOMAIN runs /\ runs[r] \in Run
  BY DEF UpdateRun, TypeOK
<1>2. runs' = [runs EXCEPT ![r] = Updated(runs[r], status, d)]
  BY DEF UpdateRun
<1>3. /\ DOMAIN runs' = DOMAIN runs
      /\ \A x \in DOMAIN runs : x # r => runs'[x] = runs[x]
      /\ runs'[r] = Updated(runs[r], status, d)
  BY <1>1, <1>2 DEF TypeOK
<1> QED
  BY <1>1, <1>3 DEF Updated, UpdateRun, Run

\* A run that enrolls or records is neither pending nor purged, and stays so.
LEMMA JoinEffect ==
  ASSUME TypeOK, NEW r \in RunIds, NEW p \in Participants, NEW t, Join(r, p, t)
  PROVE  /\ r \in DOMAIN runs
         /\ runs[r].status = "open"
         /\ DOMAIN runs' = DOMAIN runs
         /\ \A x \in DOMAIN runs :
              /\ runs'[x].status = runs[x].status
              /\ runs'[x].pending <=> runs[x].pending
              /\ runs'[x].purged <=> runs[x].purged
              /\ runs'[x].retention_days = runs[x].retention_days
              /\ runs'[x].closed_at = runs[x].closed_at
              /\ runs'[x].target = runs[x].target
              /\ x # r => runs'[x] = runs[x]
         /\ \E c \in Cells : sessions' = sessions \cup
              {[run |-> r, identity |-> p, cell |-> c, event_bytes |-> 0]}
         /\ UNCHANGED <<now, issuing, purges, residue>>
<1>1. r \in DOMAIN runs /\ runs[r] \in Run /\ Block(runs[r]) \subseteq Cells
  BY DEF Join, Block, Run, TypeOK
<1>2. PICK c \in Block(runs[r]) :
        /\ sessions' = sessions \cup {[run |-> r, identity |-> p, cell |-> c, event_bytes |-> 0]}
        /\ runs' = [runs EXCEPT ![r].allocation = Block(runs[r]) \ {c},
                                ![r].data_bytes = @ + SessionStorage]
  BY DEF Join
<1>3. /\ DOMAIN runs' = DOMAIN runs
      /\ \A x \in DOMAIN runs : x # r => runs'[x] = runs[x]
      /\ runs'[r] = [runs[r] EXCEPT !.allocation = Block(runs[r]) \ {c},
                                    !.data_bytes = @ + SessionStorage]
  BY <1>1, <1>2 DEF TypeOK
<1>4. /\ runs'[r].status = runs[r].status
      /\ runs'[r].pending <=> runs[r].pending
      /\ runs'[r].purged <=> runs[r].purged
      /\ runs'[r].retention_days = runs[r].retention_days
      /\ runs'[r].closed_at = runs[r].closed_at
      /\ runs'[r].target = runs[r].target
  BY <1>1, <1>3 DEF Run
<1> QED
  BY <1>1, <1>2, <1>3, <1>4 DEF Join

LEMMA RecordEffect ==
  ASSUME TypeOK, NEW s \in sessions, Record(s)
  PROVE  /\ s.run \in DOMAIN runs
         /\ DOMAIN runs' = DOMAIN runs
         /\ \A x \in DOMAIN runs :
              /\ runs'[x].status = runs[x].status
              /\ runs'[x].pending <=> runs[x].pending
              /\ runs'[x].purged <=> runs[x].purged
              /\ runs'[x].retention_days = runs[x].retention_days
              /\ runs'[x].closed_at = runs[x].closed_at
              /\ runs'[x].target = runs[x].target
              /\ x # s.run => runs'[x] = runs[x]
         /\ \E y : /\ y.run = s.run /\ y.identity = s.identity /\ y.cell = s.cell
                   /\ sessions' = (sessions \ {s}) \cup {y}
         /\ UNCHANGED <<now, invitations, issuing, purges, residue>>
<1>1. s \in Session /\ s.run \in DOMAIN runs /\ runs[s.run] \in Run
  BY DEF TypeOK
<1>2. /\ DOMAIN runs' = DOMAIN runs
      /\ \A x \in DOMAIN runs : x # s.run => runs'[x] = runs[x]
      /\ runs'[s.run] = [runs[s.run] EXCEPT !.data_bytes = @ + EventSize]
  BY <1>1 DEF Record, TypeOK
<1>3. /\ runs'[s.run].status = runs[s.run].status
      /\ runs'[s.run].pending <=> runs[s.run].pending
      /\ runs'[s.run].purged <=> runs[s.run].purged
      /\ runs'[s.run].retention_days = runs[s.run].retention_days
      /\ runs'[s.run].closed_at = runs[s.run].closed_at
      /\ runs'[s.run].target = runs[s.run].target
  BY <1>1, <1>2 DEF Run
<1>4. LET y == [s EXCEPT !.event_bytes = @ + EventSize]
      IN  /\ y.run = s.run /\ y.identity = s.identity /\ y.cell = s.cell
          /\ sessions' = (sessions \ {s}) \cup {y}
  BY <1>1 DEF Record, Session
<1> QED
  BY <1>1, <1>2, <1>3, <1>4 DEF Record

LEMMA DeleteEffect ==
  ASSUME TypeOK, NEW k \in Purgers, NEW r \in RunIds, Delete(k, r)
  PROVE  /\ r \in DOMAIN runs
         /\ runs[r].status = "closed"
         /\ DOMAIN runs' = DOMAIN runs
         /\ \A x \in DOMAIN runs : x # r => runs'[x] = runs[x]
         /\ runs'[r].status = runs[r].status
         /\ runs'[r].pending /\ ~runs'[r].purged /\ runs'[r].data_bytes = 0
         /\ runs'[r].retention_days = runs[r].retention_days
         /\ runs'[r].closed_at = runs[r].closed_at
         /\ runs'[r].target = runs[r].target
         /\ sessions' = sessions \ Enrolled(r)
         /\ residue' = residue \cup Remains(r)
         /\ DOMAIN purges' = DOMAIN purges
         /\ \A x \in Purgers : x # k => purges'[x] = purges[x]
         /\ purges'[k].pc = "deleted" /\ purges'[k].run = r
         /\ UNCHANGED <<now, issuing>>
<1>1. r \in DOMAIN runs /\ runs[r] \in Run /\ purges[k] \in Process
  BY DEF Delete, First, TypeOK
<1>2. /\ DOMAIN runs' = DOMAIN runs
      /\ \A x \in DOMAIN runs : x # r => runs'[x] = runs[x]
      /\ runs'[r] = [runs[r] EXCEPT !.data_bytes = 0, !.purged = FALSE, !.pending = TRUE]
  BY <1>1 DEF Delete, TypeOK
<1>3. /\ runs'[r].status = runs[r].status
      /\ runs'[r].pending /\ ~runs'[r].purged /\ runs'[r].data_bytes = 0
      /\ runs'[r].retention_days = runs[r].retention_days
      /\ runs'[r].closed_at = runs[r].closed_at
      /\ runs'[r].target = runs[r].target
  BY <1>1, <1>2 DEF Run
<1>4. /\ DOMAIN purges' = DOMAIN purges
      /\ \A x \in Purgers : x # k => purges'[x] = purges[x]
      /\ purges'[k].pc = "deleted" /\ purges'[k].run = r
  BY <1>1 DEF Delete, TypeOK, Process
<1> QED
  BY <1>1, <1>2, <1>3, <1>4 DEF Delete, Purgeable

LEMMA MarkEffect ==
  ASSUME TypeOK, PurgesCommitted, NEW k \in Purgers, Mark(k)
  PROVE  LET r == purges[k].run
         IN  /\ purges[k].pc = "sanitized"
             /\ r \in DOMAIN runs
             /\ runs[r].pending \/ runs[r].purged
             /\ DOMAIN runs' = DOMAIN runs
             /\ \A x \in DOMAIN runs : x # r => runs'[x] = runs[x]
             /\ runs'[r].status = runs[r].status
             /\ runs'[r].purged /\ ~runs'[r].pending
             /\ runs'[r].data_bytes = runs[r].data_bytes
             /\ runs'[r].retention_days = runs[r].retention_days
             /\ runs'[r].closed_at = runs[r].closed_at
             /\ runs'[r].target = runs[r].target
             /\ \A x \in Purgers : x # k => purges'[x] = purges[x]
             /\ purges'[k].pc \in {"idle", "selected"}
             /\ UNCHANGED <<now, sessions, invitations, issuing, residue>>
<1> DEFINE r == purges[k].run
<1>1. /\ purges[k].pc = "sanitized" /\ purges[k] \in Process
      /\ r \in DOMAIN runs /\ runs[r] \in Run
      /\ runs[r].pending \/ runs[r].purged
  BY DEF Mark, Sanitized, PurgesCommitted, TypeOK
<1>2. /\ DOMAIN runs' = DOMAIN runs
      /\ \A x \in DOMAIN runs : x # r => runs'[x] = runs[x]
      /\ runs'[r] = [runs[r] EXCEPT !.purged = TRUE, !.pending = FALSE]
  BY <1>1 DEF Mark, TypeOK
<1>3. /\ runs'[r].status = runs[r].status
      /\ runs'[r].purged /\ ~runs'[r].pending
      /\ runs'[r].data_bytes = runs[r].data_bytes
      /\ runs'[r].retention_days = runs[r].retention_days
      /\ runs'[r].closed_at = runs[r].closed_at
      /\ runs'[r].target = runs[r].target
  BY <1>1, <1>2 DEF Run
<1>4. /\ \A x \in Purgers : x # k => purges'[x] = purges[x]
      /\ purges'[k].pc \in {"idle", "selected"}
  BY <1>1 DEF Mark, TypeOK, Process, Idle
<1> QED
  BY <1>1, <1>2, <1>3, <1>4 DEF Mark

-----------------------------------------------------------------------------
(* Purged data stays gone and a purged run is clean. *)

PurgeInv == PurgedStayEmpty /\ PurgedMeansClean /\ PurgesCommitted /\ CleanupProgress

LEMMA PurgeInit == Init => PurgeInv
BY DEF Init, PurgeInv, PurgedStayEmpty, PurgedMeansClean, PurgesCommitted, CleanupProgress, Idle

\* A step that leaves sessions, purges and residue alone and changes no run that
\* is pending or purged, nor makes one so.
LEMMA PurgeUntouched ==
  ASSUME PurgeInv, UNCHANGED <<sessions, purges, residue>>,
         DOMAIN runs \subseteq DOMAIN runs',
         \A x \in DOMAIN runs' :
           runs'[x].pending \/ runs'[x].purged =>
             /\ x \in DOMAIN runs
             /\ runs'[x].pending => runs[x].pending /\ runs'[x].status = "closed"
             /\ runs'[x].purged => runs[x].purged /\ runs'[x].status # "open"
             /\ runs'[x].data_bytes = runs[x].data_bytes,
         \A x \in DOMAIN runs :
           /\ runs[x].pending => runs'[x].pending
           /\ runs[x].purged => runs'[x].purged
  PROVE  PurgeInv'
<1>1. PurgedStayEmpty'
  BY DEF PurgeInv, PurgedStayEmpty, Enrolled
<1>2. PurgedMeansClean'
  BY DEF PurgeInv, PurgedMeansClean
<1>3. PurgesCommitted'
  BY DEF PurgeInv, PurgesCommitted
<1>4. CleanupProgress'
  BY DEF PurgeInv, CleanupProgress
<1> QED
  BY <1>1, <1>2, <1>3, <1>4 DEF PurgeInv

\* A step of a purge that changes nothing but its own process and residue.
LEMMA OwnStep ==
  ASSUME PurgeInv, NEW k \in Purgers, UNCHANGED <<runs, sessions>>,
         residue' \subseteq residue,
         \A x \in Purgers : x # k => purges'[x] = purges[x],
         \/ purges'[k].pc \in {"idle", "selected"}
         \/ /\ purges'[k].run = purges[k].run
            /\ purges[k].pc \in {"deleted", "vacuumed"}
            /\ purges'[k].pc \in {"vacuumed", "sanitized"}
            /\ \A x \in residue' : x.run = purges[k].run /\ x.data = "session" =>
                 /\ purges'[k].pc = "vacuumed" => x.place # "page"
                 /\ purges'[k].pc # "sanitized"
  PROVE  PurgeInv'
<1>1. PurgedStayEmpty'
  BY DEF PurgeInv, PurgedStayEmpty, Enrolled
<1>2. PurgedMeansClean'
  BY DEF PurgeInv, PurgedMeansClean
<1>3. PurgesCommitted'
  BY DEF PurgeInv, PurgesCommitted
<1>4. CleanupProgress'
  BY DEF PurgeInv, CleanupProgress
<1> QED
  BY <1>1, <1>2, <1>3, <1>4 DEF PurgeInv

LEMMA PurgeStep == TypeOK /\ PurgeInv /\ [Next]_vars => PurgeInv'
<1> SUFFICES ASSUME TypeOK, PurgeInv, [Next]_vars PROVE PurgeInv'
  OBVIOUS
<1>0. PurgedStayEmpty /\ PurgedMeansClean /\ PurgesCommitted /\ CleanupProgress
  BY DEF PurgeInv
<1>00. \A x \in DOMAIN runs : /\ runs[x].status \in Statuses
                              /\ runs[x].pending => runs[x].status = "closed"
                              /\ runs[x].purged => runs[x].status # "open"
  BY <1>0 DEF TypeOK, Run, PurgedStayEmpty
<1>1. ASSUME NEW r \in RunIds, NEW cap \in Caps, NEW k \in Recruitments, NEW d \in DaysInUse,
             CreateRun(r, cap, k, d)
      PROVE  PurgeInv'
  <2>1. /\ DOMAIN runs' = DOMAIN runs \cup {r}
        /\ \A x \in DOMAIN runs : runs'[x] = runs[x]
        /\ ~runs'[r].pending /\ ~runs'[r].purged
        /\ UNCHANGED <<sessions, purges, residue>>
    BY <1>1, CreateEffect
  <2> QED
    BY <1>00, <2>1, PurgeUntouched
<1>2. ASSUME NEW r \in RunIds, NEW status \in StatusRequests, NEW d \in DayRequests,
             UpdateRun(r, status, d)
      PROVE  PurgeInv'
  <2>1. /\ r \in DOMAIN runs
        /\ DOMAIN runs' = DOMAIN runs
        /\ \A x \in DOMAIN runs : x # r => runs'[x] = runs[x]
        /\ runs'[r].status = IF status \in Statuses THEN status ELSE runs[r].status
        /\ runs'[r].pending <=> runs[r].pending
        /\ runs'[r].purged <=> runs[r].purged
        /\ runs'[r].data_bytes = runs[r].data_bytes
        /\ MayBecome(runs[r], status)
        /\ UNCHANGED <<sessions, purges, residue>>
    BY <1>2, UpdateEffect
  <2>2. /\ runs[r].pending => runs'[r].status = "closed"
        /\ runs[r].purged => runs'[r].status # "open"
    BY <1>00, <2>1 DEF MayBecome, Statuses
  <2> QED
    BY <1>00, <2>1, <2>2, PurgeUntouched
<1>3. ASSUME NEW r \in RunIds, NEW p \in Participants, NEW t \in Tokens \cup {Null},
             Join(r, p, t)
      PROVE  PurgeInv'
  <2>1. /\ r \in DOMAIN runs
        /\ runs[r].status = "open"
        /\ DOMAIN runs' = DOMAIN runs
        /\ \A x \in DOMAIN runs : /\ runs'[x].status = runs[x].status
                                  /\ runs'[x].pending <=> runs[x].pending
                                  /\ runs'[x].purged <=> runs[x].purged
                                  /\ x # r => runs'[x] = runs[x]
        /\ \E c \in Cells : sessions' = sessions \cup
             {[run |-> r, identity |-> p, cell |-> c, event_bytes |-> 0]}
        /\ UNCHANGED <<purges, residue>>
    BY <1>3, JoinEffect
  <2>2. ~runs[r].pending /\ ~runs[r].purged
    BY <1>00, <2>1
  <2>3. \A x \in DOMAIN runs : x # r => Enrolled(x)' = Enrolled(x)
    BY <2>1 DEF Enrolled
  <2>4. PurgedStayEmpty'
    BY <1>0, <2>1, <2>2, <2>3 DEF PurgedStayEmpty
  <2>5. PurgedMeansClean'
    BY <1>0, <2>1 DEF PurgedMeansClean
  <2>6. PurgesCommitted'
    BY <1>0, <2>1 DEF PurgesCommitted
  <2>7. CleanupProgress'
    BY <1>0, <2>1 DEF CleanupProgress
  <2> QED
    BY <2>4, <2>5, <2>6, <2>7 DEF PurgeInv
<1>4. ASSUME NEW s \in sessions, Record(s) PROVE PurgeInv'
  <2>1. /\ s.run \in DOMAIN runs
        /\ DOMAIN runs' = DOMAIN runs
        /\ \A x \in DOMAIN runs : /\ runs'[x].status = runs[x].status
                                  /\ runs'[x].pending <=> runs[x].pending
                                  /\ runs'[x].purged <=> runs[x].purged
                                  /\ x # s.run => runs'[x] = runs[x]
        /\ \E y : y.run = s.run /\ sessions' = (sessions \ {s}) \cup {y}
        /\ UNCHANGED <<purges, residue>>
    BY <1>4, RecordEffect
  <2>2. ~runs[s.run].pending /\ ~runs[s.run].purged
    BY <1>0, <2>1 DEF PurgedStayEmpty, Enrolled
  <2>3. \A x \in DOMAIN runs : x # s.run => Enrolled(x)' = Enrolled(x)
    BY <2>1 DEF Enrolled
  <2>4. PurgedStayEmpty'
    BY <1>0, <2>1, <2>2, <2>3 DEF PurgedStayEmpty
  <2>5. PurgedMeansClean'
    BY <1>0, <2>1 DEF PurgedMeansClean
  <2>6. PurgesCommitted'
    BY <1>0, <2>1 DEF PurgesCommitted
  <2>7. CleanupProgress'
    BY <1>0, <2>1 DEF CleanupProgress
  <2> QED
    BY <2>4, <2>5, <2>6, <2>7 DEF PurgeInv
<1>5. ASSUME NEW k \in Purgers, NEW r \in RunIds, Delete(k, r) PROVE PurgeInv'
  <2>1. /\ r \in DOMAIN runs
        /\ runs[r].status = "closed"
        /\ DOMAIN runs' = DOMAIN runs
        /\ \A x \in DOMAIN runs : x # r => runs'[x] = runs[x]
        /\ runs'[r].status = runs[r].status
        /\ runs'[r].pending /\ ~runs'[r].purged /\ runs'[r].data_bytes = 0
        /\ sessions' = sessions \ Enrolled(r)
        /\ residue' = residue \cup Remains(r)
        /\ \A x \in Purgers : x # k => purges'[x] = purges[x]
        /\ purges'[k].pc = "deleted" /\ purges'[k].run = r
    BY <1>5, DeleteEffect
  <2>2. \A x \in Remains(r) : x.run = r /\ (x.data = "session" => Enrolled(r) # {})
    BY DEF Remains
  <2>3. PurgedStayEmpty'
    BY <1>0, <2>1 DEF PurgedStayEmpty, Enrolled
  <2>4. PurgedMeansClean'
    BY <1>0, <2>1, <2>2 DEF PurgedMeansClean
  <2>5. PurgesCommitted'
    BY <1>0, <2>1 DEF PurgesCommitted
  <2>6. CleanupProgress'
    <3> SUFFICES ASSUME NEW j \in Purgers, NEW x \in residue',
                        x.run = purges'[j].run, x.data = "session"
                 PROVE  /\ purges'[j].pc = "vacuumed" => x.place # "page"
                        /\ purges'[j].pc # "sanitized"
      BY DEF CleanupProgress
    <3>1. CASE j = k
      BY <2>1, <3>1
    <3>2. CASE j # k /\ x \in residue
      BY <1>0, <2>1, <3>2 DEF CleanupProgress
    <3>3. CASE j # k /\ x \in Remains(r)
      <4>1. Enrolled(r) # {} /\ purges[j].run = r
        BY <2>1, <2>2, <3>3
      <4>2. ~runs[r].pending /\ ~runs[r].purged
        BY <1>0, <2>1, <4>1 DEF PurgedStayEmpty
      <4>3. purges[j].pc \notin {"deleted", "vacuumed", "sanitized"}
        BY <1>0, <4>1, <4>2 DEF PurgesCommitted
      <4> QED
        BY <2>1, <3>3, <4>3
    <3> QED
      BY <2>1, <3>1, <3>2, <3>3
  <2> QED
    BY <2>3, <2>4, <2>5, <2>6 DEF PurgeInv
<1>6. ASSUME NEW k \in Purgers, Mark(k) PROVE PurgeInv'
  <2> DEFINE r == purges[k].run
  <2>1. /\ purges[k].pc = "sanitized"
        /\ r \in DOMAIN runs
        /\ runs[r].pending \/ runs[r].purged
        /\ DOMAIN runs' = DOMAIN runs
        /\ \A x \in DOMAIN runs : x # r => runs'[x] = runs[x]
        /\ runs'[r].status = runs[r].status
        /\ runs'[r].purged /\ ~runs'[r].pending
        /\ runs'[r].data_bytes = runs[r].data_bytes
        /\ \A x \in Purgers : x # k => purges'[x] = purges[x]
        /\ purges'[k].pc \in {"idle", "selected"}
        /\ UNCHANGED <<sessions, residue>>
    BY <1>0, <1>6, MarkEffect
  <2>2. PurgedStayEmpty'
    BY <1>0, <1>00, <2>1 DEF PurgedStayEmpty, Enrolled
  <2>3. PurgedMeansClean'
    BY <1>0, <2>1 DEF PurgedMeansClean, CleanupProgress
  <2>4. PurgesCommitted'
    BY <1>0, <2>1 DEF PurgesCommitted
  <2>5. CleanupProgress'
    BY <1>0, <2>1 DEF CleanupProgress
  <2> QED
    BY <2>2, <2>3, <2>4, <2>5 DEF PurgeInv
<1>7. ASSUME NEW k \in Purgers, SelectOverdue(k) PROVE PurgeInv'
  BY <1>7, OwnStep DEF SelectOverdue, TypeOK
<1>8. ASSUME NEW k \in Purgers, NEW r \in RunIds, SelectRun(k, r) PROVE PurgeInv'
  BY <1>8, OwnStep DEF SelectRun, TypeOK
<1>9. ASSUME NEW k \in Purgers, Abort(k) PROVE PurgeInv'
  BY <1>9, OwnStep DEF Abort, TypeOK, Idle
<1>10. ASSUME NEW k \in Purgers, Vacuum(k) PROVE PurgeInv'
  <2>1. /\ purges[k].pc = "deleted"
        /\ residue' \subseteq residue /\ \A x \in residue' : x.place # "page"
        /\ \A x \in Purgers : x # k => purges'[x] = purges[x]
        /\ purges'[k].pc = "vacuumed" /\ purges'[k].run = purges[k].run
        /\ UNCHANGED <<runs, sessions>>
    BY <1>10 DEF Vacuum, TypeOK, Process
  <2> QED
    BY <2>1, OwnStep
<1>11. ASSUME NEW k \in Purgers, Checkpoint(k) PROVE PurgeInv'
  <2>1. /\ purges[k].pc = "vacuumed"
        /\ residue' \subseteq residue /\ \A x \in residue' : x.place # "log"
        /\ \A x \in Purgers : x # k => purges'[x] = purges[x]
        /\ purges'[k].pc = "sanitized" /\ purges'[k].run = purges[k].run
        /\ UNCHANGED <<runs, sessions>>
    BY <1>11 DEF Checkpoint, TypeOK, Process
  <2>2. \A x \in residue' : x.place = "page"
    BY <2>1 DEF TypeOK
  <2>3. \A x \in residue' : ~(x.run = purges[k].run /\ x.data = "session")
    BY <1>0, <2>1, <2>2 DEF CleanupProgress
  <2> QED
    BY <2>1, <2>3, OwnStep
<1>12. CASE UNCHANGED <<runs, sessions, purges, residue>>
  BY <1>00, <1>12, PurgeUntouched
<1>13. ASSUME NEW k \in Purgers, NEW r \in RunIds, Refuse(k, r) PROVE PurgeInv'
  BY <1>13, OwnStep DEF Refuse, TypeOK, Idle
<1> QED
  BY <1>1, <1>2, <1>3, <1>4, <1>5, <1>6, <1>7, <1>8, <1>9, <1>10, <1>11, <1>12, <1>13
     DEF Next, Administrate, Participate, Purge, StatusRequests, DayRequests, vars, Tick,
         CheckInvitation, InsertInvitation, LoseInvitation

\* Once a purge has deleted a run's data, nothing of it comes back.
THEOREM NoReturn == Spec => []PurgedStayEmpty
<1>1. TypeOK /\ PurgeInv /\ [Next]_vars => TypeOK' /\ PurgeInv'
  BY TypeStep, PurgeStep
<1> QED
  BY <1>1, TypeInit, PurgeInit, PTL DEF Spec, PurgeInv

\* A run is marked as purged only when no deleted session is left in the files.
THEOREM CleanWhenMarked == Spec => []PurgedMeansClean
<1>1. TypeOK /\ PurgeInv /\ [Next]_vars => TypeOK' /\ PurgeInv'
  BY TypeStep, PurgeStep
<1> QED
  BY <1>1, TypeInit, PurgeInit, PTL DEF Spec, PurgeInv

-----------------------------------------------------------------------------
(* The retention target and the closure it is anchored to. *)

SameRetention(x) ==
  /\ runs'[x].status = runs[x].status
  /\ runs'[x].retention_days = runs[x].retention_days
  /\ runs'[x].closed_at = runs[x].closed_at
  /\ runs'[x].target = runs[x].target

Reset(x) ==
  runs'[x].status = "paused" /\ runs'[x].closed_at = Null /\ runs'[x].target = Null

Edited(x) ==
  \E next \in Statuses, d \in DayRequests :
    /\ runs'[x].status = next
    /\ runs'[x].retention_days = Days(runs[x], d)
    /\ runs'[x].closed_at = ClosedAt(runs[x], next)
    /\ runs'[x].target = Target(runs[x], next, d)

\* A run comes into being paused, and only updateRun changes its retention.
LEMMA RetentionEffect ==
  ASSUME TypeOK, PurgesCommitted, [Next]_vars
  PROVE  /\ now' \in Nat /\ now <= now'
         /\ DOMAIN runs \subseteq DOMAIN runs'
         /\ \A x \in DOMAIN runs' : IF x \in DOMAIN runs THEN SameRetention(x) \/ Edited(x)
                                                         ELSE Reset(x)
<1> DEFINE Goal == /\ now' \in Nat /\ now <= now'
                   /\ DOMAIN runs \subseteq DOMAIN runs'
                   /\ \A x \in DOMAIN runs' :
                        IF x \in DOMAIN runs THEN SameRetention(x) \/ Edited(x) ELSE Reset(x)
<1>0. now \in Nat /\ now <= now /\ now <= now + 1 /\ now + 1 \in Nat
  BY DEF TypeOK
<1>1. ASSUME NEW r \in RunIds, NEW cap \in Caps, NEW k \in Recruitments, NEW d \in DaysInUse,
             CreateRun(r, cap, k, d)
      PROVE  Goal
  <2>1. /\ DOMAIN runs' = DOMAIN runs \cup {r}
        /\ \A x \in DOMAIN runs : runs'[x] = runs[x]
        /\ runs'[r].status = "paused" /\ runs'[r].closed_at = Null /\ runs'[r].target = Null
        /\ now' = now
    BY <1>1, CreateEffect
  <2> QED
    BY <1>0, <2>1 DEF SameRetention, Reset
<1>2. ASSUME NEW r \in RunIds, NEW status \in StatusRequests, NEW d \in DayRequests,
             UpdateRun(r, status, d)
      PROVE  Goal
  <2> DEFINE next == IF status \in Statuses THEN status ELSE runs[r].status
  <2>1. /\ r \in DOMAIN runs
        /\ DOMAIN runs' = DOMAIN runs
        /\ \A x \in DOMAIN runs : x # r => runs'[x] = runs[x]
        /\ runs'[r].status = next
        /\ runs'[r].retention_days = Days(runs[r], d)
        /\ runs'[r].closed_at = ClosedAt(runs[r], next)
        /\ runs'[r].target = Target(runs[r], next, d)
        /\ now' = now
    BY <1>2, UpdateEffect
  <2>2. next \in Statuses
    BY <2>1 DEF TypeOK, Run
  <2>3. Edited(r)
    BY <2>1, <2>2 DEF Edited
  <2> QED
    BY <1>0, <2>1, <2>3 DEF SameRetention
<1>3. ASSUME NEW r \in RunIds, NEW p \in Participants, NEW t \in Tokens \cup {Null},
             Join(r, p, t)
      PROVE  Goal
  BY <1>0, <1>3, JoinEffect DEF SameRetention
<1>4. ASSUME NEW s \in sessions, Record(s) PROVE Goal
  BY <1>0, <1>4, RecordEffect DEF SameRetention
<1>5. ASSUME NEW k \in Purgers, NEW r \in RunIds, Delete(k, r) PROVE Goal
  BY <1>0, <1>5, DeleteEffect DEF SameRetention
<1>6. ASSUME NEW k \in Purgers, Mark(k) PROVE Goal
  BY <1>0, <1>6, MarkEffect DEF SameRetention
<1>7. CASE UNCHANGED runs /\ (now' = now \/ now' = now + 1)
  BY <1>0, <1>7 DEF SameRetention
<1> QED
  BY <1>1, <1>2, <1>3, <1>4, <1>5, <1>6, <1>7
     DEF Next, Administrate, Participate, Purge, StatusRequests, DayRequests, vars, Tick,
         CheckInvitation, InsertInvitation, LoseInvitation, SelectOverdue, SelectRun,
         Refuse, Vacuum, Checkpoint, Abort

LEMMA RetentionStep ==
  ASSUME TypeOK, PurgesCommitted, RetentionAnchored, [Next]_vars
  PROVE  /\ RetentionAnchored'
         /\ \A x \in DOMAIN runs : runs[x].status = "closed" /\ runs'[x].status = "closed"
                                     => runs'[x].closed_at = runs[x].closed_at
<1>1. /\ now' \in Nat /\ now <= now' /\ now \in Nat
      /\ DOMAIN runs \subseteq DOMAIN runs'
      /\ \A x \in DOMAIN runs' : IF x \in DOMAIN runs THEN SameRetention(x) \/ Edited(x)
                                                      ELSE Reset(x)
  BY RetentionEffect DEF TypeOK
<1>2. \A x \in DOMAIN runs : runs[x] \in Run
  BY DEF TypeOK
<1>3. ASSUME NEW x \in DOMAIN runs, Edited(x)
      PROVE  IF runs'[x].status = "closed"
             THEN /\ runs'[x].closed_at \in 0..now'
                  /\ runs'[x].target = runs'[x].closed_at + runs'[x].retention_days
                  /\ runs[x].status = "closed" => runs'[x].closed_at = runs[x].closed_at
             ELSE runs'[x].closed_at = Null /\ runs'[x].target = Null
  <2>1. PICK next \in Statuses, d \in DayRequests :
          /\ runs'[x].status = next
          /\ runs'[x].retention_days = Days(runs[x], d)
          /\ runs'[x].closed_at = ClosedAt(runs[x], next)
          /\ runs'[x].target = Target(runs[x], next, d)
    BY <1>3 DEF Edited
  <2>2. CASE next # "closed"
    BY <2>1, <2>2 DEF ClosedAt, Target
  <2>3. CASE next = "closed" /\ runs[x].status = "closed"
    <3>1. /\ runs[x].closed_at \in 0..now /\ runs[x].closed_at \in Nat
          /\ runs[x].target = runs[x].closed_at + runs[x].retention_days
          /\ runs[x].retention_days \in Nat
      BY <1>2, <2>3 DEF RetentionAnchored, Run
    <3>2. runs[x].closed_at # Null /\ runs[x].target # Null
      BY <3>1, LifecycleAssumption
    <3>3. ClosedAt(runs[x], next) = runs[x].closed_at
      BY <2>3, <3>2 DEF ClosedAt
    <3>4. Target(runs[x], next, d) = runs[x].closed_at + Days(runs[x], d)
      BY <2>3, <3>1, <3>2, <3>3 DEF Target, Days
    <3> QED
      BY <1>1, <2>1, <2>3, <3>1, <3>3, <3>4
  <2>4. CASE next = "closed" /\ runs[x].status # "closed"
    <3>1. ClosedAt(runs[x], next) = now
      BY <2>4 DEF ClosedAt
    <3>2. Target(runs[x], next, d) = now + Days(runs[x], d)
      BY <2>4, <3>1 DEF Target
    <3> QED
      BY <1>1, <2>1, <2>4, <3>1, <3>2
  <2> QED
    BY <2>2, <2>3, <2>4
<1>4. ASSUME NEW x \in DOMAIN runs, SameRetention(x)
      PROVE  IF runs'[x].status = "closed"
             THEN /\ runs'[x].closed_at \in 0..now'
                  /\ runs'[x].target = runs'[x].closed_at + runs'[x].retention_days
             ELSE runs'[x].closed_at = Null /\ runs'[x].target = Null
  <2>1. runs[x].closed_at \in 0..now => runs[x].closed_at \in 0..now'
    BY <1>1
  <2> QED
    BY <1>4, <2>1 DEF SameRetention, RetentionAnchored
<1>5. RetentionAnchored'
  BY <1>1, <1>3, <1>4 DEF RetentionAnchored, Reset
<1> QED
  BY <1>1, <1>3, <1>5 DEF SameRetention

LEMMA Inductive == TypeOK /\ PurgeInv /\ RetentionAnchored /\ [Next]_vars
                     => TypeOK' /\ PurgeInv' /\ RetentionAnchored'
<1> SUFFICES ASSUME TypeOK, PurgeInv, RetentionAnchored, [Next]_vars
             PROVE  TypeOK' /\ PurgeInv' /\ RetentionAnchored'
  OBVIOUS
<1>1. PurgesCommitted
  BY DEF PurgeInv
<1> QED
  BY <1>1, TypeStep, PurgeStep, RetentionStep

LEMMA RetentionInit == Init => RetentionAnchored
BY DEF Init, RetentionAnchored

\* A closed run, and no other, has a retention target: its closure time plus its
\* current retention period.
THEOREM TargetsAnchored == Spec => []RetentionAnchored
BY Inductive, TypeInit, PurgeInit, RetentionInit, PTL DEF Spec

\* The inductive invariant of the module holds in every state.
THEOREM Invariance == Spec => []IInv
<1>1. TypeOK /\ PurgeInv /\ RetentionAnchored => IInv
  BY DEF PurgeInv, IInv
<1> QED
  BY <1>1, Inductive, TypeInit, PurgeInit, RetentionInit, PTL DEF Spec

\* No step that leaves a run closed moves its closure time.
THEOREM ClosuresKept == Spec => ClosureKept
<1>1. TypeOK /\ PurgeInv /\ RetentionAnchored /\ [Next]_vars =>
        [\A r \in DOMAIN runs : runs[r].status = "closed" /\ runs'[r].status = "closed"
                                  => runs'[r].closed_at = runs[r].closed_at]_vars
  BY RetentionStep, SMTT(30) DEF PurgeInv
<1> QED
  BY <1>1, Inductive, TypeInit, PurgeInit, RetentionInit, PTL DEF Spec, ClosureKept

-----------------------------------------------------------------------------
(* Sessions are kept until their run is purged. *)

LEMMA KeptStep ==
  ASSUME TypeOK, [Next]_vars
  PROVE  \A s \in sessions :
           \/ \E x \in sessions' : x.run = s.run /\ x.identity = s.identity /\ x.cell = s.cell
           \/ runs[s.run].status = "closed" /\ runs'[s.run].pending
<1> DEFINE Goal ==
      \A s \in sessions :
        \/ \E x \in sessions' : x.run = s.run /\ x.identity = s.identity /\ x.cell = s.cell
        \/ runs[s.run].status = "closed" /\ runs'[s.run].pending
<1>1. ASSUME NEW r \in RunIds, NEW p \in Participants, NEW t \in Tokens \cup {Null},
             Join(r, p, t)
      PROVE  Goal
  <2>1. sessions \subseteq sessions'
    BY <1>1, JoinEffect
  <2> QED
    BY <2>1
<1>2. ASSUME NEW s \in sessions, Record(s) PROVE Goal
  <2>1. PICK y : /\ y.run = s.run /\ y.identity = s.identity /\ y.cell = s.cell
                 /\ sessions' = (sessions \ {s}) \cup {y}
    BY <1>2, RecordEffect
  <2> QED
    BY <2>1
<1>3. ASSUME NEW k \in Purgers, NEW r \in RunIds, Delete(k, r) PROVE Goal
  <2>1. /\ runs[r].status = "closed" /\ runs'[r].pending
        /\ sessions' = sessions \ Enrolled(r)
    BY <1>3, DeleteEffect
  <2> QED
    BY <2>1 DEF Enrolled
<1>4. CASE UNCHANGED sessions
  BY <1>4
<1> QED
  BY <1>1, <1>2, <1>3, <1>4
     DEF Next, Administrate, Participate, Purge, vars, Tick, CreateRun, UpdateRun,
         CheckInvitation, InsertInvitation, LoseInvitation, SelectOverdue, SelectRun,
         Refuse, Vacuum, Checkpoint, Mark, Abort

\* A session and its assignment go only with a purge of a run that is closed.
THEOREM SessionsKept == Spec => KeptUntilPurged
<1>1. TypeOK /\ [Next]_vars =>
        [\A s \in sessions :
           \/ \E x \in sessions' : x.run = s.run /\ x.identity = s.identity /\ x.cell = s.cell
           \/ runs[s.run].status = "closed" /\ runs'[s.run].pending]_vars
  BY KeptStep
<1> QED
  BY <1>1, TypeInit, TypeStep, PTL DEF Spec, KeptUntilPurged

-----------------------------------------------------------------------------
(* Invitations and enrollment. *)

\* The columns createRun sets and no later edit touches.
SameTerms(x) ==
  /\ runs'[x].cap = runs[x].cap
  /\ runs'[x].recruitment = runs[x].recruitment

\* What one enrollment writes.
Enrolls(r, p, t, c) ==
  /\ r \in DOMAIN runs
  /\ \A s \in Enrolled(r) : s.identity # p
  /\ runs[r].status = "open"
  /\ Cardinality(Enrolled(r)) < runs[r].cap
  /\ c \in Block(runs[r])
  /\ sessions' = sessions \cup {[run |-> r, identity |-> p, cell |-> c, event_bytes |-> 0]}
  /\ DOMAIN runs' = DOMAIN runs
  /\ \A x \in DOMAIN runs : SameTerms(x) /\ (x # r => runs'[x] = runs[x])
  /\ runs'[r].allocation = Block(runs[r]) \ {c}
  /\ IF runs[r].recruitment = "invitation"
     THEN \E i \in Redeemable(r, t) :
            invitations' = (invitations \ {i}) \cup {[i EXCEPT !.session = p]}
     ELSE invitations' = invitations
  /\ issuing' = issuing

LEMMA EnrollEffect ==
  ASSUME TypeOK, NEW r \in RunIds, NEW p \in Participants, NEW t, Join(r, p, t)
  PROVE  \E c \in Cells : Enrolls(r, p, t, c)
<1>1. r \in DOMAIN runs /\ runs[r] \in Run /\ Block(runs[r]) \subseteq Cells
  BY DEF Join, Block, Run, TypeOK
<1>2. PICK c \in Block(runs[r]) :
        /\ sessions' = sessions \cup {[run |-> r, identity |-> p, cell |-> c, event_bytes |-> 0]}
        /\ runs' = [runs EXCEPT ![r].allocation = Block(runs[r]) \ {c},
                                ![r].data_bytes = @ + SessionStorage]
  BY DEF Join
<1>3. /\ DOMAIN runs' = DOMAIN runs
      /\ \A x \in DOMAIN runs : x # r => runs'[x] = runs[x]
      /\ runs'[r] = [runs[r] EXCEPT !.allocation = Block(runs[r]) \ {c},
                                    !.data_bytes = @ + SessionStorage]
  BY <1>1, <1>2 DEF TypeOK
<1>4. SameTerms(r) /\ runs'[r].allocation = Block(runs[r]) \ {c}
  BY <1>1, <1>3 DEF Run, SameTerms
<1>5. \A x \in DOMAIN runs : SameTerms(x)
  BY <1>3, <1>4 DEF SameTerms
<1>6. IF runs[r].recruitment = "invitation"
      THEN \E i \in Redeemable(r, t) :
             invitations' = (invitations \ {i}) \cup {[i EXCEPT !.session = p]}
      ELSE invitations' = invitations
  BY DEF Join
<1> QED
  BY <1>1, <1>2, <1>3, <1>4, <1>5, <1>6 DEF Join, Enrolls

\* Nothing else changes those columns, the allocation or a session's place.
LEMMA TermsKept ==
  ASSUME TypeOK, PurgesCommitted, [Next]_vars,
         ~ \E r \in RunIds, p \in Participants, t \in Tokens \cup {Null} : Join(r, p, t)
  PROVE  /\ DOMAIN runs \subseteq DOMAIN runs'
         /\ \A x \in DOMAIN runs : SameTerms(x) /\ runs'[x].allocation = runs[x].allocation
<1> DEFINE Goal == /\ DOMAIN runs \subseteq DOMAIN runs'
                   /\ \A x \in DOMAIN runs :
                        SameTerms(x) /\ runs'[x].allocation = runs[x].allocation
<1>0. \A x \in DOMAIN runs : runs[x] \in Run
  BY DEF TypeOK
<1>1. ASSUME NEW r \in RunIds, NEW cap \in Caps, NEW k \in Recruitments, NEW d \in DaysInUse,
             CreateRun(r, cap, k, d)
      PROVE  Goal
  BY <1>1, CreateEffect DEF SameTerms
<1>2. ASSUME NEW r \in RunIds, NEW status \in StatusRequests, NEW d \in DayRequests,
             UpdateRun(r, status, d)
      PROVE  Goal
  <2>1. /\ r \in DOMAIN runs
        /\ runs' = [runs EXCEPT ![r] = Updated(runs[r], status, d)]
    BY <1>2 DEF UpdateRun
  <2>2. /\ Updated(runs[r], status, d).cap = runs[r].cap
        /\ Updated(runs[r], status, d).recruitment = runs[r].recruitment
        /\ Updated(runs[r], status, d).allocation = runs[r].allocation
    BY <1>0, <2>1 DEF Updated, Run
  <2> QED
    BY <2>1, <2>2 DEF TypeOK, SameTerms
<1>3. ASSUME NEW s \in sessions, Record(s) PROVE Goal
  <2>1. s.run \in DOMAIN runs /\ runs' = [runs EXCEPT ![s.run].data_bytes = @ + EventSize]
    BY <1>3 DEF Record, TypeOK
  <2> QED
    BY <1>0, <2>1 DEF TypeOK, SameTerms, Run
<1>4. ASSUME NEW k \in Purgers, NEW r \in RunIds, Delete(k, r) PROVE Goal
  <2>1. /\ r \in DOMAIN runs
        /\ runs' = [runs EXCEPT ![r].data_bytes = 0, ![r].purged = FALSE, ![r].pending = TRUE]
    BY <1>4 DEF Delete, First, TypeOK
  <2> QED
    BY <1>0, <2>1 DEF TypeOK, SameTerms, Run
<1>5. ASSUME NEW k \in Purgers, Mark(k) PROVE Goal
  <2>1. /\ purges[k].run \in DOMAIN runs
        /\ runs' = [runs EXCEPT ![purges[k].run].purged = TRUE, ![purges[k].run].pending = FALSE]
    BY <1>5, MarkEffect DEF Mark
  <2> QED
    BY <1>0, <2>1, SMTT(30) DEF TypeOK, SameTerms, Run
<1>6. CASE UNCHANGED runs
  BY <1>6 DEF SameTerms
<1> QED
  BY <1>1, <1>2, <1>3, <1>4, <1>5, <1>6
     DEF Next, Administrate, Participate, Purge, StatusRequests, DayRequests, vars, Tick,
         CheckInvitation, InsertInvitation, LoseInvitation, SelectOverdue, SelectRun,
         Refuse, Vacuum, Checkpoint, Abort

\* A token names one invitation, issued or being issued.
TokensUnique ==
  /\ \A i, j \in invitations : i.token = j.token => i = j
  /\ \A i, j \in issuing : i.token = j.token => i = j
  /\ \A i \in invitations, j \in issuing : i.token # j.token

\* A used invitation is the only one of its participant.
OneEach ==
  \A i, j \in invitations :
    i.session # Null /\ i.run = j.run /\ i.session = j.session => i = j

\* Used invitations and the sessions of invitation runs belong together.
UsesMatch ==
  /\ \A s \in sessions : runs[s.run].recruitment = "invitation" =>
       \E i \in invitations : i.run = s.run /\ i.session = s.identity
  /\ \A i \in invitations : i.session # Null =>
       \E s \in sessions : s.run = i.run /\ s.identity = i.session

InviteInv == TokensUnique /\ OneEach /\ UsesMatch

LEMMA InviteJoin ==
  ASSUME TypeOK, InviteInv, NEW r \in RunIds, NEW p \in Participants, NEW t, NEW c,
         Enrolls(r, p, t, c)
  PROVE  InviteInv'
<1> DEFINE new == [run |-> r, identity |-> p, cell |-> c, event_bytes |-> 0]
<1>0. TokensUnique /\ OneEach /\ UsesMatch /\ p # Null
  BY LifecycleAssumption DEF InviteInv
<1>1. /\ sessions' = sessions \cup {new} /\ issuing' = issuing
      /\ \A x \in DOMAIN runs : runs'[x].recruitment = runs[x].recruitment
      /\ \A s \in sessions : s.run \in DOMAIN runs
      /\ r \in DOMAIN runs
  BY DEF Enrolls, SameTerms, TypeOK
<1>2. \A i \in invitations : ~(i.run = r /\ i.session = p)
  BY <1>0 DEF Enrolls, Enrolled, UsesMatch
<1>3. CASE runs[r].recruitment = "invitation"
  <2>1. PICK i \in Redeemable(r, t) :
          invitations' = (invitations \ {i}) \cup {[i EXCEPT !.session = p]}
    BY <1>3 DEF Enrolls
  <2> DEFINE used == [i EXCEPT !.session = p]
  <2>2. i \in invitations /\ i \in Invitation /\ i.run = r /\ i.session = Null
    BY DEF Redeemable, TypeOK
  <2>3. used.run = r /\ used.token = i.token /\ used.session = p
    BY <2>2 DEF Invitation
  <2> HIDE DEF used
  <2>4. invitations' = (invitations \ {i}) \cup {used}
    BY <2>1 DEF used
  <2>5. TokensUnique'
    BY <1>0, <1>1, <2>2, <2>3, <2>4 DEF TokensUnique
  <2>6. OneEach'
    BY <1>0, <1>2, <2>2, <2>3, <2>4 DEF OneEach
  <2>7. \A s \in sessions' : runs'[s.run].recruitment = "invitation" =>
          \E j \in invitations' : j.run = s.run /\ j.session = s.identity
    <3> SUFFICES ASSUME NEW s \in sessions', runs'[s.run].recruitment = "invitation"
                 PROVE  \E j \in invitations' : j.run = s.run /\ j.session = s.identity
      OBVIOUS
    <3>1. CASE s = new
      BY <2>3, <2>4, <3>1
    <3>2. CASE s \in sessions
      <4>1. PICK j \in invitations : j.run = s.run /\ j.session = s.identity
        BY <1>0, <1>1, <3>2 DEF UsesMatch
      <4>2. s.identity # Null
        BY <3>2, LifecycleAssumption DEF TypeOK, Session
      <4> QED
        BY <2>2, <2>4, <4>1, <4>2
    <3> QED
      BY <1>1, <3>1, <3>2
  <2>8. \A j \in invitations' : j.session # Null =>
          \E s \in sessions' : s.run = j.run /\ s.identity = j.session
    <3>1. new \in sessions' /\ new.run = r /\ new.identity = p
      BY <1>1
    <3> HIDE DEF new
    <3> QED
      BY <1>0, <1>1, <2>3, <2>4, <3>1 DEF UsesMatch
  <2> QED
    BY <2>5, <2>6, <2>7, <2>8 DEF InviteInv, UsesMatch
<1>4. CASE runs[r].recruitment # "invitation"
  <2>1. invitations' = invitations
    BY <1>4 DEF Enrolls
  <2>2. UsesMatch'
    BY <1>0, <1>1, <1>4, <2>1 DEF UsesMatch
  <2> QED
    BY <1>0, <1>1, <2>1, <2>2 DEF InviteInv, TokensUnique, OneEach
<1> QED
  BY <1>3, <1>4

LEMMA InviteStep ==
  TypeOK /\ PurgesCommitted /\ InviteInv /\ [Next]_vars => InviteInv'
<1> SUFFICES ASSUME TypeOK, PurgesCommitted, InviteInv, [Next]_vars PROVE InviteInv'
  OBVIOUS
<1>0. TokensUnique /\ OneEach /\ UsesMatch /\ \A s \in sessions : s.run \in DOMAIN runs
  BY DEF InviteInv, TypeOK
<1>1. ASSUME NEW r \in RunIds, NEW p \in Participants, NEW t \in Tokens \cup {Null},
             Join(r, p, t)
      PROVE  InviteInv'
  BY <1>1, EnrollEffect, InviteJoin
<1>2. CASE ~ \E r \in RunIds, p \in Participants, t \in Tokens \cup {Null} : Join(r, p, t)
  <2>1. \A x \in DOMAIN runs : runs'[x].recruitment = runs[x].recruitment
    BY <1>2, TermsKept DEF SameTerms
  <2>2. ASSUME UNCHANGED <<sessions, invitations>>,
               \A j \in issuing' : j \in issuing \/ j.token \notin {i.token : i \in invitations \cup issuing},
               \A i, j \in issuing' : i \in issuing \/ j \in issuing \/ i = j
        PROVE  InviteInv'
    BY <1>0, <2>1, <2>2 DEF InviteInv, TokensUnique, OneEach, UsesMatch
  <2>3. ASSUME NEW r \in RunIds, NEW t \in Tokens, CheckInvitation(r, t) PROVE InviteInv'
    BY <2>2, <2>3 DEF CheckInvitation
  <2>4. ASSUME NEW i \in issuing, NEW h \in InviteLifetimes, InsertInvitation(i, h)
        PROVE  InviteInv'
    <3> DEFINE new == [run |-> i.run, token |-> i.token, expires_at |-> now + h, session |-> Null]
    <3>1. /\ issuing' = issuing \ {i} /\ sessions' = sessions
          /\ invitations' = invitations \cup {new}
          /\ new.token = i.token /\ new.session = Null
      BY <2>4 DEF InsertInvitation
    <3> HIDE DEF new
    <3>2. TokensUnique'
      BY <1>0, <3>1 DEF TokensUnique
    <3>3. OneEach'
      BY <1>0, <3>1 DEF OneEach
    <3>4. UsesMatch'
      BY <1>0, <2>1, <3>1 DEF UsesMatch
    <3> QED
      BY <3>2, <3>3, <3>4 DEF InviteInv
  <2>5. ASSUME NEW i \in issuing, LoseInvitation(i) PROVE InviteInv'
    BY <2>2, <2>5 DEF LoseInvitation
  <2>6. ASSUME NEW s \in sessions, Record(s) PROVE InviteInv'
    <3>1. PICK y : /\ y.run = s.run /\ y.identity = s.identity
                   /\ sessions' = (sessions \ {s}) \cup {y}
      BY <2>6, RecordEffect
    <3>2. UNCHANGED <<invitations, issuing>>
      BY <2>6, RecordEffect
    <3>3. UsesMatch'
      BY <1>0, <2>1, <3>1, <3>2 DEF UsesMatch
    <3> QED
      BY <1>0, <3>2, <3>3 DEF InviteInv, TokensUnique, OneEach
  <2>7. ASSUME NEW k \in Purgers, NEW r \in RunIds, Delete(k, r) PROVE InviteInv'
    <3>1. /\ sessions' = {s \in sessions : s.run # r}
          /\ invitations' = {i \in invitations : i.run # r}
          /\ issuing' = issuing
      BY <2>7 DEF Delete, Enrolled
    <3>2. UsesMatch'
      BY <1>0, <2>1, <3>1 DEF UsesMatch
    <3> QED
      BY <1>0, <3>1, <3>2 DEF InviteInv, TokensUnique, OneEach
  <2>8. CASE UNCHANGED <<sessions, invitations, issuing>>
    BY <2>2, <2>8
  <2> QED
    BY <1>2, <2>3, <2>4, <2>5, <2>6, <2>7, <2>8
       DEF Next, Administrate, Participate, Purge, vars, Tick, CreateRun, UpdateRun,
           SelectOverdue, SelectRun, Refuse, Vacuum, Checkpoint, Mark, Abort
<1> QED
  BY <1>1, <1>2

\* An invitation enrolls one participant and a participant of an invitation run
\* has one, whatever is retried, refused, inserted late or purged.
THEOREM InvitationsSingleUse == Spec => []SingleUse
<1>1. Init => InviteInv
  BY DEF Init, InviteInv, TokensUnique, OneEach, UsesMatch
<1>2. TypeOK /\ InviteInv => SingleUse
  <2> SUFFICES ASSUME TypeOK, InviteInv PROVE SingleUse
    OBVIOUS
  <2>0. TokensUnique /\ OneEach /\ UsesMatch
    BY DEF InviteInv
  <2>1. ASSUME NEW s \in sessions, runs[s.run].recruitment = "invitation"
        PROVE  Cardinality({i \in invitations : i.run = s.run /\ i.session = s.identity}) = 1
    <3>1. PICK j \in invitations : j.run = s.run /\ j.session = s.identity
      BY <2>0, <2>1 DEF UsesMatch
    <3>2. s.identity # Null
      BY LifecycleAssumption DEF TypeOK, Session
    <3>3. {i \in invitations : i.run = s.run /\ i.session = s.identity} = {j}
      BY <2>0, <3>1, <3>2 DEF OneEach
    <3> QED
      BY <3>3, FS_Singleton
  <2> QED
    BY <2>0, <2>1 DEF SingleUse, TokensUnique, UsesMatch
<1> QED
  BY <1>1, <1>2, InviteStep, Invariance, PTL DEF Spec, IInv

-----------------------------------------------------------------------------
(* Allocation. *)

Assigned(r, c) == {s \in Enrolled(r) : s.cell = c}

\* One session per identity and run.
OneSession ==
  \A s, x \in sessions : s.run = x.run /\ s.identity = x.identity => s = x

\* The cells that are still in the block have one session less than the others.
Even(r) ==
  \E k \in Nat : \A c \in Cells :
    Cardinality(Assigned(r, c)) = IF c \in Block(runs[r]) THEN k ELSE k + 1

AllocationInv ==
  /\ IsFiniteSet(sessions)
  /\ OneSession
  /\ \A r \in DOMAIN runs :
       /\ Cardinality(Enrolled(r)) <= runs[r].cap
       /\ runs[r].pending \/ runs[r].purged \/ Even(r)

\* Replacing a session by one of the same identity, run and cell changes no
\* count.
LEMMA SameCount ==
  ASSUME IsFiniteSet(sessions), NEW S \in SUBSET sessions, NEW s \in S,
         NEW y, y \notin sessions \ {s}
  PROVE  Cardinality((S \ {s}) \cup {y}) = Cardinality(S)
<1>1. IsFiniteSet(S)
  BY FS_Subset
<1>2. IsFiniteSet(S \ {s}) /\ Cardinality(S \ {s}) = Cardinality(S) - 1
  BY <1>1, FS_RemoveElement
<1>3. Cardinality((S \ {s}) \cup {y}) = Cardinality(S \ {s}) + 1
  BY <1>2, FS_AddElement
<1>4. Cardinality(S) \in Nat
  BY <1>1, FS_CardinalityType
<1> QED
  BY <1>2, <1>3, <1>4

LEMMA CountAdd ==
  ASSUME IsFiniteSet(sessions), NEW S \in SUBSET sessions, NEW y, y \notin sessions
  PROVE  Cardinality(S \cup {y}) = Cardinality(S) + 1 /\ Cardinality(S) \in Nat
<1>1. IsFiniteSet(S)
  BY FS_Subset
<1> QED
  BY <1>1, FS_AddElement, FS_CardinalityType

\* An enrollment takes a cell out of the block, or the last one and with it the
\* block.
LEMMA AllocationJoin ==
  ASSUME TypeOK, PurgedStayEmpty, AllocationInv, NEW r \in RunIds, NEW p \in Participants,
         NEW t, NEW c \in Cells, Enrolls(r, p, t, c),
         \A x \in DOMAIN runs : /\ runs'[x].pending <=> runs[x].pending
                                /\ runs'[x].purged <=> runs[x].purged
  PROVE  AllocationInv'
<1> DEFINE new == [run |-> r, identity |-> p, cell |-> c, event_bytes |-> 0]
<1>1. /\ r \in DOMAIN runs /\ DOMAIN runs' = DOMAIN runs
      /\ sessions' = sessions \cup {new}
      /\ \A s \in sessions : ~(s.run = r /\ s.identity = p)
      /\ c \in Block(runs[r])
      /\ runs[r].status = "open"
  BY DEF Enrolls, Enrolled
<1>2. new.run = r /\ new.identity = p /\ new.cell = c
  OBVIOUS
<1> HIDE DEF new
<1>3. new \notin sessions
  BY <1>1, <1>2
<1>4. IsFiniteSet(sessions') /\ OneSession'
  <2>1. IsFiniteSet(sessions')
    BY <1>1, FS_AddElement DEF AllocationInv
  <2> QED
    BY <1>1, <1>2, <2>1 DEF AllocationInv, OneSession
<1>5. Enrolled(r)' = Enrolled(r) \cup {new}
  BY <1>1, <1>2 DEF Enrolled
<1>6. Enrolled(r) \in SUBSET sessions
  BY DEF Enrolled
<1>7. Cardinality(Enrolled(r)') <= runs'[r].cap
  <2>1. runs[r].cap \in Nat /\ runs'[r].cap = runs[r].cap
        /\ Cardinality(Enrolled(r)) < runs[r].cap
    BY <1>1 DEF Enrolls, SameTerms, TypeOK, Run
  <2>2. /\ Cardinality(Enrolled(r)') = Cardinality(Enrolled(r)) + 1
        /\ Cardinality(Enrolled(r)) \in Nat
    BY <1>3, <1>5, <1>6, CountAdd DEF AllocationInv
  <2> QED
    BY <2>1, <2>2
<1>8. \A d \in Cells : Assigned(r, d)' = IF d = c THEN Assigned(r, d) \cup {new} ELSE Assigned(r, d)
  BY <1>2, <1>5 DEF Assigned
<1>9. \A d \in Cells : Assigned(r, d) \in SUBSET sessions
  BY DEF Assigned, Enrolled
<1>10. Even(r)'
  <2>1. ~runs[r].pending /\ ~runs[r].purged
    BY <1>1 DEF PurgedStayEmpty
  <2>2. PICK k \in Nat : \A d \in Cells :
          Cardinality(Assigned(r, d)) = IF d \in Block(runs[r]) THEN k ELSE k + 1
    BY <1>1, <2>1 DEF AllocationInv, Even
  <2>3. \A d \in Cells : Cardinality(Assigned(r, d)') =
          IF d \in Block(runs[r]) \ {c} THEN k ELSE k + 1
    <3> SUFFICES ASSUME NEW d \in Cells
                 PROVE  Cardinality(Assigned(r, d)') =
                          IF d \in Block(runs[r]) \ {c} THEN k ELSE k + 1
      OBVIOUS
    <3>1. CASE d = c
      <4>1. Cardinality(Assigned(r, d)') = Cardinality(Assigned(r, d)) + 1
        BY <1>3, <1>8, <1>9, <3>1, CountAdd DEF AllocationInv
      <4> QED
        BY <1>1, <2>2, <3>1, <4>1
    <3>2. CASE d # c
      BY <1>8, <2>2, <3>2
    <3> QED
      BY <3>1, <3>2
  <2>4. runs'[r].allocation = Block(runs[r]) \ {c}
    BY DEF Enrolls
  <2>5. CASE Block(runs[r]) \ {c} = {}
    <3>1. Block(runs[r])' = Cells
      BY <2>4, <2>5 DEF Block
    <3>2. \A d \in Cells : Cardinality(Assigned(r, d)') =
            IF d \in Block(runs'[r]) THEN k + 1 ELSE k + 2
      BY <2>3, <2>5, <3>1
    <3> QED
      BY <3>2 DEF Even
  <2>6. CASE Block(runs[r]) \ {c} # {}
    <3>1. Block(runs[r])' = Block(runs[r]) \ {c}
      BY <2>4, <2>6 DEF Block
    <3> QED
      BY <2>3, <3>1 DEF Even
  <2> QED
    BY <2>5, <2>6
<1>11. ASSUME NEW x \in DOMAIN runs, x # r
       PROVE  /\ Cardinality(Enrolled(x)') <= runs'[x].cap
              /\ runs'[x].pending \/ runs'[x].purged \/ Even(x)'
  <2>1. Enrolled(x)' = Enrolled(x) /\ runs'[x] = runs[x]
    BY <1>1, <1>2, <1>11 DEF Enrolled, Enrolls
  <2>2. \A d : Assigned(x, d)' = Assigned(x, d)
    BY <2>1 DEF Assigned
  <2>3. Even(x)' <=> Even(x)
    BY <2>1, <2>2 DEF Even, Block
  <2> QED
    BY <2>1, <2>3 DEF AllocationInv
<1> QED
  BY <1>1, <1>4, <1>7, <1>10, <1>11 DEF AllocationInv

\* Runs keep their counts when no session of theirs changes.
LEMMA AllocationSame ==
  ASSUME TypeOK, AllocationInv, NEW x \in DOMAIN runs, x \in DOMAIN runs', SameTerms(x),
         runs'[x].allocation = runs[x].allocation,
         runs[x].pending \/ runs[x].purged => runs'[x].pending \/ runs'[x].purged,
         Enrolled(x)' = Enrolled(x)
  PROVE  /\ Cardinality(Enrolled(x)') <= runs'[x].cap
         /\ runs'[x].pending \/ runs'[x].purged \/ Even(x)'
<1>1. \A d : Assigned(x, d)' = Assigned(x, d)
  BY DEF Assigned
<1>2. Even(x)' <=> Even(x)
  BY <1>1 DEF Even, Block
<1> QED
  BY <1>2 DEF AllocationInv, SameTerms

LEMMA AllocationStep ==
  TypeOK /\ TypeOK' /\ PurgeInv /\ AllocationInv /\ [Next]_vars => AllocationInv'
<1> SUFFICES ASSUME TypeOK, TypeOK', PurgeInv, AllocationInv, [Next]_vars
             PROVE  AllocationInv'
  OBVIOUS
<1>0. /\ PurgedStayEmpty /\ PurgesCommitted
      /\ IsFiniteSet(sessions) /\ OneSession
      /\ \A s \in sessions : s.run \in DOMAIN runs
  BY DEF PurgeInv, AllocationInv, TypeOK
<1>1. ASSUME NEW r \in RunIds, NEW p \in Participants, NEW t \in Tokens \cup {Null},
             Join(r, p, t)
      PROVE  AllocationInv'
  <2>1. PICK c \in Cells : Enrolls(r, p, t, c)
    BY <1>1, EnrollEffect
  <2>2. \A x \in DOMAIN runs : /\ runs'[x].pending <=> runs[x].pending
                               /\ runs'[x].purged <=> runs[x].purged
    BY <1>1, JoinEffect
  <2> QED
    BY <1>0, <2>1, <2>2, AllocationJoin
<1>2. CASE ~ \E r \in RunIds, p \in Participants, t \in Tokens \cup {Null} : Join(r, p, t)
  <2>1. /\ DOMAIN runs \subseteq DOMAIN runs'
        /\ \A x \in DOMAIN runs : SameTerms(x) /\ runs'[x].allocation = runs[x].allocation
    BY <1>0, <1>2, TermsKept
  <2>2. ASSUME NEW r \in RunIds, NEW cap \in Caps, NEW k \in Recruitments, NEW d \in DaysInUse,
               CreateRun(r, cap, k, d)
        PROVE  AllocationInv'
    <3>1. /\ r \notin DOMAIN runs /\ DOMAIN runs' = DOMAIN runs \cup {r}
          /\ \A x \in DOMAIN runs : runs'[x] = runs[x]
          /\ sessions' = sessions
      BY <2>2, CreateEffect
    <3>2. Enrolled(r)' = {} /\ \A y \in Cells : Assigned(r, y)' = {}
      BY <1>0, <3>1 DEF Enrolled, Assigned
    <3>3. runs'[r].allocation = {} /\ runs'[r].cap \in Nat
      BY <2>2, LifecycleAssumption DEF CreateRun
    <3>4. Even(r)' /\ Cardinality(Enrolled(r)') <= runs'[r].cap
      <4>1. Block(runs[r])' = Cells
        BY <3>3 DEF Block
      <4>2. \A c \in Cells : Cardinality(Assigned(r, c)') =
                               IF c \in Block(runs'[r]) THEN 0 ELSE 0 + 1
        BY <3>2, <4>1, FS_EmptySet
      <4>3. Cardinality(Enrolled(r)') = 0
        BY <3>2, FS_EmptySet
      <4> QED
        BY <3>3, <4>2, <4>3 DEF Even
    <3>5. \A x \in DOMAIN runs : Enrolled(x)' = Enrolled(x)
      BY <3>1 DEF Enrolled
    <3>6. \A x \in DOMAIN runs : /\ Cardinality(Enrolled(x)') <= runs'[x].cap
                                 /\ runs'[x].pending \/ runs'[x].purged \/ Even(x)'
      BY <2>1, <3>1, <3>5, AllocationSame
    <3> QED
      BY <1>0, <3>1, <3>4, <3>6 DEF AllocationInv, OneSession
  <2>3. ASSUME NEW s \in sessions, Record(s) PROVE AllocationInv'
    <3>1. PICK y : /\ y.run = s.run /\ y.identity = s.identity /\ y.cell = s.cell
                   /\ sessions' = (sessions \ {s}) \cup {y}
      BY <2>3, RecordEffect
    <3>2. /\ DOMAIN runs' = DOMAIN runs
          /\ \A x \in DOMAIN runs : /\ runs'[x].pending <=> runs[x].pending
                                    /\ runs'[x].purged <=> runs[x].purged
      BY <2>3, RecordEffect
    <3>3. y \notin sessions \ {s}
      BY <1>0, <3>1 DEF OneSession
    <3>4. IsFiniteSet(sessions') /\ OneSession'
      <4>1. IsFiniteSet(sessions \ {s})
        BY <1>0, FS_RemoveElement
      <4>2. IsFiniteSet(sessions')
        BY <3>1, <4>1, FS_AddElement
      <4>3. OneSession'
        BY <1>0, <3>1 DEF OneSession
      <4> QED
        BY <4>2, <4>3
    <3>5. ASSUME NEW x \in DOMAIN runs, x # s.run
          PROVE  /\ Cardinality(Enrolled(x)') <= runs'[x].cap
                 /\ runs'[x].pending \/ runs'[x].purged \/ Even(x)'
      <4>1. Enrolled(x)' = Enrolled(x)
        BY <3>1, <3>5 DEF Enrolled
      <4> QED
        BY <2>1, <3>2, <4>1, AllocationSame
    <3>6. ASSUME NEW x \in DOMAIN runs, x = s.run
          PROVE  /\ Cardinality(Enrolled(x)') <= runs'[x].cap
                 /\ runs'[x].pending \/ runs'[x].purged \/ Even(x)'
      <4>1. Enrolled(x)' = (Enrolled(x) \ {s}) \cup {y}
        BY <3>1, <3>6 DEF Enrolled
      <4>2. s \in Enrolled(x) /\ Enrolled(x) \in SUBSET sessions
        BY <3>6 DEF Enrolled
      <4>3. Cardinality(Enrolled(x)') = Cardinality(Enrolled(x))
        BY <1>0, <3>3, <4>1, <4>2, SameCount
      <4>4. \A c : Cardinality(Assigned(x, c)') = Cardinality(Assigned(x, c))
        <5> SUFFICES ASSUME NEW c
                     PROVE  Cardinality(Assigned(x, c)') = Cardinality(Assigned(x, c))
          OBVIOUS
        <5>1. CASE s.cell = c
          <6>1. Assigned(x, c)' = (Assigned(x, c) \ {s}) \cup {y}
            BY <3>1, <4>1, <5>1 DEF Assigned
          <6>2. s \in Assigned(x, c) /\ Assigned(x, c) \in SUBSET sessions
            BY <4>2, <5>1 DEF Assigned
          <6> QED
            BY <1>0, <3>3, <6>1, <6>2, SameCount
        <5>2. CASE s.cell # c
          <6>1. Assigned(x, c)' = Assigned(x, c)
            BY <3>1, <4>1, <5>2 DEF Assigned
          <6> QED
            BY <6>1
        <5> QED
          BY <5>1, <5>2
      <4>5. Even(x)' <=> Even(x)
        BY <2>1, <4>4 DEF Even, Block
      <4> QED
        BY <2>1, <3>2, <4>3, <4>5 DEF AllocationInv, SameTerms
    <3> QED
      BY <3>2, <3>4, <3>5, <3>6 DEF AllocationInv
  <2>4. ASSUME NEW k \in Purgers, NEW r \in RunIds, Delete(k, r) PROVE AllocationInv'
    <3>1. /\ r \in DOMAIN runs
          /\ DOMAIN runs' = DOMAIN runs
          /\ \A x \in DOMAIN runs : x # r => runs'[x] = runs[x]
          /\ runs'[r].pending
          /\ sessions' = sessions \ Enrolled(r)
      BY <2>4, DeleteEffect
    <3>2. IsFiniteSet(sessions') /\ OneSession'
      BY <1>0, <3>1, FS_Difference DEF OneSession
    <3>3. Cardinality(Enrolled(r)') <= runs'[r].cap
      <4>1. Enrolled(r)' = {}
        BY <3>1 DEF Enrolled
      <4>2. runs'[r].cap \in Nat
        BY <3>1 DEF TypeOK, Run
      <4> QED
        BY <4>1, <4>2, FS_EmptySet
    <3>4. \A x \in DOMAIN runs : x # r => Enrolled(x)' = Enrolled(x)
      BY <3>1 DEF Enrolled
    <3>5. \A x \in DOMAIN runs : x # r => /\ Cardinality(Enrolled(x)') <= runs'[x].cap
                                          /\ runs'[x].pending \/ runs'[x].purged \/ Even(x)'
      BY <2>1, <3>1, <3>4, AllocationSame
    <3> QED
      BY <3>1, <3>2, <3>3, <3>5 DEF AllocationInv
  <2>5. ASSUME UNCHANGED sessions, DOMAIN runs' = DOMAIN runs,
               \A x \in DOMAIN runs :
                 runs[x].pending \/ runs[x].purged => runs'[x].pending \/ runs'[x].purged
        PROVE  AllocationInv'
    <3>1. \A x \in DOMAIN runs : Enrolled(x)' = Enrolled(x)
      BY <2>5 DEF Enrolled
    <3>2. \A x \in DOMAIN runs : /\ Cardinality(Enrolled(x)') <= runs'[x].cap
                                 /\ runs'[x].pending \/ runs'[x].purged \/ Even(x)'
      BY <2>1, <2>5, <3>1, AllocationSame
    <3> QED
      BY <1>0, <2>5, <3>2 DEF AllocationInv, OneSession
  <2>6. ASSUME NEW r \in RunIds, NEW status \in StatusRequests, NEW d \in DayRequests,
               UpdateRun(r, status, d)
        PROVE  AllocationInv'
    BY <2>5, <2>6, UpdateEffect
  <2>7. ASSUME NEW k \in Purgers, Mark(k) PROVE AllocationInv'
    BY <1>0, <2>5, <2>7, MarkEffect
  <2>8. CASE UNCHANGED <<runs, sessions>>
    BY <2>5, <2>8
  <2> QED
    BY <1>2, <2>2, <2>3, <2>4, <2>6, <2>7, <2>8
       DEF Next, Administrate, Participate, Purge, StatusRequests, DayRequests, vars, Tick,
           CheckInvitation, InsertInvitation, LoseInvitation, SelectOverdue, SelectRun,
           Refuse, Vacuum, Checkpoint, Abort
<1> QED
  BY <1>1, <1>2

\* Completed blocks balance the cells to within one session, and no interleaving
\* of joins passes the enrollment cap.
THEOREM AllocationBalanced == Spec => []BalancedAllocation
<1>1. Init => AllocationInv
  BY FS_EmptySet DEF Init, AllocationInv, OneSession
<1>2. PurgeInv /\ AllocationInv => BalancedAllocation
  <2> SUFFICES ASSUME PurgeInv, AllocationInv, NEW r \in DOMAIN runs
               PROVE  /\ Cardinality(Enrolled(r)) <= runs[r].cap
                      /\ \A c, d \in Cells :
                           Cardinality(Assigned(r, c)) <= Cardinality(Assigned(r, d)) + 1
    BY DEF BalancedAllocation, Assigned
  <2>1. CASE runs[r].pending \/ runs[r].purged
    <3>1. \A c \in Cells : Assigned(r, c) = {}
      BY <2>1 DEF PurgeInv, PurgedStayEmpty, Assigned
    <3> QED
      BY <3>1, FS_EmptySet DEF AllocationInv
  <2>2. CASE Even(r)
    <3>1. PICK k \in Nat : \A c \in Cells :
            Cardinality(Assigned(r, c)) = IF c \in Block(runs[r]) THEN k ELSE k + 1
      BY <2>2 DEF Even
    <3>2. \A c \in Cells : Cardinality(Assigned(r, c)) \in {k, k + 1}
      BY <3>1
    <3> QED
      BY <3>2 DEF AllocationInv
  <2> QED
    BY <2>1, <2>2 DEF AllocationInv
<1>3. TypeOK /\ PurgeInv /\ [Next]_vars => TypeOK' /\ PurgeInv'
  BY TypeStep, PurgeStep
<1> QED
  BY <1>1, <1>2, <1>3, TypeInit, PurgeInit, AllocationStep, PTL DEF Spec
=============================================================================
