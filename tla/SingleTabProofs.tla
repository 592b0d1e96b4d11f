---------------------------- MODULE SingleTabProofs ----------------------------
(***************************************************************************)
(* Proofs about the participant's page of module ParticipantClient when it *)
(* is the only tab: nobody else writes its journal, so whatever was lost,  *)
(* delayed, repeated or reloaded, it runs into no conflict while its       *)
(* receipts live, and giving up its journal later costs no answer.         *)
(***************************************************************************)
EXTENDS ParticipantClientProofs, FiniteSetTheorems

-----------------------------------------------------------------------------
(* The inductive invariant, in addition to ClientInv.                      *)

\* The last event of a request.
EndOfBatch(events) == events[Len(events)].seq

\* One tab, and no other.
OneTab == \E t : Pages = {t}

\* The number of the last event of the next checkpoint.
Top(saved) == Handed(saved) + Len(Batch(saved.events))

\* Event IDs are drawn from the sequence number, or for a skip at the start.
Named(e) == e.id[2] \in {0, e.seq} /\ (e.id[2] = 0 => e.type = "submit")

\* The stored stream and the outbox are parts of one stream.
Continues(a, saved) ==
  LET log == attempts[a].log
      k == Handed(saved)
  IN  /\ Owns(Me, a)
      /\ k \in 0..Len(log)
      /\ Len(log) < saved.next
      /\ \A i \in DOMAIN saved.events :
           /\ saved.events[i].seq = k + i
           /\ Named(saved.events[i])
           /\ k + i <= Len(log) => log[k + i] = saved.events[i]

\* An event that is stored or in the outbox.
Known(a, e, saved) == Stored(a, e) \/ (a = saved.attempt /\ Among(e, saved.events))

\* The start command is the only one ever sent for its task.
StartAlone(saved) ==
  LET s == saved.start
  IN  /\ saved = [EmptyJournal EXCEPT !.start = s]
      /\ s.task = sessions[Me].index
      /\ s.task < TaskCount
      /\ s.command[1] = "start" /\ s.command[3] = s.task
      /\ s.skip => s.stamp.id[2] = 0
      /\ \A a \in DOMAIN attempts : AttemptAt(a, s.task) =>
           attempts[a].command = s.command /\ attempts[a].log = <<>>

\* The attempt has been finished by the command, and nothing has come after it.
FinishedBy(c, saved, out) ==
  LET x == attempts[c.attempt]
  IN  /\ x.finish # Unfinished
      /\ x.finish.command = c.command
      /\ x.finish.request = FinishRequest(c).body
      /\ sessions[Me].index = x.index + 1
      /\ NotStarted(Me)
      /\ Len(x.log) = saved.next - 1
      /\ FinishRequest(c) \in out

\* The frozen command ends the stream that the outbox belongs to.
FinishAlone(saved, out) ==
  LET c == saved.finish
  IN  /\ saved.attempt = c.attempt
      /\ Continues(c.attempt, saved)
      /\ c.command[1] = "finish" /\ c.command[3] = attempts[c.attempt].index
      /\ c.events # <<>>
      /\ \A i \in DOMAIN c.events :
           /\ c.events[i].seq = saved.next - 1 - Len(c.events) + i
           /\ Known(c.attempt, c.events[i], saved)
      /\ attempts[c.attempt].finish = Unfinished \/ FinishedBy(c, saved, out)
      /\ FinishRequest(c) \in out => Handed(saved) + 1 >= c.events[1].seq

\* What the journal has to do with the tables.
JournalAlone(saved, out) ==
  /\ saved.start # None => StartAlone(saved)
  /\ saved.start = None /\ saved.finish = None =>
       IF saved.attempt = NoAttempt THEN saved = EmptyJournal
       ELSE Continues(saved.attempt, saved) /\ AttemptAt(saved.attempt, sessions[Me].index)
  /\ saved.finish # None =>
       IF Unnumbered(saved.finish)
       THEN /\ saved.attempt = NoAttempt
            /\ AttemptAt(saved.finish.attempt, sessions[Me].index)
            /\ Len(saved.finish.events) = 1
       ELSE FinishAlone(saved, out)

\* The final submission is not on its way yet.
Unsent(saved, out) == saved.finish = None \/ FinishRequest(saved.finish) \notin out

\* No checkpoint goes beyond the event with number n, nor does the stored stream.
Reaches(a, n, out) ==
  /\ Len(attempts[a].log) <= n
  /\ \A m \in out : m.kind = "events" /\ m.attempt = a =>
       \A i \in DOMAIN m.events : m.events[i].seq <= n

\* The requests that may still have an effect are those of the journal.
SentAlone(saved, out) ==
  /\ \A m \in out : m.kind = "start" =>
       /\ m.command[1] = "start" /\ m.command[3] = m.task
       /\ m.task <= sessions[Me].index
       /\ m.task = sessions[Me].index /\ NotStarted(Me) =>
            saved.start # None /\ m = StartRequest(saved.start)
  /\ \A m \in out : m.kind = "events" =>
       \A i \in DOMAIN m.events : Known(m.attempt, m.events[i], saved)
  /\ \A m \in out : m.kind = "finish" =>
       \/ EndOfBatch(m.body.events) = NoSeq
       \/ Owns(Me, m.attempt) /\ attempts[m.attempt].finish # Unfinished
       \/ saved.finish # None /\ m = FinishRequest(saved.finish)
  /\ saved.attempt # NoAttempt /\ Unsent(saved, out) => Reaches(saved.attempt, Top(saved), out)

\* The journal, the tables and what is on its way are about the same stream.
InStep(saved, out) == JournalAlone(saved, out) /\ SentAlone(saved, out)

\* What the tables hold came from this page.
TablesAlone ==
  \A a \in DOMAIN attempts :
    LET x == attempts[a]
    IN  /\ x.command[1] = "start" /\ x.command[3] = x.index
        /\ x.finish # Unfinished =>
             /\ x.finish.command[1] = "finish" /\ x.finish.command[3] = x.index
             /\ EndOfBatch(x.finish.request.events) # NoSeq
        /\ \A i \in DOMAIN x.log : Named(x.log[i])

\* A command that cannot be told from a foreign one any more has taken effect.
Spent(saved) ==
  \/ Unnumbered(saved.finish)
  \/ /\ now >= ReceiptLifetime
     /\ \/ saved.finish # None /\ StoredBy(saved.finish)
        \/ saved.start # None /\ ~NotStarted(Me)

\* A session as a page that has just been loaded was told it.
LoadedView(saved, v) ==
  /\ saved.finish = None => v.index = sessions[Me].index
  /\ saved.finish = None /\ saved.start = None =>
       IF v.attempt = NoAttempt THEN NotStarted(Me) /\ saved.attempt = NoAttempt
       ELSE /\ saved.attempt \in {NoAttempt, v.attempt}
            /\ saved.attempt = NoAttempt => Len(v.events) = Len(attempts[v.attempt].log)
  /\ v.attempt # NoAttempt /\ v.attempt = saved.attempt => Len(v.events) >= Handed(saved)

\* What the page knows when it awaits a call, and when the answer has come.
CallAlone(page, out) ==
  LET saved == page.saved
      v == page.reply.value
      end == EndOfBatch(page.call.events)
  IN  /\ page.doing = "starting" => page.call = StartRequest(saved.start)
      /\ page.doing = "finishing" => page.call = FinishRequest(saved.finish)
      /\ page.doing \in Checkpoints =>
           /\ page.call.attempt = saved.attempt
           /\ Unsent(saved, out)
           /\ Reaches(saved.attempt, end, out)
      /\ page.reply # None /\ page.reply = Conflict =>
           page.doing \in {"starting", "finishing"} /\ Spent(saved)
      /\ page.reply \notin {None, Conflict, Failure} =>
           /\ page.doing = "loading" => LoadedView(saved, v)
           /\ page.doing = "starting" =>
                v.index = sessions[Me].index /\ v.attempt # NoAttempt /\ v.next_seq = 1
           /\ page.doing \in Checkpoints => v.next_seq = end + 1
           /\ page.doing = "finishing" =>
                /\ ~Unnumbered(saved.finish) /\ StoredBy(saved.finish)
                /\ v.index = sessions[Me].index /\ v.attempt = NoAttempt
           /\ page.doing \notin Checkpoints => (v.completed <=> v.index >= TaskCount)

\* What the page shows of the session, once it has read it.
Shows(page) ==
  /\ page.completed <=> page.index >= TaskCount
  /\ page.saved.finish = None =>
       /\ page.index = sessions[Me].index
       /\ page.saved.start = None /\ page.attempt = NoAttempt => NotStarted(Me)

ShownAlone(page) == page.doing \notin {"closed", "loading"} => Shows(page)

PageAlone(page, out) ==
  /\ InStep(page.saved, out)
  /\ page.news = {}
  /\ page.blocked => page.doing = "idle" /\ Spent(page.saved)
  /\ CallAlone(page, out)
  /\ ShownAlone(page)

AloneInv ==
  /\ TablesAlone
  /\ \A t \in Pages : pages[t].saved = journal /\ PageAlone(pages[t], sent)

-----------------------------------------------------------------------------
(* The journal in step with the server: what a page does to its journal.   *)

\* What is known of one journal is known of another that has the same events or
\* more, or whose missing events are stored.
LEMMA KnownStays ==
  ASSUME NEW old, NEW new, new.attempt = old.attempt,
         \A e : Among(e, old.events) => Among(e, new.events) \/ Stored(old.attempt, e)
  PROVE  \A a, e : Known(a, e, old) => Known(a, e, new)
BY DEF Known

\* The requests on their way fit a journal for which they have no more effect than
\* for the one before.
LEMMA SentStays ==
  ASSUME NEW old, NEW new, NEW out, SentAlone(old, out),
         old.start # None /\ NotStarted(Me) => new.start = old.start,
         \A a, e : Known(a, e, old) => Known(a, e, new),
         old.finish # None => new.finish = old.finish,
         new.attempt # NoAttempt /\ Unsent(new, out) => Reaches(new.attempt, Top(new), out)
  PROVE  SentAlone(new, out)
<1>1. \A m \in out : m.kind = "start" =>
        /\ m.command[1] = "start" /\ m.command[3] = m.task
        /\ m.task <= sessions[Me].index
        /\ m.task = sessions[Me].index /\ NotStarted(Me) =>
             new.start # None /\ m = StartRequest(new.start)
  BY DEF SentAlone
<1>2. \A m \in out : m.kind = "events" =>
        \A i \in DOMAIN m.events : Known(m.attempt, m.events[i], new)
  BY DEF SentAlone
<1>3. \A m \in out : m.kind = "finish" =>
        \/ EndOfBatch(m.body.events) = NoSeq
        \/ Owns(Me, m.attempt) /\ attempts[m.attempt].finish # Unfinished
        \/ new.finish # None /\ m = FinishRequest(new.finish)
  BY DEF SentAlone
<1> QED
  BY <1>1, <1>2, <1>3 DEF SentAlone

\* A finish that reaches a number reaches every larger one.
LEMMA ReachesMore ==
  ASSUME NEW a, NEW n \in Int, NEW k \in Int, n <= k, NEW out, Reaches(a, n, out),
         a \in DOMAIN attempts, S!TypeOK, \A m \in out : GoodRequest(m)
  PROVE  Reaches(a, k, out)
<1>1. Len(attempts[a].log) \in Nat
  BY LogForm
<1>2. \A m \in out : m.kind = "events" => \A i \in DOMAIN m.events : m.events[i].seq \in Nat
  <2> SUFFICES ASSUME NEW m \in out, m.kind = "events", NEW i \in DOMAIN m.events
               PROVE  m.events[i].seq \in Nat
    OBVIOUS
  <2>1. m \in Request
    BY DEF GoodRequest
  <2>2. m.events \in Seq(PageEvent)
    BY <2>1, RequestForms
  <2> QED
    BY <2>2, EventFields
<1> QED
  BY <1>1, <1>2 DEF Reaches

\* What it means to hold the end of a stored stream.
LEMMA ContinuesForm ==
  ASSUME S!TypeOK, NEW saved, GoodJournal(saved), NEW a, Continues(a, saved)
  PROVE  /\ a \in DOMAIN attempts /\ Len(attempts[a].log) \in Nat
         /\ DOMAIN attempts[a].log = 1..Len(attempts[a].log)
         /\ Handed(saved) \in Nat /\ Handed(saved) <= Len(attempts[a].log)
         /\ Len(attempts[a].log) < saved.next
         /\ saved.next = Handed(saved) + Len(saved.events) + 1
         /\ \A i \in DOMAIN saved.events :
              /\ saved.events[i].seq = Handed(saved) + i
              /\ Named(saved.events[i])
              /\ Handed(saved) + i <= Len(attempts[a].log) =>
                   attempts[a].log[Handed(saved) + i] = saved.events[i]
<1>1. a \in DOMAIN attempts
  BY DEF Continues, Owns
<1>2. Len(attempts[a].log) \in Nat /\ DOMAIN attempts[a].log = 1..Len(attempts[a].log)
  BY <1>1, LogForm
<1>3. Handed(saved) \in 0..Len(attempts[a].log)
  BY DEF Continues
<1>4. saved.next \in Nat /\ Len(saved.events) \in Nat /\ Handed(saved) = saved.next - 1 - Len(saved.events)
  BY JournalForm
<1>5. saved.next = Handed(saved) + Len(saved.events) + 1
  BY <1>4
<1> QED
  BY <1>1, <1>2, <1>3, <1>5 DEF Continues

\* Recorded events extend the part of the stream that the journal holds.
LEMMA MoreContinues ==
  ASSUME S!TypeOK, NEW old, GoodJournal(old), NEW a, Continues(a, old),
         NEW more \in Seq(PageEvent),
         \A i \in 1..Len(more) : more[i].seq = old.next + i - 1 /\ Named(more[i]),
         NEW new, new.events = old.events \o more, new.next = old.next + Len(more)
  PROVE  Continues(a, new) /\ Handed(new) = Handed(old)
<1>0. /\ old.events \in Seq(PageEvent) /\ old.next \in Nat
      /\ DOMAIN old.events = 1..Len(old.events)
  BY JournalForm
<1>a. PICK n, l, k, size : /\ n = Len(old.events) /\ l = Len(more) /\ k = Handed(old)
                           /\ size = Len(attempts[a].log)
  OBVIOUS
<1>1. /\ n \in Nat /\ l \in Nat /\ k \in Nat /\ size \in Nat /\ k <= size
      /\ old.next = k + n + 1 /\ size < old.next
  BY <1>0, <1>a, ContinuesForm, EventFields
<1>2. /\ Len(new.events) = n + l /\ DOMAIN new.events = 1..(n + l)
      /\ \A i \in 1..n : new.events[i] = old.events[i]
      /\ \A i \in 1..l : new.events[n + i] = more[i]
  <2>1. PICK es : es = old.events
    OBVIOUS
  <2>2. /\ Len(es \o more) = Len(es) + Len(more)
        /\ DOMAIN (es \o more) = 1..(Len(es) + Len(more))
        /\ \A i \in 1..Len(es) : (es \o more)[i] = es[i]
        /\ \A i \in 1..Len(more) : (es \o more)[Len(es) + i] = more[i]
    <3>1. es \in Seq(PageEvent)
      BY <1>0, <2>1
    <3> QED
      BY <3>1, Joined
  <2>3. new.events = es \o more /\ n = Len(es)
    BY <1>a, <2>1
  <2> QED
    BY <1>a, <2>1, <2>2, <2>3
<1>3. Handed(new) = k /\ size < new.next
  <2>1. Handed(new) = old.next + l - 1 - (n + l)
    <3>1. Handed(new) = new.next - 1 - Len(new.events)
      BY DEF Handed
    <3>2. new.next = old.next + l /\ Len(new.events) = n + l
      BY <1>2, <1>a
    <3> QED
      BY <1>0, <1>1, <3>1, <3>2
  <2>2. old.next + l - 1 - (n + l) = k /\ old.next + l > size
    BY <1>1
  <2> QED
    BY <1>a, <2>1, <2>2
<1>4. ASSUME NEW i \in 1..(n + l)
      PROVE  /\ new.events[i].seq = k + i
             /\ Named(new.events[i])
             /\ k + i <= size => attempts[a].log[k + i] = new.events[i]
  <2>1. CASE i \in 1..n
    BY <1>0, <1>2, <1>a, <2>1, ContinuesForm
  <2>2. CASE i \notin 1..n
    <3>1. PICK j \in 1..l : i = n + j
      <4>1. i - n \in 1..l /\ i = n + (i - n)
        BY <1>1, <2>2
      <4> QED
        BY <4>1
    <3>2. new.events[i] = more[j] /\ more[j].seq = old.next + j - 1 /\ Named(more[j])
      BY <1>2, <1>a, <3>1
    <3>3. old.next + j - 1 = k + i /\ ~(k + i <= size)
      BY <1>1, <3>1
    <3> QED
      BY <3>2, <3>3
  <2> QED
    BY <2>1, <2>2
<1>5. Owns(Me, a)
  BY DEF Continues
<1>6. k \in 0..size
  BY <1>1
<1>7. Continues(a, new)
  BY <1>2, <1>3, <1>4, <1>5, <1>6, <1>a DEF Continues
<1> QED
  BY <1>3, <1>7, <1>a

\* record: the journal takes new events, and nothing is sent.
LEMMA MoreInStep ==
  ASSUME S!TypeOK, NEW old, GoodJournal(old), old.attempt # NoAttempt, old.start = None,
         old.finish = None, NEW out, \A m \in out : GoodRequest(m), InStep(old, out),
         NEW more \in Seq(PageEvent),
         \A i \in 1..Len(more) :
           more[i].seq = old.next + i - 1 /\ Named(more[i]) /\ more[i].type # "submit",
         NEW new, new = [old EXCEPT !.events = @ \o more, !.next = @ + Len(more)]
  PROVE  InStep(new, out) /\ Top(old) <= Top(new)
<1>0. /\ old \in Journal /\ old.events \in Seq(PageEvent) /\ ~HasSubmit(old.events)
      /\ DOMAIN more = 1..Len(more)
  BY JournalForm, EventFields
<1>1. /\ new.events = old.events \o more /\ new.next = old.next + Len(more)
      /\ new.attempt = old.attempt /\ new.start = None /\ new.finish = None
  BY <1>0 DEF Journal
<1>2. Continues(old.attempt, old) /\ AttemptAt(old.attempt, sessions[Me].index)
  BY DEF InStep, JournalAlone
<1>3. Continues(old.attempt, new) /\ Handed(new) = Handed(old)
  BY <1>1, <1>2, MoreContinues
<1>4. Len(Batch(old.events)) <= Len(Batch(new.events))
  BY <1>0, <1>1, BatchGrows DEF HasSubmit
<1>5. /\ Handed(old) \in Nat /\ old.attempt \in DOMAIN attempts
  BY <1>2, ContinuesForm
<1>6. Len(Batch(old.events)) \in Nat /\ Len(Batch(new.events)) \in Nat
  <2>1. SubmitLast(new.events) /\ new.events \in Seq(PageEvent)
    BY <1>0, <1>1, BatchGrows, Joined DEF HasSubmit, SubmitLast
  <2> QED
    BY <1>0, <2>1, BatchHead DEF SubmitLast, HasSubmit
<1>7. Top(old) \in Int /\ Top(new) \in Int /\ Top(old) <= Top(new)
  BY <1>3, <1>4, <1>5, <1>6 DEF Top
<1>8. Unsent(old, out) /\ Unsent(new, out)
  BY <1>1 DEF Unsent
<1>9. Reaches(new.attempt, Top(new), out)
  <2>1. Reaches(old.attempt, Top(old), out)
    BY <1>8 DEF InStep, SentAlone
  <2> QED
    BY <1>1, <1>5, <1>7, <2>1, ReachesMore
<1>10. \A e : Among(e, old.events) => Among(e, new.events)
  <2>1. \A i \in 1..Len(old.events) : new.events[i] = old.events[i] /\ i \in DOMAIN new.events
    BY <1>0, <1>1, Joined, EventFields
  <2> QED
    BY <1>0, <2>1, EventFields DEF Among
<1>11. SentAlone(new, out)
  <2>1. \A b, e : Known(b, e, old) => Known(b, e, new)
    BY <1>1, <1>10 DEF Known
  <2> QED
    BY <1>1, <1>9, <2>1, SentStays DEF InStep
<1>12. JournalAlone(new, out)
  BY <1>1, <1>2, <1>3 DEF JournalAlone
<1> QED
  BY <1>7, <1>11, <1>12 DEF InStep

\* finish freezes the answer to an attempt that the page has opened.
LEMMA FrozenInStep ==
  ASSUME S!IInv, NEW old, GoodJournal(old), old.attempt # NoAttempt, old.start = None,
         old.finish = None, NEW out, \A m \in out : GoodRequest(m), InStep(old, out),
         NEW submit \in PageEvent, submit.seq = old.next, submit.type = "submit", Named(submit),
         NEW c \in FinishCommand, c.attempt = old.attempt,
         c.events = TailEvents(Append(old.events, submit)),
         c.command[1] = "finish", c.command[3] = sessions[Me].index,
         NEW new, new = [attempt |-> old.attempt, events |-> Append(old.events, submit),
                         start |-> None, next |-> old.next + 1, finish |-> c]
  PROVE  /\ InStep(new, out) /\ Top(new) = Top(old)
         /\ ~Unnumbered(c) /\ Unsent(new, out) /\ new.finish # None
<1>0. /\ old \in Journal /\ old.events \in Seq(PageEvent) /\ ~HasSubmit(old.events)
      /\ S!TypeOK /\ c # None
  BY JournalForm, NoneAssumption, Ordering
<1>a. PICK a : a = old.attempt
  OBVIOUS
<1>1. Continues(a, old) /\ AttemptAt(a, sessions[Me].index)
  BY <1>a DEF InStep, JournalAlone
<1>2. <<submit>> \in Seq(PageEvent) /\ new.events = old.events \o <<submit>> /\ Len(<<submit>>) = 1
      /\ <<submit>>[1] = submit
  BY <1>0, AppendJoins
<1>b. PICK n, k : n = Len(old.events) /\ k = Handed(old)
  OBVIOUS
<1>3. n \in Nat /\ k \in Nat /\ old.next = k + n + 1
  BY <1>0, <1>1, <1>b, ContinuesForm, EventFields
<1>4. Continues(a, new) /\ Handed(new) = k
  <2>1. \A i \in 1..Len(<<submit>>) :
          <<submit>>[i].seq = old.next + i - 1 /\ Named(<<submit>>[i])
    <3>1. \A i \in 1..1 : i = 1 /\ old.next + i - 1 = old.next
      BY <1>3
    <3> QED
      BY <1>2, <3>1
  <2>2. new.next = old.next + Len(<<submit>>)
    BY <1>2
  <2> QED
    BY <1>0, <1>1, <1>2, <1>b, <2>1, <2>2, MoreContinues
<1>5. /\ new.events \in Seq(PageEvent) /\ Len(new.events) = n + 1 /\ DOMAIN new.events = 1..(n + 1)
      /\ new.events # <<>> /\ new.events[n + 1] = submit
  BY <1>0, <1>2, <1>3, <1>b, Joined, EventFields
<1>6. PICK h \in 0..n :
        /\ c.events \in Seq(PageEvent) /\ Len(c.events) = n + 1 - h
        /\ \A i \in 1..(n + 1 - h) : c.events[i] = new.events[h + i]
  <2>1. PICK g \in 0..(Len(new.events) - 1) :
          /\ TailEvents(new.events) \in Seq(PageEvent)
          /\ Len(TailEvents(new.events)) = Len(new.events) - g
          /\ \A i \in 1..(Len(new.events) - g) : TailEvents(new.events)[i] = new.events[g + i]
    BY <1>5, FrozenTail
  <2>2. c.events = TailEvents(new.events)
    OBVIOUS
  <2>3. Len(new.events) = n + 1
    BY <1>5
  <2>4. g \in 0..n
    BY <1>3, <2>1, <2>3
  <2>5. /\ c.events \in Seq(PageEvent) /\ Len(c.events) = n + 1 - g
        /\ \A i \in 1..(n + 1 - g) : c.events[i] = new.events[g + i]
    <3>1. PICK w, s : w = new.events /\ s = c.events
      OBVIOUS
    <3>2. s \in Seq(PageEvent) /\ Len(s) = Len(w) - g /\ \A i \in 1..(Len(w) - g) : s[i] = w[g + i]
      BY <2>1, <2>2, <3>1, Zenon
    <3>3. Len(w) = n + 1
      BY <2>3, <3>1
    <3>4. Len(s) = n + 1 - g /\ \A i \in 1..(n + 1 - g) : s[i] = w[g + i]
      BY <1>3, <2>4, <3>2, <3>3
    <3> QED
      BY <3>1, <3>2, <3>4, Zenon
  <2> QED
    BY <2>4, <2>5, Zenon
<1>7. /\ c.events # <<>> /\ DOMAIN c.events = 1..(n + 1 - h) /\ n + 1 - h >= 1
      /\ c.events[Len(c.events)] = submit
  <2>1. n + 1 - h >= 1 /\ h + (n + 1 - h) = n + 1 /\ n + 1 - h \in 1..(n + 1 - h)
    BY <1>3, <1>6
  <2>2. DOMAIN c.events = 1..(n + 1 - h)
    BY <1>6, EventFields
  <2> QED
    BY <1>5, <1>6, <2>1, <2>2
<1>8. ~Unnumbered(c)
  <2>1. submit.seq # NoSeq
    BY <1>3 DEF NoSeq
  <2> QED
    BY <1>7, <2>1 DEF Unnumbered
<1>9. ASSUME NEW i \in DOMAIN c.events
      PROVE  /\ c.events[i].seq = new.next - 1 - Len(c.events) + i
             /\ Known(c.attempt, c.events[i], new)
  <2>1. i \in 1..(n + 1 - h) /\ h + i \in 1..(n + 1)
    BY <1>3, <1>6, <1>7
  <2>2. c.events[i] = new.events[h + i] /\ h + i \in DOMAIN new.events
    BY <1>5, <1>6, <2>1
  <2>3. new.events[h + i].seq = k + (h + i)
    BY <1>4, <2>2 DEF Continues
  <2>4. k + (h + i) = (old.next + 1) - 1 - (n + 1 - h) + i
    BY <1>3, <2>1
  <2>5. c.events[i].seq = new.next - 1 - Len(c.events) + i
    <3>1. new.next = old.next + 1 /\ Len(c.events) = n + 1 - h
      BY <1>6
    <3> QED
      BY <2>2, <2>3, <2>4, <3>1
  <2> QED
    BY <2>2, <2>5 DEF Known, Among
<1>10. attempts[a].finish = Unfinished /\ attempts[a].index = sessions[Me].index
  BY <1>1, Ordering DEF AttemptAt, Owns
<1>11. FinishRequest(c) \notin out
  <2> SUFFICES ASSUME FinishRequest(c) \in out PROVE FALSE
    OBVIOUS
  <2>1. PICK m \in out : m = FinishRequest(c)
    OBVIOUS
  <2>2. m.kind = "finish" /\ m.attempt = a /\ m.body.events = c.events
    BY <2>1, <1>a DEF FinishRequest
  <2>3. EndOfBatch(m.body.events) # NoSeq
    BY <1>0, <1>8, <2>2 DEF EndOfBatch, Unnumbered
  <2> QED
    BY <1>10, <2>2, <2>3 DEF InStep, SentAlone
<1>12. FinishAlone(new, out)
  BY <1>4, <1>7, <1>9, <1>10, <1>11, <1>a DEF FinishAlone
<1>13. JournalAlone(new, out) /\ Unsent(new, out) /\ new.finish # None
  BY <1>0, <1>8, <1>11, <1>12 DEF JournalAlone, Unsent
<1>14. Top(new) = Top(old)
  BY <1>0, <1>4, <1>b, BatchFrozen DEF Top
<1>15. \A b, e : Known(b, e, old) => Known(b, e, new)
  <2>1. \A i \in 1..Len(old.events) : new.events[i] = old.events[i] /\ i \in DOMAIN new.events
    BY <1>0, <1>2, Joined, EventFields
  <2>2. \A e : Among(e, old.events) => Among(e, new.events)
    BY <1>0, <2>1, EventFields DEF Among
  <2> QED
    BY <2>2 DEF Known
<1>16. Reaches(new.attempt, Top(new), out)
  BY <1>14 DEF InStep, SentAlone, Unsent
<1>17. SentAlone(new, out)
  BY <1>15, <1>16, SentStays DEF InStep
<1> QED
  BY <1>8, <1>13, <1>14, <1>17 DEF InStep

\* A command that names no event of the stream has no more effect than none.
LEMMA UnnumberedInStep ==
  ASSUME NEW old, NEW new, NEW out, \A m \in out : GoodRequest(m), InStep(old, out),
         old.attempt = NoAttempt, new.attempt = NoAttempt,
         old.start # None => ~NotStarted(Me), new.start = None,
         NEW c, new.finish = c, c # None, Unnumbered(c), old.finish \in {None, c},
         AttemptAt(c.attempt, sessions[Me].index), Len(c.events) = 1
  PROVE  InStep(new, out)
<1>1. JournalAlone(new, out)
  BY DEF JournalAlone
<1>2. SentAlone(old, out)
  BY DEF InStep
<1>3. ASSUME NEW m \in out, m.kind = "start"
      PROVE  /\ m.command[1] = "start" /\ m.command[3] = m.task
             /\ m.task <= sessions[Me].index
             /\ m.task = sessions[Me].index /\ NotStarted(Me) =>
                  new.start # None /\ m = StartRequest(new.start)
  BY <1>2, <1>3 DEF SentAlone
<1>4. ASSUME NEW m \in out, m.kind = "events", NEW i \in DOMAIN m.events
      PROVE  Known(m.attempt, m.events[i], new)
  <2>1. m \in Request
    BY DEF GoodRequest
  <2>2. m.attempt # NoAttempt
    BY <1>4, <2>1, RequestForms, SessionAssumption
  <2>3. Known(m.attempt, m.events[i], old)
    BY <1>2, <1>4 DEF SentAlone
  <2> QED
    BY <2>2, <2>3 DEF Known
<1>5. ASSUME NEW m \in out, m.kind = "finish"
      PROVE  \/ EndOfBatch(m.body.events) = NoSeq
             \/ Owns(Me, m.attempt) /\ attempts[m.attempt].finish # Unfinished
             \/ new.finish # None /\ m = FinishRequest(new.finish)
  BY <1>2, <1>5 DEF SentAlone
<1>6. SentAlone(new, out)
  BY <1>3, <1>4, <1>5 DEF SentAlone
<1> QED
  BY <1>1, <1>6 DEF InStep

\* The head of the outbox is dropped when it is stored: the rest still fits.
LEMMA PrunedContinues ==
  ASSUME S!TypeOK, NEW old, GoodJournal(old), NEW a, Continues(a, old), NEW rest, NEW k,
         Left(rest, old.events, k), HeadStored(a, old.events, k),
         NEW new, new.events = rest, new.next = old.next
  PROVE  /\ Continues(a, new) /\ Handed(new) = Handed(old) + k
         /\ \A e : Among(e, old.events) => Among(e, new.events) \/ Stored(a, e)
<1>0. /\ old.events \in Seq(PageEvent) /\ old.next \in Nat
      /\ DOMAIN old.events = 1..Len(old.events)
      /\ Handed(old) = old.next - 1 - Len(old.events)
  BY JournalForm
<1>a. PICK n, h, size : /\ n = Len(old.events) /\ h = Handed(old) /\ size = Len(attempts[a].log)
  OBVIOUS
<1>1. /\ n \in Nat /\ h \in Nat /\ size \in Nat /\ h <= size
      /\ old.next = h + n + 1 /\ size < old.next
      /\ DOMAIN attempts[a].log = 1..size
      /\ \A i \in 1..n : /\ old.events[i].seq = h + i
                         /\ Named(old.events[i])
                         /\ h + i <= size => attempts[a].log[h + i] = old.events[i]
  BY <1>0, <1>a, ContinuesForm, EventFields
<1>2. /\ k \in 0..n /\ rest \in Seq(PageEvent) /\ Len(rest) = n - k
      /\ \A i \in 1..(n - k) : rest[i] = old.events[k + i]
  BY <1>a DEF Left
<1>3. DOMAIN rest = 1..(n - k)
  BY <1>2, EventFields
<1>4. Handed(new) = h + k
  <2>1. Handed(new) = old.next - 1 - (n - k)
    BY <1>2 DEF Handed
  <2>2. old.next - 1 - (n - k) = h + k
    BY <1>1, <1>2
  <2> QED
    BY <2>1, <2>2
<1>5. h + k \in 0..size
  <2>1. CASE k = 0
    BY <1>1, <2>1
  <2>2. CASE k # 0
    <3>1. k \in 1..k /\ k \in 1..n
      BY <1>1, <1>2, <2>2
    <3>2. Stored(a, old.events[k])
      BY <3>1 DEF HeadStored
    <3>3. h + k \in 1..size
      BY <1>1, <3>1, <3>2 DEF Stored
    <3> QED
      BY <1>1, <3>3
  <2> QED
    BY <2>1, <2>2
<1>6. ASSUME NEW i \in 1..(n - k)
      PROVE  /\ rest[i].seq = h + k + i
             /\ Named(rest[i])
             /\ h + k + i <= size => attempts[a].log[h + k + i] = rest[i]
  <2>1. k + i \in 1..n /\ h + k + i = h + (k + i)
    BY <1>1, <1>2
  <2> QED
    BY <1>1, <1>2, <2>1
<1>7. Continues(a, new)
  BY <1>1, <1>3, <1>4, <1>5, <1>6, <1>a DEF Continues
<1>8. ASSUME NEW e, Among(e, old.events)
      PROVE  Among(e, new.events) \/ Stored(a, e)
  <2>1. PICK i \in 1..n : old.events[i] = e
    BY <1>0, <1>8, <1>a DEF Among
  <2>2. CASE i <= k
    <3>1. i \in 1..k
      BY <1>2, <2>1, <2>2
    <3> QED
      BY <2>1, <3>1 DEF HeadStored
  <2>3. CASE ~(i <= k)
    <3>1. i - k \in 1..(n - k) /\ k + (i - k) = i
      BY <1>1, <1>2, <2>1, <2>3
    <3> QED
      BY <1>2, <1>3, <2>1, <3>1 DEF Among
  <2> QED
    BY <2>2, <2>3
<1> QED
  BY <1>4, <1>7, <1>8, <1>a

\* A journal that belongs to an attempt holds the end of its stream.
LEMMA AttachedForm ==
  ASSUME NEW saved, saved.attempt # NoAttempt, NEW out, JournalAlone(saved, out)
  PROVE  /\ saved.start = None
         /\ Continues(saved.attempt, saved)
         /\ IF saved.finish = None THEN AttemptAt(saved.attempt, sessions[Me].index)
            ELSE ~Unnumbered(saved.finish) /\ FinishAlone(saved, out)
<1>1. saved.start = None
  <2> SUFFICES ASSUME saved.start # None PROVE FALSE
    OBVIOUS
  <2>1. saved = [EmptyJournal EXCEPT !.start = saved.start]
    BY DEF JournalAlone, StartAlone
  <2>2. saved.attempt = NoAttempt
    BY <2>1 DEF EmptyJournal
  <2> QED
    BY <2>2
<1>2. CASE saved.finish = None
  BY <1>1, <1>2 DEF JournalAlone
<1>3. CASE saved.finish # None
  <2>1. ~Unnumbered(saved.finish) /\ FinishAlone(saved, out)
    BY <1>3 DEF JournalAlone
  <2>2. Continues(saved.attempt, saved)
    BY <2>1 DEF FinishAlone
  <2> QED
    BY <1>1, <1>3, <2>1, <2>2
<1> QED
  BY <1>2, <1>3

\* What is acknowledged leaves the journal (checkpoint, init).
LEMMA PrunedInStep ==
  ASSUME S!TypeOK, NEW old, GoodJournal(old), NEW out, \A m \in out : GoodRequest(m),
         InStep(old, out), old.attempt # NoAttempt, NEW rest, NEW k, Left(rest, old.events, k),
         HeadStored(old.attempt, old.events, k), NEW new, new = [old EXCEPT !.events = rest]
  PROVE  InStep(new, out) /\ (Unsent(old, out) => Unsent(new, out))
<1>0. /\ old \in Journal /\ old.events \in Seq(PageEvent) /\ SubmitLast(old.events)
      /\ JournalAlone(old, out) /\ SentAlone(old, out)
  BY JournalForm DEF InStep
<1>1. /\ new.events = rest /\ new.next = old.next /\ new.attempt = old.attempt
      /\ new.start = old.start /\ new.finish = old.finish
  BY <1>0 DEF Journal
<1>a. PICK a : a = old.attempt
  OBVIOUS
<1>2. /\ old.start = None /\ Continues(a, old)
      /\ IF old.finish = None THEN AttemptAt(a, sessions[Me].index)
         ELSE ~Unnumbered(old.finish) /\ FinishAlone(old, out)
  BY <1>0, <1>a, AttachedForm
<1>3. /\ Continues(a, new) /\ Handed(new) = Handed(old) + k
      /\ \A e : Among(e, old.events) => Among(e, new.events) \/ Stored(a, e)
  <2>1. HeadStored(a, old.events, k) /\ new.events = rest /\ new.next = old.next
    BY <1>1, <1>a
  <2>2. Continues(a, old)
    BY <1>2
  <2>3. ASSUME NEW w, w.events = rest, w.next = old.next
        PROVE  /\ Continues(a, w) /\ Handed(w) = Handed(old) + k
               /\ \A e : Among(e, old.events) => Among(e, w.events) \/ Stored(a, e)
    BY <2>1, <2>2, <2>3, PrunedContinues
  <2> QED
    BY <2>1, <2>3
<1>4. \A b, e : Known(b, e, old) => Known(b, e, new)
  BY <1>1, <1>3, <1>a DEF Known
<1>5. /\ SubmitLast(rest) /\ Len(Batch(old.events)) <= k + Len(Batch(rest))
      /\ k \in Nat /\ rest \in Seq(PageEvent)
  <2>1. k \in Nat /\ rest \in Seq(PageEvent)
    BY <1>0, EventFields DEF Left
  <2> QED
    BY <1>0, <2>1, BatchPruned
<1>6. Handed(old) \in Nat /\ a \in DOMAIN attempts
  BY <1>2, ContinuesForm
<1>7. Top(old) \in Int /\ Top(new) \in Int /\ Top(old) <= Top(new)
  <2>1. Len(Batch(old.events)) \in Nat /\ Len(Batch(rest)) \in Nat
    BY <1>0, <1>5, BatchHead DEF SubmitLast
  <2>2. Top(old) = Handed(old) + Len(Batch(old.events)) /\ Top(new) = Handed(old) + k + Len(Batch(rest))
    BY <1>1, <1>3 DEF Top
  <2> QED
    BY <1>5, <1>6, <2>1, <2>2
<1>8. Unsent(new, out) <=> Unsent(old, out)
  BY <1>1 DEF Unsent
<1>9. ASSUME Unsent(new, out) PROVE Reaches(new.attempt, Top(new), out)
  <2>1. Reaches(a, Top(old), out)
    BY <1>0, <1>8, <1>9, <1>a DEF SentAlone
  <2> QED
    BY <1>1, <1>6, <1>7, <1>a, <2>1, ReachesMore
<1>10. SentAlone(new, out)
  BY <1>0, <1>1, <1>2, <1>4, <1>9, SentStays
<1>11. ASSUME old.finish # None PROVE FinishAlone(new, out)
  <2>1. FinishAlone(old, out)
    BY <1>2, <1>11
  <2>2. PICK c : c = old.finish
    OBVIOUS
  <2>3. /\ a = c.attempt
        /\ c.command[1] = "finish" /\ c.command[3] = attempts[a].index
        /\ c.events # <<>>
        /\ \A i \in DOMAIN c.events :
             /\ c.events[i].seq = new.next - 1 - Len(c.events) + i
             /\ Known(a, c.events[i], new)
    BY <1>1, <1>4, <1>a, <2>1, <2>2 DEF FinishAlone
  <2>4. attempts[a].finish = Unfinished \/ FinishedBy(c, new, out)
    BY <1>1, <1>a, <2>1, <2>2 DEF FinishAlone, FinishedBy
  <2>5. FinishRequest(c) \in out => Handed(new) + 1 >= c.events[1].seq
    <3> SUFFICES ASSUME FinishRequest(c) \in out PROVE Handed(new) + 1 >= c.events[1].seq
      OBVIOUS
    <3>1. Handed(old) + 1 >= c.events[1].seq
      BY <2>1, <2>2 DEF FinishAlone
    <3>2. c.events[1].seq \in Int
      <4>1. c \in FinishCommand
        BY <1>0, <1>11, <2>2, JournalFields
      <4>2. c.events \in Seq(PageEvent) /\ c.events # <<>>
        BY <2>3, <4>1 DEF FinishCommand
      <4>3. 1 \in DOMAIN c.events
        BY <4>2
      <4> QED
        BY <4>2, <4>3, EventFields
    <3> QED
      BY <1>3, <1>5, <1>6, <3>1, <3>2
  <2> QED
    BY <1>1, <1>3, <1>a, <2>2, <2>3, <2>4, <2>5 DEF FinishAlone
<1>12. JournalAlone(new, out)
  BY <1>1, <1>2, <1>3, <1>11, <1>a DEF JournalAlone
<1> QED
  BY <1>8, <1>10, <1>12 DEF InStep

\* reconcileEvents: what the server tells of the stream and the outbox fit.
LEMMA ReconcilableAlone ==
  ASSUME S!IInv, TablesAlone, NEW saved, GoodJournal(saved), NEW out, JournalAlone(saved, out),
         NEW v, GoodView(v), saved.attempt # NoAttempt, v.attempt = saved.attempt,
         Len(v.events) >= Handed(saved)
  PROVE  Reconcilable(v.events, saved.events, v.next_seq)
<1>a. PICK a, log, n, h, size, told :
        /\ a = saved.attempt /\ log = attempts[a].log /\ n = Len(saved.events)
        /\ h = Handed(saved) /\ size = Len(log) /\ told = Len(v.events)
  OBVIOUS
<1>0. S!TypeOK
  BY DEF S!IInv
<1>b. Continues(a, saved)
  BY <1>a, AttachedForm
<1>1. /\ n \in Nat /\ h \in Nat /\ size \in Nat /\ h <= size /\ size < saved.next
      /\ saved.next = h + n + 1
      /\ a \in DOMAIN attempts /\ DOMAIN log = 1..size
      /\ \A i \in 1..n :
           /\ saved.events[i].seq = h + i
           /\ Named(saved.events[i])
           /\ h + i <= size => log[h + i] = saved.events[i]
      /\ DOMAIN saved.events = 1..n /\ saved.events \in Seq(PageEvent)
  <2>1. saved.events \in Seq(PageEvent) /\ DOMAIN saved.events = 1..n /\ n \in Nat
    BY <1>a, JournalForm
  <2> QED
    BY <1>0, <1>a, <1>b, <2>1, ContinuesForm
<1>2. /\ told \in Nat /\ v.next_seq = told + 1 /\ DOMAIN v.events = 1..told /\ h <= told
      /\ \A j \in 1..told : j \in 1..size /\ log[j] = v.events[j]
  <2>1. /\ v.events \in Seq(PageEvent) /\ v.next_seq = Len(v.events) + 1 /\ Numbered(v.events)
        /\ \A j \in DOMAIN v.events : Stored(a, v.events[j])
    BY <1>a, ViewFields DEF GoodView
  <2>2. told \in Nat /\ DOMAIN v.events = 1..told
    BY <1>a, <2>1, EventFields
  <2>3. ASSUME NEW j \in 1..told PROVE j \in 1..size /\ log[j] = v.events[j]
    <3>1. v.events[j].seq = j /\ Stored(a, v.events[j])
      BY <2>1, <2>2 DEF Numbered
    <3> QED
      BY <1>1, <1>a, <3>1 DEF Stored
  <2> QED
    BY <1>1, <1>a, <2>1, <2>2, <2>3
<1>3. ASSUME NEW i \in 1..n, NEW j \in 1..told, h + i = j
      PROVE  saved.events[i] = v.events[j]
  <2>1. j \in 1..size /\ log[j] = v.events[j]
    BY <1>2
  <2> QED
    BY <1>1, <1>3, <2>1
<1>4. ASSUME NEW i \in 1..n, NEW j \in 1..told, saved.events[i].id = v.events[j].id
      PROVE  h + i = j
  <2>1. j \in 1..size /\ log[j] = v.events[j] /\ log[j].seq = j /\ Named(log[j])
        /\ (log[j].type = "submit" => j = size /\ attempts[a].finish # Unfinished)
    <3>1. j \in 1..size /\ log[j] = v.events[j]
      BY <1>2
    <3>2. j \in DOMAIN attempts[a].log
      BY <1>1, <1>a, <3>1
    <3> QED
      BY <1>1, <1>a, <3>1, <3>2, StreamForm DEF TablesAlone
  <2>2. saved.events[i].seq = h + i /\ Named(saved.events[i])
    BY <1>1
  <2>3. CASE log[j].id[2] # 0
    BY <1>4, <2>1, <2>2, <2>3 DEF Named
  <2>4. CASE log[j].id[2] = 0
    <3>1. saved.events[i].type = "submit" /\ log[j].type = "submit"
      BY <1>4, <2>1, <2>2, <2>4 DEF Named
    <3>2. i = n /\ saved.finish # None
      BY <1>1, <1>a, <3>1, JournalForm DEF SubmitLast, HasSubmit
    <3>3. FinishAlone(saved, out)
      BY <3>2, AttachedForm
    <3>4. j = size /\ size = saved.next - 1
      BY <1>a, <2>1, <3>1, <3>3 DEF FinishAlone, FinishedBy
    <3> QED
      BY <1>1, <3>2, <3>4
  <2> QED
    BY <2>3, <2>4
<1>5. ASSUME NEW i \in DOMAIN saved.events, NEW j \in DOMAIN v.events,
             saved.events[i].seq = v.events[j].seq \/ saved.events[i].id = v.events[j].id
      PROVE  saved.events[i] = v.events[j]
  <2>1. i \in 1..n /\ j \in 1..told
    BY <1>1, <1>2
  <2>2. CASE saved.events[i].id = v.events[j].id
    BY <1>3, <1>4, <2>1, <2>2
  <2>3. CASE saved.events[i].seq = v.events[j].seq
    <3>1. j \in DOMAIN attempts[a].log /\ log[j] = v.events[j]
      BY <1>1, <1>2, <1>a, <2>1
    <3>2. v.events[j].seq = j
      BY <1>1, <1>a, <3>1, StreamForm
    <3>3. h + i = j
      BY <1>1, <2>1, <2>3, <3>2
    <3> QED
      BY <1>3, <2>1, <3>3
  <2> QED
    BY <1>5, <2>2, <2>3
<1>6. ASSUME NEW i \in DOMAIN saved.events, saved.events[i].seq < v.next_seq
      PROVE  \E j \in DOMAIN v.events : v.events[j].seq = saved.events[i].seq
  <2>1. i \in 1..n /\ saved.events[i].seq = h + i
    BY <1>1
  <2>2. h + i \in 1..told
    BY <1>1, <1>2, <1>6, <2>1
  <2>3. h + i \in DOMAIN attempts[a].log /\ log[h + i] = v.events[h + i]
    BY <1>1, <1>2, <1>a, <2>2
  <2>4. v.events[h + i].seq = h + i
    BY <1>1, <1>a, <2>3, StreamForm
  <2> QED
    BY <1>2, <2>1, <2>2, <2>4
<1>7. ASSUME NEW i \in DOMAIN AckEvents(saved.events, v.next_seq)
      PROVE  AckEvents(saved.events, v.next_seq)[i].seq = v.next_seq + i - 1
  <2>1. Chain(saved.events) /\ v.next_seq \in Nat
    BY <1>2 DEF GoodJournal
  <2>2. PICK k \in 0..n :
          /\ AckEvents(saved.events, v.next_seq) \in Seq(PageEvent)
          /\ Len(AckEvents(saved.events, v.next_seq)) = n - k
          /\ \A x \in 1..(n - k) : AckEvents(saved.events, v.next_seq)[x] = saved.events[k + x]
          /\ \A x \in 1..n : saved.events[x].seq < v.next_seq <=> x <= k
    BY <1>1, <1>a, <2>1, Acknowledged
  <2>3. i \in 1..(n - k)
    BY <2>2, EventFields
  <2>4. k + 1 \in 1..n /\ k + i \in 1..n /\ ~(k + 1 <= k)
    BY <1>1, <2>2, <2>3
  <2>5. ~(h + (k + 1) < told + 1)
    BY <1>1, <1>2, <2>2, <2>4
  <2>6. k # 0 => h + k < told + 1
    <3>1. k # 0 => k \in 1..n /\ k <= k
      BY <1>1, <2>2
    <3> QED
      BY <1>1, <1>2, <2>2, <3>1
  <2>7. h + k = told
    BY <1>1, <1>2, <2>2, <2>5, <2>6
  <2>8. AckEvents(saved.events, v.next_seq)[i].seq = h + (k + i)
    BY <1>1, <2>2, <2>3, <2>4
  <2>9. h + (k + i) = told + 1 + i - 1
    BY <1>1, <1>2, <2>2, <2>3, <2>7
  <2> QED
    BY <1>2, <2>8, <2>9
<1> QED
  BY <1>5, <1>6, <1>7 DEF Reconcilable

\* The page's stream goes on where it was.
LEMMA ReopenedInStep ==
  ASSUME S!IInv, TablesAlone, NEW saved, GoodJournal(saved), NEW out,
         \A m \in out : GoodRequest(m), InStep(saved, out), saved.finish = None,
         saved.attempt # NoAttempt, NEW v, GoodView(v), v.attempt = saved.attempt,
         Len(v.events) >= Handed(saved),
         NEW rest, rest = Reconciled(saved.events, v.next_seq)
  PROVE  InStep(Reopened(saved, v, rest), out)
<1>a. PICK a, log, n, h, size, told :
        /\ a = saved.attempt /\ log = attempts[a].log /\ n = Len(saved.events)
        /\ h = Handed(saved) /\ size = Len(log) /\ told = Len(v.events)
  OBVIOUS
<1>0. S!TypeOK /\ saved \in Journal /\ JournalAlone(saved, out)
  BY JournalForm DEF S!IInv, InStep
<1>1. Continues(a, saved) /\ saved.start = None
  BY <1>0, <1>a, AttachedForm
<1>2. /\ n \in Nat /\ h \in Nat /\ size \in Nat /\ size < saved.next
      /\ saved.next = h + n + 1
      /\ DOMAIN attempts[a].log = 1..size
      /\ \A i \in 1..n : saved.events[i].seq = h + i
      /\ DOMAIN saved.events = 1..n /\ saved.events \in Seq(PageEvent) /\ Chain(saved.events)
  <2>1. saved.events \in Seq(PageEvent) /\ DOMAIN saved.events = 1..n /\ n \in Nat
        /\ Chain(saved.events)
    BY <1>a, JournalForm DEF GoodJournal
  <2> QED
    BY <1>0, <1>1, <1>a, <2>1, ContinuesForm
<1>3. Reconcilable(v.events, saved.events, v.next_seq)
  BY <1>0, ReconcilableAlone
<1>4. v.attempt # NoAttempt /\ v.next_seq = told + 1 /\ told \in Nat /\ h <= told
      /\ v.next_seq \in Nat
  BY <1>2, <1>a, ViewFields, EventFields DEF GoodView
<1>5. PICK k : Left(rest, saved.events, k) /\ HeadStored(v.attempt, saved.events, k)
  BY <1>2, <1>3, <1>4, ReconciledRest
<1>6. told <= size
  <2>1. CASE told = 0
    BY <1>2, <2>1
  <2>2. CASE told # 0
    <3>1. told \in DOMAIN v.events
      BY <1>4, <1>a, <2>2, ViewFields, EventFields
    <3>2. v.events[told].seq = told /\ Stored(a, v.events[told])
      BY <1>4, <1>a, <3>1 DEF GoodView, Numbered
    <3>3. told \in 1..size
      BY <1>2, <3>2 DEF Stored
    <3> QED
      BY <1>2, <3>3
  <2> QED
    BY <2>1, <2>2
<1>7. PICK j \in 0..n :
        /\ rest \in Seq(PageEvent) /\ Len(rest) = n - j
        /\ \A x \in 1..n : saved.events[x].seq < v.next_seq <=> x <= j
  BY <1>2, <1>4, <1>a, Acknowledged DEF Reconciled
<1>8. v.next_seq + Len(rest) = saved.next
  <2>1. CASE j = n
    <3>1. n # 0 => h + n < told + 1
      <4>1. n # 0 => n \in 1..n /\ n <= j
        BY <1>2, <2>1
      <4> QED
        BY <1>2, <1>4, <1>7, <4>1
    <3> QED
      BY <1>2, <1>4, <1>6, <1>7, <2>1, <3>1
  <2>2. CASE j # n
    <3>1. j + 1 \in 1..n /\ ~(j + 1 <= j)
      BY <1>2, <1>7, <2>2
    <3>2. ~(h + (j + 1) < told + 1)
      BY <1>2, <1>4, <1>7, <3>1
    <3>3. j # 0 => h + j < told + 1
      <4>1. j # 0 => j \in 1..n /\ j <= j
        BY <1>2, <1>7
      <4> QED
        BY <1>2, <1>4, <1>7, <4>1
    <3>4. h + j = told
      BY <1>2, <1>4, <1>7, <3>2, <3>3
    <3> QED
      <4>1. n \in Int /\ h \in Int /\ j \in Int /\ told \in Int
        BY <1>2, <1>4
      <4>2. told + 1 + (n - j) = h + n + 1
        BY ONLY <3>4, <4>1
      <4> QED
        BY <1>2, <1>4, <1>7, <4>2
  <2> QED
    BY <2>1, <2>2
<1>9. Reopened(saved, v, rest) = [saved EXCEPT !.events = rest]
  <2>1. saved = [attempt |-> saved.attempt, next |-> saved.next, events |-> saved.events,
                 start |-> saved.start, finish |-> saved.finish]
    BY <1>0 DEF Journal
  <2>2. Reopened(saved, v, rest) = [attempt |-> saved.attempt, next |-> saved.next,
                                    events |-> rest, start |-> None, finish |-> None]
    BY <1>8 DEF Reopened
  <2> QED
    BY <1>1, <2>1, <2>2
<1>10. HeadStored(saved.attempt, saved.events, k)
  BY <1>5
<1> QED
  BY <1>0, <1>5, <1>9, <1>10, PrunedInStep

\* The page takes up a stream of which it holds nothing.
LEMMA OpenedInStep ==
  ASSUME S!IInv, NEW saved, saved.attempt = NoAttempt, saved.finish = None, NEW out,
         \A m \in out : GoodRequest(m), InStep(saved, out),
         NEW a, AttemptAt(a, sessions[Me].index),
         NEW new, new.attempt = a, new.next = Len(attempts[a].log) + 1, new.events = <<>>,
         new.start = None, new.finish = None
  PROVE  InStep(new, out)
<1>1. S!TypeOK /\ a \in DOMAIN attempts /\ Owns(Me, a) /\ a # NoAttempt
      /\ Len(attempts[a].log) \in Nat /\ DOMAIN attempts[a].log = 1..Len(attempts[a].log)
  BY LogForm DEF S!IInv, AttemptAt, Owns
<1>a. PICK size : size = Len(attempts[a].log)
  OBVIOUS
<1>2. Handed(new) = size
  <2>1. Handed(new) = size + 1 - 1 - 0
    BY <1>a DEF Handed
  <2> QED
    BY <1>1, <1>a, <2>1
<1>3. size \in 0..size /\ size < new.next /\ size \in Nat
  BY <1>1, <1>a
<1>4. Continues(a, new)
  BY <1>1, <1>2, <1>3, <1>a DEF Continues
<1>5. JournalAlone(new, out)
  BY <1>1, <1>4 DEF JournalAlone
<1>6. ~NotStarted(Me)
  BY <1>1 DEF NotStarted, AttemptsAt, AttemptAt, Owns
<1>7. \A m \in out : m.kind = "events" => m.attempt # NoAttempt
  BY RequestForms, SessionAssumption DEF GoodRequest
<1>8. ASSUME NEW m \in out, m.kind = "events", NEW i \in DOMAIN m.events
      PROVE  Stored(m.attempt, m.events[i])
  BY <1>7, <1>8 DEF InStep, SentAlone, Known
<1>9. Top(new) = size
  <2>1. <<>> \in Seq(PageEvent) /\ ~HasSubmit(<<>>) /\ SubmitLast(<<>>) /\ Len(<<>>) = 0
    BY DEF HasSubmit, SubmitLast
  <2>2. Len(Batch(<<>>)) = Smaller(0, MaxEventsPerRequest)
    BY <2>1, BatchLength
  <2>3. Smaller(0, MaxEventsPerRequest) = 0
    BY LimitAssumption DEF Smaller
  <2>4. size + 0 = size
    BY <1>3
  <2> QED
    BY <1>2, <2>2, <2>3, <2>4 DEF Top
<1>10. Reaches(a, size, out)
  <2>1. ASSUME NEW m \in out, m.kind = "events", m.attempt = a, NEW i \in DOMAIN m.events
        PROVE  m.events[i].seq <= size
    <3>1. m.events[i].seq \in 1..size
      BY <1>1, <1>8, <1>a, <2>1 DEF Stored
    <3> QED
      BY <1>3, <3>1
  <2> QED
    BY <1>3, <1>a, <2>1 DEF Reaches
<1>11. SentAlone(new, out)
  <2>1. \A m \in out : m.kind = "start" =>
          /\ m.command[1] = "start" /\ m.command[3] = m.task
          /\ m.task <= sessions[Me].index
    BY DEF InStep, SentAlone
  <2>2. \A m \in out : m.kind = "finish" =>
          \/ EndOfBatch(m.body.events) = NoSeq
          \/ Owns(Me, m.attempt) /\ attempts[m.attempt].finish # Unfinished
    BY DEF InStep, SentAlone
  <2>3. \A m \in out : m.kind = "events" =>
          \A i \in DOMAIN m.events : Known(m.attempt, m.events[i], new)
    BY <1>8 DEF Known
  <2>4. Reaches(new.attempt, Top(new), out)
    BY <1>9, <1>10
  <2> QED
    BY <1>6, <2>1, <2>2, <2>3, <2>4 DEF SentAlone
<1> QED
  BY <1>5, <1>11 DEF InStep

\* A journal may be given up when its command has taken effect, or names no event of
\* the stream (ReloadProgress, Finished).
Over(saved) ==
  \/ saved.finish # None /\ (Unnumbered(saved.finish) \/ StoredBy(saved.finish))
  \/ saved.start # None /\ ~NotStarted(Me)

\* A journal that is over may be given up: the empty one is in step too.
LEMMA EmptyInStep ==
  ASSUME S!IInv, NEW saved, GoodJournal(saved), NEW out, \A m \in out : GoodRequest(m),
         InStep(saved, out), Over(saved)
  PROVE  InStep(EmptyJournal, out)
<1>0. S!TypeOK /\ JournalAlone(saved, out) /\ SentAlone(saved, out)
  BY DEF S!IInv, InStep
<1>1. /\ EmptyJournal.attempt = NoAttempt /\ EmptyJournal.start = None /\ EmptyJournal.finish = None
      /\ EmptyJournal.events = <<>>
  BY DEF EmptyJournal
<1>2. saved.start # None => saved.finish = None
  BY DEF GoodJournal
<1>3. JournalAlone(EmptyJournal, out)
  BY <1>1 DEF JournalAlone
<1>4. ASSUME NEW m \in out, m.kind = "start"
      PROVE  /\ m.command[1] = "start" /\ m.command[3] = m.task
             /\ m.task <= sessions[Me].index
             /\ ~(m.task = sessions[Me].index /\ NotStarted(Me))
  BY <1>0, <1>2, <1>4 DEF SentAlone, Over
<1>5. ASSUME NEW e, NEW a, a # NoAttempt, Known(a, e, saved)
      PROVE  Stored(a, e)
  <2> SUFFICES ASSUME a = saved.attempt, Among(e, saved.events) PROVE Stored(a, e)
    BY <1>5 DEF Known
  <2>1. /\ saved.start = None /\ Continues(a, saved)
        /\ saved.finish # None => ~Unnumbered(saved.finish) /\ FinishAlone(saved, out)
    BY <1>0, <1>5, AttachedForm
  <2>2. StoredBy(saved.finish) /\ FinishAlone(saved, out)
    BY <2>1 DEF Over
  <2>3. FinishedBy(saved.finish, saved, out) /\ saved.finish.attempt = a
    BY <2>2 DEF FinishAlone, StoredBy
  <2>4. Len(attempts[a].log) = saved.next - 1
    BY <2>3 DEF FinishedBy
  <2>5. PICK i \in DOMAIN saved.events : saved.events[i] = e
    BY DEF Among
  <2>6. /\ saved.events[i].seq = Handed(saved) + i
        /\ Handed(saved) + i <= Len(attempts[a].log) =>
             attempts[a].log[Handed(saved) + i] = saved.events[i]
        /\ Handed(saved) \in Nat /\ saved.next = Handed(saved) + Len(saved.events) + 1
        /\ DOMAIN attempts[a].log = 1..Len(attempts[a].log)
    BY <1>0, <2>1, <2>5, ContinuesForm
  <2>7. i \in 1..Len(saved.events) /\ Len(saved.events) \in Nat
    BY <2>5, JournalForm
  <2>8. Handed(saved) + i \in 1..Len(attempts[a].log)
    BY <2>4, <2>6, <2>7
  <2> QED
    BY <2>1, <2>5, <2>6, <2>8 DEF Stored, Continues
<1>6. ASSUME NEW m \in out, m.kind = "events", NEW i \in DOMAIN m.events
      PROVE  Known(m.attempt, m.events[i], EmptyJournal)
  <2>1. m.attempt # NoAttempt
    BY <1>6, RequestForms, SessionAssumption DEF GoodRequest
  <2>2. Known(m.attempt, m.events[i], saved)
    BY <1>0, <1>6 DEF SentAlone
  <2> QED
    BY <1>5, <2>1, <2>2 DEF Known
<1>7. ASSUME NEW m \in out, m.kind = "finish"
      PROVE  \/ EndOfBatch(m.body.events) = NoSeq
             \/ Owns(Me, m.attempt) /\ attempts[m.attempt].finish # Unfinished
  <2> SUFFICES ASSUME saved.finish # None, m = FinishRequest(saved.finish)
               PROVE  \/ EndOfBatch(m.body.events) = NoSeq
                      \/ Owns(Me, m.attempt) /\ attempts[m.attempt].finish # Unfinished
    BY <1>0, <1>7 DEF SentAlone
  <2>1. m.attempt = saved.finish.attempt /\ m.body.events = saved.finish.events
    BY DEF FinishRequest
  <2>2. Unnumbered(saved.finish) \/ StoredBy(saved.finish)
    BY <1>2 DEF Over
  <2> QED
    BY <2>1, <2>2 DEF Unnumbered, StoredBy, EndOfBatch
<1>8. SentAlone(EmptyJournal, out)
  BY <1>1, <1>4, <1>6, <1>7 DEF SentAlone
<1> QED
  BY <1>3, <1>8 DEF InStep

\* One more request of the journal is on its way.
LEMMA SentMore ==
  ASSUME NEW saved, NEW out, InStep(saved, out), NEW m, NEW more, more = out \cup {m},
         m.kind = "start" =>
           /\ m.command[1] = "start" /\ m.command[3] = m.task
           /\ m.task <= sessions[Me].index
           /\ m.task = sessions[Me].index /\ NotStarted(Me) =>
                saved.start # None /\ m = StartRequest(saved.start),
         m.kind = "events" => \A i \in DOMAIN m.events : Known(m.attempt, m.events[i], saved),
         m.kind = "finish" => saved.finish # None /\ m = FinishRequest(saved.finish),
         saved.finish # None /\ ~Unnumbered(saved.finish) /\ m.kind = "finish" =>
           Handed(saved) + 1 >= saved.finish.events[1].seq,
         saved.attempt # NoAttempt /\ Unsent(saved, more) => Reaches(saved.attempt, Top(saved), more)
  PROVE  InStep(saved, more)
<1>1. SentAlone(saved, out) /\ JournalAlone(saved, out)
  BY DEF InStep
<1>2. \A x \in more : x.kind = "start" =>
        /\ x.command[1] = "start" /\ x.command[3] = x.task
        /\ x.task <= sessions[Me].index
        /\ x.task = sessions[Me].index /\ NotStarted(Me) =>
             saved.start # None /\ x = StartRequest(saved.start)
  BY <1>1 DEF SentAlone
<1>3. \A x \in more : x.kind = "events" =>
        \A i \in DOMAIN x.events : Known(x.attempt, x.events[i], saved)
  BY <1>1 DEF SentAlone
<1>4. \A x \in more : x.kind = "finish" =>
        \/ EndOfBatch(x.body.events) = NoSeq
        \/ Owns(Me, x.attempt) /\ attempts[x.attempt].finish # Unfinished
        \/ saved.finish # None /\ x = FinishRequest(saved.finish)
  BY <1>1 DEF SentAlone
<1>5. SentAlone(saved, more)
  BY <1>2, <1>3, <1>4 DEF SentAlone
<1>6. ASSUME saved.finish # None, ~Unnumbered(saved.finish) PROVE FinishAlone(saved, more)
  <2>1. FinishAlone(saved, out)
    BY <1>1, <1>6 DEF JournalAlone
  <2>2. \A c : FinishedBy(c, saved, out) => FinishedBy(c, saved, more)
    BY DEF FinishedBy
  <2>3. FinishRequest(saved.finish) \in more => Handed(saved) + 1 >= saved.finish.events[1].seq
    <3>1. FinishRequest(saved.finish) \in out => Handed(saved) + 1 >= saved.finish.events[1].seq
      BY <2>1 DEF FinishAlone
    <3>2. FinishRequest(saved.finish).kind = "finish"
      BY DEF FinishRequest
    <3> QED
      BY <1>6, <3>1, <3>2
  <2> QED
    BY <2>1, <2>2, <2>3 DEF FinishAlone
<1>7. JournalAlone(saved, more)
  BY <1>1, <1>6 DEF JournalAlone
<1> QED
  BY <1>5, <1>7 DEF InStep

\* start: the command of a journal is sent, not for the first time perhaps.
LEMMA StartSent ==
  ASSUME S!IInv, NEW saved, NEW out, InStep(saved, out), saved.start # None,
         NEW m, m = StartRequest(saved.start), NEW more, more = out \cup {m}
  PROVE  InStep(saved, more)
<1>1. StartAlone(saved)
  BY DEF InStep, JournalAlone
<1>2. /\ m.kind = "start" /\ m.command = saved.start.command /\ m.task = saved.start.task
  BY DEF StartRequest
<1>3. saved.attempt = NoAttempt
  <2>1. saved = [EmptyJournal EXCEPT !.start = saved.start]
    BY <1>1 DEF StartAlone
  <2> QED
    BY <2>1 DEF EmptyJournal
<1>4. sessions[Me].index <= sessions[Me].index
  BY Ordering
<1> QED
  BY <1>1, <1>2, <1>3, <1>4, SentMore DEF StartAlone

\* start: the first time.
LEMMA StartInStep ==
  ASSUME S!IInv, NEW out, InStep(EmptyJournal, out), sessions[Me].index < TaskCount, NotStarted(Me),
         NEW s, s # None, s.task = sessions[Me].index, s.command[1] = "start",
         s.command[3] = s.task, s.skip => s.stamp.id[2] = 0,
         NEW saved, saved = [EmptyJournal EXCEPT !.start = s],
         NEW more, more = out \cup {StartRequest(s)}
  PROVE  InStep(saved, more)
<1>1. saved.start = s /\ saved.attempt = NoAttempt /\ saved.finish = None /\ saved.events = <<>>
  BY DEF EmptyJournal
<1>2. \A a \in DOMAIN attempts : ~AttemptAt(a, s.task)
  BY DEF NotStarted, AttemptsAt, AttemptAt, Owns
<1>3. StartAlone(saved)
  BY <1>1, <1>2 DEF StartAlone
<1>4. JournalAlone(saved, out)
  BY <1>1, <1>3 DEF JournalAlone
<1>5. SentAlone(saved, out)
  <2>1. EmptyJournal.start = None /\ EmptyJournal.finish = None /\ EmptyJournal.attempt = NoAttempt
        /\ EmptyJournal.events = <<>>
    BY DEF EmptyJournal
  <2>2. \A a, e : Known(a, e, EmptyJournal) => Known(a, e, saved)
    BY <1>1, <2>1 DEF Known
  <2>3. SentAlone(EmptyJournal, out)
    BY DEF InStep
  <2> QED
    BY <1>1, <2>1, <2>2, <2>3, SentStays
<1> QED
  BY <1>1, <1>4, <1>5, StartSent DEF InStep

\* The last event of the next checkpoint, by its number.
LEMMA EndsAtTop ==
  ASSUME S!TypeOK, NEW saved, GoodJournal(saved), NEW a, Continues(a, saved),
         Batch(saved.events) # <<>>
  PROVE  /\ EndOfBatch(Batch(saved.events)) = Top(saved)
         /\ Top(saved) \in Nat
         /\ \A i \in DOMAIN Batch(saved.events) :
              /\ i \in DOMAIN saved.events
              /\ Batch(saved.events)[i] = saved.events[i]
              /\ Batch(saved.events)[i].seq <= Top(saved)
<1>a. PICK n, h : n = Len(saved.events) /\ h = Handed(saved)
  OBVIOUS
<1>1. /\ saved.events \in Seq(PageEvent) /\ SubmitLast(saved.events) /\ n \in Nat
      /\ DOMAIN saved.events = 1..n /\ h \in Nat
      /\ \A i \in 1..n : saved.events[i].seq = h + i
  BY <1>a, JournalForm, ContinuesForm
<1>2. PICK k \in 0..n :
        /\ Batch(saved.events) \in Seq(PageEvent)
        /\ Len(Batch(saved.events)) = k
        /\ \A i \in 1..k : Batch(saved.events)[i] = saved.events[i]
  BY <1>1, <1>a, BatchHead DEF SubmitLast
<1>3. DOMAIN Batch(saved.events) = 1..k /\ k # 0
  BY <1>2, EventFields, NoneLeft
<1>4. Top(saved) = h + k /\ h + k \in Nat
  BY <1>1, <1>2, <1>a DEF Top
<1>5. k \in 1..n /\ k \in 1..k
  BY <1>1, <1>2, <1>3
<1>6. EndOfBatch(Batch(saved.events)) = h + k
  BY <1>1, <1>2, <1>5 DEF EndOfBatch
<1>7. ASSUME NEW i \in 1..k PROVE i \in 1..n /\ h + i <= h + k
  BY <1>1, <1>2
<1> QED
  BY <1>1, <1>2, <1>3, <1>4, <1>6, <1>7

\* flush and sendFinish: the next checkpoint.
LEMMA CheckpointSent ==
  ASSUME S!IInv, NEW saved, GoodJournal(saved), NEW out, InStep(saved, out),
         saved.attempt # NoAttempt, Unsent(saved, out), Batch(saved.events) # <<>>,
         NEW m, m = EventsRequest(saved.attempt, Batch(saved.events)),
         NEW more, more = out \cup {m}
  PROVE  /\ InStep(saved, more) /\ Unsent(saved, more)
         /\ Reaches(saved.attempt, EndOfBatch(m.events), more)
<1>a. PICK a : a = saved.attempt
  OBVIOUS
<1>0. S!TypeOK /\ JournalAlone(saved, out) /\ SentAlone(saved, out)
  BY DEF S!IInv, InStep
<1>1. Continues(a, saved)
  BY <1>0, <1>a, AttachedForm
<1>2. m.kind = "events" /\ m.attempt = a /\ m.events = Batch(saved.events)
  BY <1>a DEF EventsRequest
<1>3. /\ EndOfBatch(m.events) = Top(saved)
      /\ \A i \in DOMAIN m.events :
           /\ i \in DOMAIN saved.events
           /\ m.events[i] = saved.events[i]
           /\ m.events[i].seq <= Top(saved)
  BY <1>0, <1>1, <1>2, EndsAtTop
<1>4. Unsent(saved, more)
  <2>1. \A c : FinishRequest(c).kind = "finish"
    BY DEF FinishRequest
  <2> QED
    BY <1>2, <2>1 DEF Unsent
<1>5. Reaches(a, Top(saved), more)
  <2>1. Reaches(a, Top(saved), out)
    BY <1>0, <1>a DEF SentAlone
  <2> QED
    BY <1>3, <2>1 DEF Reaches
<1>6. \A i \in DOMAIN m.events : Known(m.attempt, m.events[i], saved)
  BY <1>2, <1>3, <1>a DEF Known, Among
<1>7. InStep(saved, more)
  BY <1>2, <1>5, <1>6, <1>a, SentMore
<1> QED
  BY <1>3, <1>4, <1>5, <1>7, <1>a

\* sendFinish: the frozen command, once the outbox begins with its events.
LEMMA FinishSent ==
  ASSUME S!IInv, NEW saved, GoodJournal(saved), NEW out, InStep(saved, out), saved.finish # None,
         \A i \in DOMAIN saved.events : ~(saved.events[i].seq < saved.finish.events[1].seq),
         NEW m, m = FinishRequest(saved.finish), NEW more, more = out \cup {m}
  PROVE  InStep(saved, more)
<1>0. S!TypeOK /\ JournalAlone(saved, out) /\ saved \in Journal
  BY JournalForm DEF S!IInv, InStep
<1>1. m.kind = "finish" /\ ~Unsent(saved, more)
  BY DEF FinishRequest, Unsent
<1>2. ASSUME ~Unnumbered(saved.finish)
      PROVE  Handed(saved) + 1 >= saved.finish.events[1].seq
  <2>a. PICK c, l, n, h : /\ c = saved.finish /\ l = Len(c.events) /\ n = Len(saved.events)
                          /\ h = Handed(saved)
    OBVIOUS
  <2>1. FinishAlone(saved, out)
    BY <1>0, <1>2 DEF JournalAlone
  <2>2. c.events \in Seq(PageEvent) /\ c.events # <<>>
    <3>1. c \in FinishCommand
      BY <1>0, <2>a, JournalFields
    <3> QED
      BY <2>1, <2>a, <3>1 DEF FinishAlone, FinishCommand
  <2>3. l \in Nat /\ 1 \in DOMAIN c.events /\ l >= 1
    BY <2>2, <2>a
  <2>4. /\ n \in Nat /\ h \in Nat /\ saved.next = h + n + 1 /\ DOMAIN saved.events = 1..n
        /\ \A i \in 1..n : saved.events[i].seq = h + i
    BY <1>0, <2>1, <2>a, JournalForm, ContinuesForm DEF FinishAlone
  <2>5. c.events[1].seq = saved.next - 1 - l + 1 /\ c.events[1].seq \in Int
    <3>1. c.events[1].seq = saved.next - 1 - l + 1
      BY <2>1, <2>3, <2>a DEF FinishAlone
    <3> QED
      BY <2>3, <2>4, <3>1
  <2>6. CASE n = 0
    BY <2>3, <2>4, <2>5, <2>6, <2>a
  <2>7. CASE n # 0
    <3>1. 1 \in 1..n /\ saved.events[1].seq = h + 1
      BY <2>4, <2>7
    <3>2. ~(h + 1 < c.events[1].seq)
      BY <2>4, <2>a, <3>1
    <3> QED
      BY <2>4, <2>5, <2>a, <3>2
  <2> QED
    BY <2>6, <2>7
<1> QED
  BY <1>1, <1>2, SentMore

-----------------------------------------------------------------------------
(* What a page does next, with a journal in step.                          *)

\* A page that waits for nothing.
LEMMA IdleAlone ==
  ASSUME NEW page \in Page, ~page.blocked, page.news = {}, NEW out, InStep(page.saved, out),
         Shows(page)
  PROVE  PageAlone(Idle(page), out) /\ Sending(Idle(page)) = {} /\ Idle(page).saved = page.saved
<1>1. /\ Idle(page).saved = page.saved /\ Idle(page).doing = "idle" /\ Idle(page).call = None
      /\ Idle(page).reply = None /\ Idle(page).blocked = page.blocked /\ Idle(page).news = page.news
      /\ Idle(page).index = page.index /\ Idle(page).completed = page.completed
      /\ Idle(page).attempt = page.attempt
  BY DEF Idle, Page
<1>2. CallAlone(Idle(page), out)
  BY <1>1 DEF CallAlone, Checkpoints
<1>3. Shows(Idle(page))
  BY <1>1 DEF Shows
<1> QED
  BY <1>1, <1>2, <1>3 DEF PageAlone, ShownAlone, Sending

\* A page that a conflict stops: its command has had its effect.
LEMMA BlockedAlone ==
  ASSUME NEW page \in Page, NEW out, InStep(page.saved, out), Shows(page), Spent(page.saved)
  PROVE  /\ PageAlone(Blocked(page), out) /\ Sending(Blocked(page)) = {}
         /\ Blocked(page).saved = page.saved
<1>1. PICK q : q = Blocked(page)
  OBVIOUS
<1>2. /\ q.saved = page.saved /\ q.doing = "idle" /\ q.call = None
      /\ q.reply = None /\ q.news = {}
      /\ q.index = page.index /\ q.completed = page.completed
      /\ q.attempt = page.attempt
  BY <1>1 DEF Blocked, Idle, Page
<1>3. CallAlone(q, out)
  BY <1>2 DEF CallAlone, Checkpoints
<1>4. Shows(q)
  BY <1>2 DEF Shows
<1>5. PageAlone(q, out) /\ Sending(q) = {}
  BY <1>2, <1>3, <1>4 DEF PageAlone, ShownAlone, Sending
<1> QED
  BY <1>1, <1>2, <1>5

\* A page that sends a request of its journal.
LEMMA CallingAlone ==
  ASSUME NEW page \in Page, ~page.blocked, page.news = {}, Shows(page), NEW out,
         NEW doing, NEW m \in Request, InStep(page.saved, out),
         doing \in {"starting", "finishing"} \cup Checkpoints,
         doing = "starting" => m = StartRequest(page.saved.start),
         doing = "finishing" => m = FinishRequest(page.saved.finish),
         doing \in Checkpoints =>
           /\ m.attempt = page.saved.attempt
           /\ Unsent(page.saved, out)
           /\ Reaches(page.saved.attempt, EndOfBatch(m.events), out)
  PROVE  /\ PageAlone(Calling(page, doing, m), out)
         /\ Sending(Calling(page, doing, m)) = {m}
         /\ Calling(page, doing, m).saved = page.saved
<1>1. PICK q : q = Calling(page, doing, m)
  OBVIOUS
<1>2. /\ q.saved = page.saved /\ q.doing = doing /\ q.call = m
      /\ q.reply = None /\ q.news = {} /\ q.blocked = page.blocked
      /\ q.index = page.index /\ q.completed = page.completed
      /\ q.attempt = page.attempt
  BY <1>1 DEF Calling, Page
<1>3. CallAlone(q, out)
  BY <1>2 DEF CallAlone
<1>4. Shows(q)
  BY <1>2 DEF Shows
<1>5. Sending(q) = {m}
  BY <1>2, RequestCall DEF Sending
<1>6. PageAlone(q, out)
  BY <1>2, <1>3, <1>4 DEF PageAlone, ShownAlone
<1> QED
  BY <1>1, <1>2, <1>5, <1>6

\* What page q sends with a step is in step with its journal then.
GoesOn(q, out) == PageAlone(q, out \cup Sending(q))

\* flush
LEMMA FlushingAlone ==
  ASSUME S!IInv, NEW page, Core(page), ~page.blocked, page.news = {}, Shows(page),
         NEW out, InStep(page.saved, out)
  PROVE  GoesOn(Flushing(page), out) /\ Flushing(page).saved = page.saved
<1>0. page \in Page /\ GoodJournal(page.saved)
  BY DEF Core
<1>a. PICK saved, m : saved = page.saved /\ m = EventsRequest(saved.attempt, Batch(saved.events))
  OBVIOUS
<1>1. CASE page.active /\ saved.finish = None /\ Batch(saved.events) # <<>>
  <2>1. Flushing(page) = Calling(page, "flushing", m)
    BY <1>1, <1>a DEF Flushing
  <2>2. saved.attempt # NoAttempt
    BY <1>1, <1>a DEF Core
  <2>3. m \in Request
    BY <1>0, <1>a, <2>2, CheckpointTyped
  <2>4. Unsent(saved, out)
    BY <1>1 DEF Unsent
  <2>5. /\ InStep(saved, out \cup {m}) /\ Unsent(saved, out \cup {m})
        /\ Reaches(saved.attempt, EndOfBatch(m.events), out \cup {m})
    BY <1>0, <1>1, <1>a, <2>2, <2>4, CheckpointSent
  <2>6. m.attempt = saved.attempt
    BY <1>a DEF EventsRequest
  <2>7. /\ PageAlone(Calling(page, "flushing", m), out \cup {m})
        /\ Sending(Calling(page, "flushing", m)) = {m}
        /\ Calling(page, "flushing", m).saved = page.saved
    BY <1>0, <1>a, <2>3, <2>5, <2>6, CallingAlone DEF Checkpoints
  <2> QED
    BY <2>1, <2>7 DEF GoesOn
<1>2. CASE ~(page.active /\ saved.finish = None /\ Batch(saved.events) # <<>>)
  <2>1. Flushing(page) = Idle(page)
    BY <1>2, <1>a DEF Flushing
  <2>2. /\ PageAlone(Idle(page), out) /\ Sending(Idle(page)) = {} /\ Idle(page).saved = page.saved
    BY <1>0, IdleAlone
  <2> QED
    BY <2>1, <2>2 DEF GoesOn
<1> QED
  BY <1>1, <1>2

\* sendFinish
LEMMA SendFinishAlone ==
  ASSUME S!IInv, NEW page, Core(page), ~page.blocked, page.news = {}, Shows(page),
         NEW out, InStep(page.saved, out), page.saved.finish # None
  PROVE  GoesOn(SendFinish(page), out) /\ SendFinish(page).saved = page.saved
<1>0. page \in Page /\ GoodJournal(page.saved) /\ page.saved \in Journal
  BY DEF Core, Page
<1>a. PICK saved, c, m, f :
        /\ saved = page.saved /\ c = saved.finish
        /\ m = EventsRequest(c.attempt, Batch(saved.events)) /\ f = FinishRequest(c)
  OBVIOUS
<1>1. CASE \E i \in DOMAIN saved.events : saved.events[i].seq < c.events[1].seq
  <2>1. SendFinish(page) = Calling(page, "draining", m)
    BY <1>1, <1>a DEF SendFinish
  <2>2. PICK i \in DOMAIN saved.events : saved.events[i].seq < c.events[1].seq
    BY <1>1
  <2>3. ~Unnumbered(c) /\ FinishAlone(saved, out)
    <3>1. saved.events[i].seq \in Nat
      BY <1>0, <1>a, JournalForm, EventFields
    <3>2. Unnumbered(c) => Len(c.events) = 1 /\ c.events[Len(c.events)].seq = NoSeq
      BY <1>a DEF InStep, JournalAlone, Unnumbered
    <3>3. ~Unnumbered(c)
      BY <2>2, <3>1, <3>2 DEF NoSeq
    <3> QED
      BY <1>a, <3>3 DEF InStep, JournalAlone
  <2>4. S!TypeOK /\ saved.attempt = c.attempt /\ Continues(c.attempt, saved) /\ c.attempt # NoAttempt
    <3>1. saved.attempt = c.attempt /\ Continues(c.attempt, saved)
      BY <1>a, <2>3 DEF FinishAlone
    <3>2. S!TypeOK /\ c.attempt \in DOMAIN attempts
      BY <3>1 DEF S!IInv, Continues, Owns
    <3> QED
      BY <3>1, <3>2, LogForm
  <2>5. Unsent(saved, out)
    <3> SUFFICES ASSUME FinishRequest(c) \in out PROVE FALSE
      BY <1>a DEF Unsent
    <3>1. Handed(saved) + 1 >= c.events[1].seq
      BY <1>a, <2>3 DEF FinishAlone
    <3>2. saved.events[i].seq = Handed(saved) + i /\ Handed(saved) \in Nat /\ i \in 1..Len(saved.events)
          /\ Len(saved.events) \in Nat
      BY <1>0, <1>a, <2>2, <2>4, ContinuesForm, JournalForm
    <3>3. c.events[1].seq \in Nat
      <4>1. c \in FinishCommand
        BY <1>0, <1>a, JournalFields
      <4>2. c.events \in Seq(PageEvent) /\ c.events # <<>>
        BY <1>a, <2>3, <4>1 DEF FinishAlone, FinishCommand
      <4>3. 1 \in DOMAIN c.events
        BY <4>2
      <4> QED
        BY <4>2, <4>3, EventFields
    <3> QED
      BY <2>2, <3>1, <3>2, <3>3
  <2>6. Batch(saved.events) # <<>>
    <3>1. saved.events \in Seq(PageEvent) /\ SubmitLast(saved.events) /\ saved.events # <<>>
          /\ DOMAIN saved.events = 1..Len(saved.events) /\ Len(saved.events) \in Nat
      BY <1>0, <1>a, <2>2, JournalForm
    <3>2. 1 \in DOMAIN saved.events /\ i >= 1
      BY <2>2, <3>1
    <3>3. saved.events[1].seq = Handed(saved) + 1 /\ saved.events[i].seq = Handed(saved) + i
          /\ Handed(saved) \in Nat
      BY <1>0, <1>a, <2>2, <2>4, <3>2, ContinuesForm
    <3>4. c.events[1].seq \in Nat
      <4>1. c \in FinishCommand
        BY <1>0, <1>a, JournalFields
      <4>2. c.events \in Seq(PageEvent) /\ c.events # <<>>
        BY <1>a, <2>3, <4>1 DEF FinishAlone, FinishCommand
      <4>3. 1 \in DOMAIN c.events
        BY <4>2
      <4> QED
        BY <4>2, <4>3, EventFields
    <3>5. ~(saved.events[1].seq >= c.events[1].seq)
      BY <2>2, <3>1, <3>2, <3>3, <3>4
    <3>6. saved.events[1].type # "submit"
      BY <1>0, <1>a, <3>2, <3>5 DEF GoodJournal
    <3>7. Len(Batch(saved.events)) > 0
      BY <3>1, <3>6, BatchHead DEF SubmitLast
    <3> QED
      BY <3>7
  <2>7. m \in Request /\ m.attempt = saved.attempt
    BY <1>0, <1>a, <2>4, CheckpointTyped DEF EventsRequest
  <2>8. /\ InStep(saved, out \cup {m}) /\ Unsent(saved, out \cup {m})
        /\ Reaches(saved.attempt, EndOfBatch(m.events), out \cup {m})
    BY <1>0, <1>a, <2>4, <2>5, <2>6, CheckpointSent
  <2>9. /\ PageAlone(Calling(page, "draining", m), out \cup {m})
        /\ Sending(Calling(page, "draining", m)) = {m}
        /\ Calling(page, "draining", m).saved = page.saved
    BY <1>0, <1>a, <2>7, <2>8, CallingAlone DEF Checkpoints
  <2> QED
    BY <2>1, <2>9 DEF GoesOn
<1>2. CASE \A i \in DOMAIN saved.events : ~(saved.events[i].seq < c.events[1].seq)
  <2>1. SendFinish(page) = Calling(page, "finishing", f)
    BY <1>2, <1>a DEF SendFinish
  <2>2. f \in Request
    BY <1>0, <1>a, RequestsMade
  <2>3. InStep(saved, out \cup {f})
    BY <1>0, <1>2, <1>a, FinishSent
  <2>4. /\ PageAlone(Calling(page, "finishing", f), out \cup {f})
        /\ Sending(Calling(page, "finishing", f)) = {f}
        /\ Calling(page, "finishing", f).saved = page.saved
    BY <1>0, <1>a, <2>2, <2>3, CallingAlone DEF Checkpoints
  <2> QED
    BY <2>1, <2>4 DEF GoesOn
<1> QED
  BY <1>1, <1>2

-----------------------------------------------------------------------------
(* The page's step is done.                                                *)

\* While the server does nothing, what is in step with it remains so.
LEMMA AloneStays ==
  ASSUME UNCHANGED server
  PROVE  /\ TablesAlone <=> TablesAlone'
         /\ \A saved, out : InStep(saved, out) <=> InStep(saved, out)'
         /\ \A saved : Spent(saved) <=> Spent(saved)'
         /\ \A page : Shows(page) <=> Shows(page)'
         /\ \A page, out : PageAlone(page, out) <=> PageAlone(page, out)'
<1>0. UNCHANGED <<now, suspended, sessions, attempts, commands, data_bytes>>
  BY DEF server
<1>1. /\ \A a, saved : Continues(a, saved) <=> Continues(a, saved)'
      /\ \A a, i : AttemptAt(a, i) <=> AttemptAt(a, i)'
      /\ NotStarted(Me) <=> NotStarted(Me)'
      /\ \A a, e, saved : Known(a, e, saved) <=> Known(a, e, saved)'
      /\ \A a : Owns(Me, a) <=> Owns(Me, a)'
      /\ \A a, n, out : Reaches(a, n, out) <=> Reaches(a, n, out)'
      /\ \A c : StoredBy(c) <=> StoredBy(c)'
  <2>1. \A a : Owns(Me, a) <=> Owns(Me, a)'
    BY <1>0 DEF Owns
  <2>2. \A a, i : AttemptAt(a, i) <=> AttemptAt(a, i)'
    BY <1>0, <2>1 DEF AttemptAt
  <2>3. NotStarted(Me) <=> NotStarted(Me)'
    BY <1>0 DEF NotStarted, AttemptsAt
  <2>4. \A a, e : Stored(a, e) <=> Stored(a, e)'
    BY <1>0, <2>1 DEF Stored
  <2>5. \A a, e, saved : Known(a, e, saved) <=> Known(a, e, saved)'
    BY <2>4 DEF Known
  <2>6. \A a, saved : Continues(a, saved) <=> Continues(a, saved)'
    BY <1>0, <2>1 DEF Continues
  <2>7. \A a, n, out : Reaches(a, n, out) <=> Reaches(a, n, out)'
    BY <1>0 DEF Reaches
  <2>8. \A c : StoredBy(c) <=> StoredBy(c)'
    BY <1>0, <2>1 DEF StoredBy
  <2> QED
    BY <2>1, <2>2, <2>3, <2>5, <2>6, <2>7, <2>8
<1>2. TablesAlone <=> TablesAlone'
  BY <1>0 DEF TablesAlone
<1>3. \A saved, out : InStep(saved, out) <=> InStep(saved, out)'
  <2>1. \A saved : StartAlone(saved) <=> StartAlone(saved)'
    BY <1>0, <1>1 DEF StartAlone
  <2>2. \A c, saved, out : FinishedBy(c, saved, out) <=> FinishedBy(c, saved, out)'
    BY <1>0, <1>1 DEF FinishedBy
  <2>3. \A saved, out : FinishAlone(saved, out) <=> FinishAlone(saved, out)'
    BY <1>0, <1>1, <2>2 DEF FinishAlone
  <2>4. \A saved, out : JournalAlone(saved, out) <=> JournalAlone(saved, out)'
    BY <1>0, <1>1, <2>1, <2>3 DEF JournalAlone
  <2>5. \A saved, out : SentAlone(saved, out) <=> SentAlone(saved, out)'
    BY <1>0, <1>1 DEF SentAlone
  <2> QED
    BY <2>4, <2>5 DEF InStep
<1>4. \A saved : Spent(saved) <=> Spent(saved)'
  BY <1>0, <1>1 DEF Spent
<1>5. \A page, out : CallAlone(page, out) <=> CallAlone(page, out)'
  <2>1. \A saved, v : LoadedView(saved, v) <=> LoadedView(saved, v)'
    BY <1>0, <1>1 DEF LoadedView
  <2> QED
    BY <1>0, <1>1, <1>4, <2>1 DEF CallAlone
<1>6. /\ \A page : Shows(page) <=> Shows(page)'
      /\ \A page : ShownAlone(page) <=> ShownAlone(page)'
  BY <1>0, <1>1 DEF ShownAlone, Shows
<1>7. \A page, out : PageAlone(page, out) <=> PageAlone(page, out)'
  BY <1>3, <1>4, <1>5, <1>6 DEF PageAlone
<1> QED
  BY <1>2, <1>3, <1>4, <1>6, <1>7

\* A step of the only tab.
LEMMA StepAlone ==
  ASSUME ClientInv, OneTab, AloneInv, UNCHANGED server, NEW t \in Pages, NEW q, GoesOn(q, sent),
         (Step(t, q) /\ q.saved = journal) \/ Persist(t, q)
  PROVE  AloneInv'
<1>1. \A u \in Pages : u = t
  BY DEF OneTab
<1>2. pages'[t] = q /\ sent' = sent \cup Sending(q) /\ q.saved = journal'
  <2>1. CASE Step(t, q) /\ q.saved = journal
    BY <2>1 DEF Step, ClientInv
  <2>2. CASE Persist(t, q)
    BY <2>2 DEF Persist
  <2> QED
    BY <2>1, <2>2
<1>3. PageAlone(q, sent')
  BY <1>2 DEF GoesOn
<1>4. PICK out : out = sent'
  OBVIOUS
<1>5. PageAlone(q, out)' /\ TablesAlone'
  BY <1>3, <1>4, AloneStays DEF AloneInv
<1> QED
  BY <1>1, <1>2, <1>4, <1>5 DEF AloneInv

\* The only tab, its requests and its journal.
LEMMA OnlyTab ==
  ASSUME ClientInv, OneTab, AloneInv, NEW t \in Pages
  PROVE  /\ PageAlone(pages[t], sent) /\ pages[t].saved = journal /\ InStep(pages[t].saved, sent)
         /\ pages[t].news = {} /\ Sound(pages[t]) /\ pages[t] \in Page
         /\ GoodJournal(pages[t].saved) /\ pages[t].saved \in Journal
         /\ \A m \in sent : GoodRequest(m)
         /\ S!IInv /\ TablesAlone
         /\ \A u \in Pages : u = t
         /\ pages[t].doing \notin {"closed", "loading"} => Ready(pages[t]) /\ Shows(pages[t])
<1>1. PICK p : p = pages[t]
  OBVIOUS
<1>2. Sound(p) /\ p \in Page /\ GoodJournal(p.saved) /\ p.saved \in Journal
      /\ (p.doing \notin {"closed", "loading"} => Ready(p))
  BY <1>1, PageFacts
<1>3. PageAlone(p, sent) /\ p.saved = journal /\ TablesAlone
  BY <1>1 DEF AloneInv
<1> QED
  BY <1>1, <1>2, <1>3 DEF PageAlone, ShownAlone, ClientInv, OneTab

\* start, up to the call.
LEMMA StartingAlone ==
  ASSUME S!IInv, NEW page, Core(page), ~page.blocked, page.news = {}, Shows(page),
         NEW out, InStep(page.saved, out), page.saved.finish = None, NEW skip \in BOOLEAN,
         page.saved.start # None
           \/ (page.attempt = NoAttempt /\ ~page.completed /\ page.saved = EmptyJournal)
  PROVE  /\ GoesOn(Starting(page, skip), out)
         /\ page.saved.start # None => Starting(page, skip).saved = page.saved
<1>a. PICK c : c = [command |-> <<"start", page.epoch, page.index>>, task |-> page.index,
                    skip |-> skip, stamp |-> IF skip THEN Stamp(page, 0) ELSE None]
  OBVIOUS
<1>b. PICK new, m : /\ new = IF page.saved.start = None THEN [page EXCEPT !.saved.start = c] ELSE page
                    /\ m = StartRequest(new.saved.start)
  OBVIOUS
<1>1. page \in Page /\ page.saved \in Journal /\ page.epoch \in Nat /\ page.index \in Nat
  BY DEF Core, Page
<1>2. Starting(page, skip) = Calling(new, "starting", m)
  BY <1>a, <1>b DEF Starting
<1>3. /\ new \in Page /\ ~new.blocked /\ new.news = {} /\ Shows(new)
      /\ new.saved.start # None /\ InStep(new.saved, out \cup {m})
      /\ page.saved.start # None => new.saved = page.saved
  <2>1. CASE page.saved.start # None
    <3>1. new = page
      BY <1>b, <2>1
    <3> QED
      BY <1>1, <1>b, <2>1, <3>1, StartSent
  <2>2. CASE page.saved.start = None
    <3>1. c \in StartCommand /\ c # None
      <4>1. <<"start", page.epoch, page.index>> \in CommandId
        BY <1>1 DEF CommandId
      <4>2. Stamp(page, 0) \in [id: Nat \X Nat, epoch: Nat]
        BY <1>1, StampMade
      <4>3. c \in StartCommand
        BY <1>1, <1>a, <4>1, <4>2 DEF StartCommand
      <4> QED
        BY <4>3, NoneAssumption
    <3>2. PICK saved : saved = [EmptyJournal EXCEPT !.start = c]
      OBVIOUS
    <3>3. /\ page.saved = EmptyJournal /\ page.attempt = NoAttempt /\ ~page.completed
          /\ saved.start = c /\ saved.finish = None /\ saved \in Journal
      <4>1. saved.start = c /\ saved.finish = None
        BY <3>2 DEF EmptyJournal
      <4>2. saved \in Journal
        BY <3>1, <3>2, EmptyGood DEF Journal
      <4> QED
        BY <2>2, <4>1, <4>2
    <3>4. new = [page EXCEPT !.saved = saved]
      BY <1>1, <1>b, <2>2, <3>2, <3>3 DEF Page
    <3>5. new \in Page
      BY <1>1, <3>3, <3>4, Zenon DEF Page
    <3>6. /\ new.saved = saved /\ new.attempt = NoAttempt /\ new.index = page.index
          /\ new.completed = page.completed /\ new.blocked = page.blocked /\ new.news = page.news
      BY <1>1, <3>3, <3>4 DEF Page
    <3>7. /\ page.index = sessions[Me].index /\ (page.completed <=> page.index >= TaskCount)
          /\ NotStarted(Me)
      BY <3>3 DEF Shows, EmptyJournal
    <3>8. sessions[Me].index < TaskCount
      <4>1. sessions[Me].index \in Nat /\ TaskCount \in Nat
        BY Ordering
      <4> QED
        BY <3>3, <3>7, <4>1
    <3>9. /\ c.task = sessions[Me].index /\ c.command[1] = "start" /\ c.command[3] = c.task
          /\ c.skip => c.stamp.id[2] = 0
      <4>1. c.task = page.index /\ c.command = <<"start", page.epoch, page.index>> /\ c.skip = skip
            /\ (skip => c.stamp = Stamp(page, 0))
        BY <1>a
      <4>2. Stamp(page, 0).id[2] = 0
        BY DEF Stamp
      <4> QED
        BY <3>7, <4>1, <4>2
    <3>10. m = StartRequest(c)
      BY <1>b, <3>3, <3>6
    <3>11. InStep(saved, out \cup {m})
      BY <3>1, <3>2, <3>3, <3>7, <3>8, <3>9, <3>10, StartInStep
    <3>12. Shows(new)
      BY <3>1, <3>3, <3>6, <3>7 DEF Shows
    <3> QED
      BY <2>2, <3>1, <3>3, <3>5, <3>6, <3>11, <3>12
  <2> QED
    BY <2>1, <2>2
<1>4. m \in Request
  <2>1. new.saved \in Journal
    BY <1>3 DEF Page
  <2> QED
    BY <1>b, <1>3, <2>1, RequestsMade
<1>5. /\ PageAlone(Calling(new, "starting", m), out \cup {m})
      /\ Sending(Calling(new, "starting", m)) = {m}
      /\ Calling(new, "starting", m).saved = new.saved
  <2>1. m = StartRequest(new.saved.start)
    BY <1>b
  <2>2. "starting" \in {"starting", "finishing"} \cup Checkpoints /\ "starting" # "finishing"
        /\ "starting" \notin Checkpoints
    BY DEF Checkpoints
  <2>3. PICK outs : outs = out \cup {m}
    OBVIOUS
  <2> QED
    BY <1>3, <1>4, <2>1, <2>2, <2>3, CallingAlone
<1> QED
  BY <1>2, <1>3, <1>5 DEF GoesOn

\* start: the buttons.
LEMMA StartTaskAlone ==
  ASSUME ClientInv, OneTab, AloneInv, NEW t \in Pages, NEW skip \in BOOLEAN, StartTask(t, skip),
         UNCHANGED server
  PROVE  AloneInv'
<1>a. PICK p : p = pages[t]
  OBVIOUS
<1>1. /\ p.doing \in {"idle", "flushing"} /\ ~p.blocked /\ p.saved.finish = None /\ ~p.completed
      /\ Sound(p) /\ Ready(p) /\ Shows(p) /\ p.news = {} /\ InStep(p.saved, sent) /\ S!IInv
      /\ p.saved = journal /\ Core(p)
  <2>1. p.doing \in {"idle", "flushing"} /\ ~p.blocked /\ p.saved.finish = None /\ ~p.completed
    BY <1>a DEF StartTask, Free
  <2> QED
    BY <1>a, <2>1, OnlyTab, PageFacts
<1>2. CASE p.saved.start = None
  <2>1. p.attempt = NoAttempt /\ Persist(t, Starting(p, skip))
    BY <1>a, <1>2 DEF StartTask
  <2>2. p.saved = EmptyJournal
    BY <1>1, <1>2, <2>1 DEF Ready
  <2>3. GoesOn(Starting(p, skip), sent)
    BY <1>1, <2>1, <2>2, StartingAlone
  <2> QED
    BY <2>1, <2>3, StepAlone
<1>3. CASE p.saved.start # None
  <2>1. Step(t, Starting(p, FALSE))
    BY <1>a, <1>3 DEF StartTask
  <2>2. GoesOn(Starting(p, FALSE), sent) /\ Starting(p, FALSE).saved = journal
    BY <1>1, <1>3, StartingAlone
  <2> QED
    BY <2>1, <2>2, StepAlone
<1> QED
  BY <1>2, <1>3

\* flush, when it has something to send.
LEMMA FlushAlone ==
  ASSUME ClientInv, OneTab, AloneInv, NEW t \in Pages, Flush(t), UNCHANGED server
  PROVE  AloneInv'
<1>a. PICK p : p = pages[t]
  OBVIOUS
<1>1. p.doing = "idle" /\ Flushing(p) # Idle(p) /\ Step(t, Flushing(p))
  BY <1>a DEF Flush
<1>2. ~p.blocked
  BY <1>1 DEF Flushing
<1>3. /\ Shows(p) /\ p.news = {} /\ InStep(p.saved, sent) /\ S!IInv /\ p.saved = journal /\ Core(p)
  BY <1>a, <1>1, OnlyTab, PageFacts
<1>4. GoesOn(Flushing(p), sent) /\ Flushing(p).saved = journal
  BY <1>2, <1>3, FlushingAlone
<1> QED
  BY <1>1, <1>4, StepAlone

\* finish, once more.
LEMMA RetryFinishAlone ==
  ASSUME ClientInv, OneTab, AloneInv, NEW t \in Pages, RetryFinish(t), UNCHANGED server
  PROVE  AloneInv'
<1>a. PICK p : p = pages[t]
  OBVIOUS
<1>1. p.doing \in {"idle", "flushing"} /\ ~p.blocked /\ p.saved.finish # None
      /\ Step(t, SendFinish(p))
  BY <1>a DEF RetryFinish, Free
<1>2. /\ Shows(p) /\ p.news = {} /\ InStep(p.saved, sent) /\ S!IInv /\ p.saved = journal /\ Core(p)
  BY <1>a, <1>1, OnlyTab, PageFacts
<1>3. GoesOn(SendFinish(p), sent) /\ SendFinish(p).saved = journal
  BY <1>1, <1>2, SendFinishAlone
<1> QED
  BY <1>1, <1>3, StepAlone

-----------------------------------------------------------------------------
(* Browsing.                                                               *)

\* A page in the middle of its code.
Steady(page, out) ==
  /\ Core(page)
  /\ ~page.blocked
  /\ page.news = {}
  /\ Shows(page)
  /\ InStep(page.saved, out)

\* A new event is named after its number.
LEMMA NewNamed ==
  ASSUME NEW page \in Page, NEW what \in Seq(Deed), page.saved.next \in Nat, page.saved.next > 0
  PROVE  \A i \in 1..Len(what) : Named(NewEvents(page, what)[i])
<1> SUFFICES ASSUME NEW i \in 1..Len(what) PROVE Named(NewEvents(page, what)[i])
  OBVIOUS
<1>1. PICK n, e : n = page.saved.next + i - 1 /\ e = NewEvents(page, what)[i]
  OBVIOUS
<1>2. e = MakeEvent(Stamp(page, n), n, what[i].type, what[i].node, NoOutcome)
  BY <1>1 DEF NewEvents
<1>3. e.seq = n /\ e.id = Stamp(page, n).id
  BY <1>2 DEF MakeEvent
<1>4. e.id[2] = n
  BY <1>3 DEF Stamp
<1>5. n # 0
  <2>1. Len(what) \in Nat
    OBVIOUS
  <2> QED
    BY <1>1, <2>1
<1> QED
  BY <1>1, <1>3, <1>4, <1>5 DEF Named

\* record
LEMMA RecordedAlone ==
  ASSUME S!IInv, NEW page, NEW out, Steady(page, out), Ready(page), \A m \in out : GoodRequest(m),
         NEW what \in Seq(Deed), NEW q, q = Recorded(page, what)
  PROVE  Steady(q, out) /\ Ready(q) /\ SameCall(page, q)
<1>1. Core(page) /\ page \in Page /\ page.saved \in Journal /\ GoodJournal(page.saved)
  BY DEF Steady, Core, Page
<1>2. Core(q) /\ Ready(q) /\ SameCall(page, q) /\ q \in Page
  BY <1>1, RecordedSound DEF Core
<1>3. q.news = {} /\ q.completed = page.completed
  BY <1>1 DEF Recorded, Steady, Page
<1>4. Shows(q)
  BY <1>2, <1>3 DEF Shows, SameCall, Steady
<1>5. InStep(q.saved, out)
  <2>1. CASE ~page.active \/ page.blocked \/ page.saved.finish # None
    <3>1. q = page
      BY <2>1 DEF Recorded
    <3> QED
      BY <3>1 DEF Steady
  <2>2. CASE page.active /\ ~page.blocked /\ page.saved.finish = None
    <3>1. PICK old, more, new :
            old = page.saved /\ more = NewEvents(page, what) /\ new = q.saved
      OBVIOUS
    <3>2. old.attempt # NoAttempt /\ old.start = None /\ old.finish = None
      BY <1>1, <2>2, <3>1 DEF Core
    <3>3. S!TypeOK /\ InStep(old, out) /\ GoodJournal(old) /\ old \in Journal
      BY <1>1, <3>1 DEF S!IInv, Steady
    <3>4. Continues(old.attempt, old)
      BY <3>2, <3>3, AttachedForm DEF InStep
    <3>5. old.next \in Nat /\ old.next > 0
      <4>1. Handed(old) \in Nat /\ old.next = Handed(old) + Len(old.events) + 1
            /\ Len(old.events) \in Nat
        BY <3>3, <3>4, ContinuesForm, JournalForm
      <4> QED
        BY <4>1
    <3>6. /\ more \in Seq(PageEvent) /\ Len(more) = Len(what)
          /\ \A i \in 1..Len(what) :
               more[i].seq = old.next + i - 1 /\ Named(more[i]) /\ more[i].type # "submit"
      BY <1>1, <3>1, <3>5, NewEventsTyped, NewNamed
    <3>7. q = [page EXCEPT !.saved.events = @ \o more, !.saved.next = @ + Len(what),
                           !.stream = @ \o more]
      BY <2>2, <3>1, Zenon DEF Recorded, NewEvents
    <3>8. new = [old EXCEPT !.events = @ \o more, !.next = @ + Len(what)]
      BY <1>1, <3>1, <3>7 DEF Page, Journal
    <3>9. InStep(new, out)
      BY <3>2, <3>3, <3>6, <3>8, MoreInStep
    <3> QED
      BY <3>1, <3>9
  <2> QED
    BY <2>1, <2>2
<1>6. ~q.blocked
  BY <1>2 DEF SameCall, Steady
<1> QED
  BY <1>2, <1>3, <1>4, <1>5, <1>6 DEF Steady

\* acceptSession: the tree comes on screen.
LEMMA EnteredAlone ==
  ASSUME S!IInv, NEW page, NEW out, Steady(page, out), Ready(page), \A m \in out : GoodRequest(m),
         NEW resuming
  PROVE  Steady(Entered(page, resuming), out)
<1>1. page.here \in Places
  BY DEF Steady, Core, Page
<1>2. /\ <<[type |-> "tree_shown", node |-> Root]>> \in Seq(Deed)
      /\ <<[type |-> "resume", node |-> page.here]>> \in Seq(Deed)
  <2>1. "tree_shown" \in EventTypes \ {"submit"} /\ "resume" \in EventTypes \ {"submit"}
    BY DEF EventTypes, Moves
  <2> QED
    BY <1>1, <2>1, PlacesHold, DeedMade
<1>3. /\ Steady(Recorded(page, <<[type |-> "tree_shown", node |-> Root]>>), out)
      /\ Steady(Recorded(page, <<[type |-> "resume", node |-> page.here]>>), out)
  BY <1>2, RecordedAlone
<1> QED
  BY <1>3, Zenon DEF Entered

\* What the participant does in the tree leaves a checkpoint on its way as it is.
LEMMA BrowseAlone ==
  ASSUME ClientInv, OneTab, AloneInv, NEW t \in Pages, NEW p, p = pages[t],
         p.doing \in {"idle", "flushing"}, ~p.blocked, p.active, p.saved.finish = None,
         NEW what \in Seq(Deed), NEW here \in Places, NEW selected \in {None} \cup Places,
         NEW q, q = [Recorded(p, what) EXCEPT !.here = here, !.selected = selected]
  PROVE  GoesOn(q, sent) /\ Steady(q, sent) /\ q.doing = p.doing
<1>a. PICK r : r = Recorded(p, what)
  OBVIOUS
<1>1. /\ Steady(p, sent) /\ Ready(p) /\ PageAlone(p, sent) /\ S!IInv /\ p \in Page
      /\ \A m \in sent : GoodRequest(m)
      /\ p.call \in sent \cup {None, SessionRequest}
  BY OnlyTab, PageFacts DEF Steady
<1>2. Steady(r, sent) /\ SameCall(p, r) /\ r \in Page
  <2>1. Steady(r, sent) /\ SameCall(p, r)
    BY <1>1, <1>a, RecordedAlone
  <2> QED
    BY <2>1 DEF Steady, Core
<1>3. /\ q.saved = r.saved /\ q.index = r.index /\ q.attempt = r.attempt
      /\ q.blocked = r.blocked /\ q.news = r.news /\ q.completed = r.completed
      /\ q.doing = r.doing /\ q.call = r.call /\ q.reply = r.reply
  BY <1>2, <1>a DEF Page
<1>4. Core(q)
  BY <1>a, BrowseSound
<1>5. Shows(q) /\ InStep(q.saved, sent) /\ q.news = {} /\ ~q.blocked
  BY <1>2, <1>3 DEF Shows, Steady
<1>6. CallAlone(q, sent)
  <2>1. /\ q.doing = p.doing /\ q.call = p.call /\ q.reply = p.reply
        /\ q.saved.attempt = p.saved.attempt /\ q.saved.finish = None
    BY <1>2, <1>3 DEF SameCall
  <2>2. CallAlone(p, sent)
    BY <1>1 DEF PageAlone
  <2>3. /\ p.doing # "starting" /\ p.doing # "finishing" /\ p.doing # "loading"
        /\ p.doing \notin {"starting", "finishing"}
    OBVIOUS
  <2>4. Unsent(q.saved, sent)
    BY <2>1 DEF Unsent
  <2> QED
    BY <2>1, <2>2, <2>3, <2>4 DEF CallAlone
<1>7. PageAlone(q, sent)
  BY <1>5, <1>6 DEF PageAlone, ShownAlone
<1>8. sent \cup Sending(q) = sent
  <2>1. Sending(q) \subseteq sent
    BY <1>1, <1>2, <1>3 DEF Sending, SameCall
  <2> QED
    BY <2>1
<1> QED
  BY <1>2, <1>3, <1>4, <1>5, <1>7, <1>8 DEF GoesOn, Steady, SameCall

\* treeView choose
LEMMA ChooseAlone ==
  ASSUME ClientInv, OneTab, AloneInv, NEW t \in Pages, NEW n \in Selectable, Choose(t, n),
         UNCHANGED server
  PROVE  AloneInv'
<1>a. PICK p : p = pages[t]
  OBVIOUS
<1>b. PICK way : way = IF n = p.here THEN <<>> ELSE Route(p.here, Parent[n])
  OBVIOUS
<1>c. PICK here : here = IF n = p.here THEN n ELSE Parent[n]
  OBVIOUS
<1>d. PICK what : what = Append(way, [type |-> "select", node |-> n])
  OBVIOUS
<1>e. PICK q : q = [Recorded(p, what) EXCEPT !.here = here, !.selected = n]
  OBVIOUS
<1>1. p.doing \in {"idle", "flushing"} /\ ~p.blocked /\ p.active /\ p.saved.finish = None
  BY <1>a DEF Choose, Browsing, Free
<1>2. n \in Nodes /\ Parent[n] \in Nodes \cup {Root}
  BY TreeAssumption
<1>3. n \in Places /\ here \in Places
  BY <1>2, <1>c, PlacesHold
<1>4. what \in Seq(Deed)
  <2>1. way \in Seq(Deed)
    BY <1>2, <1>b, RouteTyped
  <2>2. [type |-> "select", node |-> n] \in Deed
    BY <1>3, DeedMade DEF EventTypes
  <2> QED
    BY <1>d, <2>1, <2>2
<1>5. GoesOn(q, sent)
  BY <1>1, <1>3, <1>4, <1>a, <1>e, BrowseAlone
<1>6. Persist(t, q)
  BY <1>a, <1>b, <1>c, <1>d, <1>e, Zenon DEF Choose
<1> QED
  BY <1>5, <1>6, StepAlone

\* treeView navigate
LEMMA NavigateAlone ==
  ASSUME ClientInv, OneTab, AloneInv, NEW t \in Pages, NEW type \in {"back", "root"},
         NEW n \in Nodes \cup {Root}, Navigate(t, type, n), UNCHANGED server
  PROVE  AloneInv'
<1>a. PICK p : p = pages[t]
  OBVIOUS
<1>b. PICK what : what = <<[type |-> type, node |-> n]>>
  OBVIOUS
<1>c. PICK q : q = [Recorded(p, what) EXCEPT !.here = n, !.selected = None]
  OBVIOUS
<1>1. p.doing \in {"idle", "flushing"} /\ ~p.blocked /\ p.active /\ p.saved.finish = None
  BY <1>a DEF Navigate, Browsing, Free
<1>2. n \in Places
  BY PlacesHold
<1>3. what \in Seq(Deed)
  BY <1>2, <1>b, DeedMade DEF EventTypes, Moves
<1>4. GoesOn(q, sent)
  BY <1>1, <1>2, <1>3, <1>a, <1>c, BrowseAlone
<1>5. Persist(t, q)
  BY <1>a, <1>b, <1>c, Zenon DEF Navigate
<1> QED
  BY <1>4, <1>5, StepAlone

\* The visibilitychange listener.
LEMMA VisibilityAlone ==
  ASSUME ClientInv, OneTab, AloneInv, NEW t \in Pages,
         NEW type \in {"visibility_hidden", "visibility_visible"}, Visibility(t, type),
         UNCHANGED server
  PROVE  AloneInv'
<1>a. PICK p : p = pages[t]
  OBVIOUS
<1>b. PICK what : what = <<[type |-> type, node |-> p.here]>>
  OBVIOUS
<1>c. PICK new : new = Recorded(p, what)
  OBVIOUS
<1>1. p.doing \in {"idle", "flushing"} /\ ~p.blocked /\ p.active /\ p.saved.finish = None
  BY <1>a DEF Visibility, Browsing, Free
<1>2. p \in Page /\ Core(p) /\ Ready(p) /\ S!IInv
  BY <1>1, <1>a, PageFacts DEF ClientInv
<1>3. p.here \in Places /\ p.selected \in {None} \cup Places
  BY <1>2 DEF Page
<1>4. what \in Seq(Deed)
  BY <1>3, <1>b, DeedMade DEF EventTypes, Moves
<1>5. new = [new EXCEPT !.here = p.here, !.selected = p.selected]
  <2>1. new \in Page
    BY <1>2, <1>4, <1>c, RecordedSound DEF Core
  <2>2. new.here = p.here /\ new.selected = p.selected
    BY <1>2, <1>c DEF Recorded, Page
  <2> QED
    BY <2>1, <2>2 DEF Page
<1>6. PICK here, selected : here = p.here /\ selected = p.selected
  OBVIOUS
<1>7. new = [Recorded(p, what) EXCEPT !.here = here, !.selected = selected]
  BY <1>5, <1>6, <1>c
<1>8. GoesOn(new, sent) /\ Steady(new, sent)
  BY <1>1, <1>3, <1>4, <1>6, <1>7, <1>a, BrowseAlone, ZenonT(30)
<1>9. Persist(t, IF type = "visibility_hidden" /\ p.doing = "idle" THEN Flushing(new) ELSE new)
  BY <1>a, <1>b, <1>c, Zenon DEF Visibility
<1>10. GoesOn(Flushing(new), sent)
  BY <1>2, <1>8, FlushingAlone DEF Steady
<1> QED
  BY <1>8, <1>9, <1>10, StepAlone

-----------------------------------------------------------------------------
(* Confirming an answer.                                                   *)

\* finish: the answer to the attempt that the journal holds.
LEMMA FreezeAlone ==
  ASSUME S!IInv, NEW page \in Page, page.attempt # NoAttempt, NEW outcome \in Outcomes,
         NEW node \in Places, NEW stamp \in [id: Nat \X Nat, epoch: Nat],
         stamp.id[2] \in {0, page.saved.next},
         NEW out, \A m \in out : GoodRequest(m), NEW old, GoodJournal(old), InStep(old, out),
         old.attempt = page.attempt, old.start = None, old.finish = None,
         page.saved.attempt = old.attempt, page.saved.next = old.next,
         page.saved.events = old.events, page.index = sessions[Me].index,
         NEW q, q = Freeze(page, outcome, node, stamp)
  PROVE  InStep(q.saved, out) /\ Unsent(q.saved, out)
<1>a. PICK submit, c : /\ submit = SubmitOf(page, outcome, node, stamp)
                       /\ c = CommandOf(page, outcome, node, submit)
  OBVIOUS
<1>1. /\ submit \in PageEvent /\ submit.seq = old.next /\ submit.type = "submit"
      /\ submit.id = stamp.id
      /\ c \in FinishCommand /\ c.attempt = old.attempt
      /\ c.events = TailEvents(Append(old.events, submit))
      /\ c.command[1] = "finish" /\ c.command[3] = sessions[Me].index
      /\ q.saved = [attempt |-> old.attempt, events |-> Append(old.events, submit), start |-> None,
                    next |-> IF old.next = NoSeq THEN NoSeq ELSE old.next + 1, finish |-> c]
  <2>1. /\ submit \in PageEvent /\ submit.seq = page.saved.next /\ submit.type = "submit"
        /\ submit.id = stamp.id
        /\ c \in FinishCommand /\ c.attempt = page.attempt
        /\ c.events = TailEvents(Append(page.saved.events, submit))
        /\ c.command[1] = "finish" /\ c.command[3] = page.index
        /\ q.saved = FrozenWith(page.saved, submit, c)
    BY <1>a, FreezeForm
  <2> QED
    BY <2>1, Zenon DEF FrozenWith
<1>2. Named(submit)
  BY <1>1 DEF Named
<1>3. S!TypeOK /\ Continues(old.attempt, old)
  BY AttachedForm DEF S!IInv, InStep
<1>4. old.next # NoSeq
  <2>1. Handed(old) \in Nat /\ old.next = Handed(old) + Len(old.events) + 1 /\ Len(old.events) \in Nat
    BY <1>3, ContinuesForm, JournalForm
  <2> QED
    BY <2>1 DEF NoSeq
<1>5. PICK new : new = q.saved
  OBVIOUS
<1>6. new = [attempt |-> old.attempt, events |-> Append(old.events, submit), start |-> None,
             next |-> old.next + 1, finish |-> c]
  BY <1>1, <1>4, <1>5
<1>7. InStep(new, out) /\ Unsent(new, out)
  BY <1>1, <1>2, <1>6, FrozenInStep
<1> QED
  BY <1>5, <1>7

\* finish on a page that has not opened the task it shows.
LEMMA FreezeUnopened ==
  ASSUME S!IInv, NEW page, Core(page), page.attempt # NoAttempt, NEW outcome \in Outcomes,
         NEW node \in Places, NEW stamp \in [id: Nat \X Nat, epoch: Nat],
         NEW out, \A m \in out : GoodRequest(m), InStep(page.saved, out),
         page.saved.start # None, page.index = sessions[Me].index,
         NEW q, q = Freeze(page, outcome, node, stamp)
  PROVE  InStep(q.saved, out)
<1>a. PICK old, submit, c : /\ old = page.saved
                            /\ submit = SubmitOf(page, outcome, node, stamp)
                            /\ c = CommandOf(page, outcome, node, submit)
  OBVIOUS
<1>1. old.attempt = NoAttempt /\ old.next = NoSeq /\ old.events = <<>> /\ old.finish = None
      /\ old.start # None
  BY <1>a DEF InStep, JournalAlone, StartAlone, EmptyJournal
<1>2. AttemptAt(page.attempt, sessions[Me].index) /\ page \in Page
  BY DEF Core
<1>3. /\ submit \in PageEvent /\ submit.seq = NoSeq
      /\ c # None /\ c.attempt = page.attempt
      /\ c.events = TailEvents(Append(old.events, submit))
      /\ q.saved = [attempt |-> NoAttempt, events |-> Append(old.events, submit), start |-> None,
                    next |-> IF old.next = NoSeq THEN NoSeq ELSE old.next + 1, finish |-> c]
  <2>1. /\ submit \in PageEvent /\ submit.seq = page.saved.next
        /\ c # None /\ c.attempt = page.attempt
        /\ c.events = TailEvents(Append(page.saved.events, submit))
        /\ q.saved = FrozenWith(page.saved, submit, c)
    BY <1>2, <1>a, FreezeForm
  <2> QED
    BY <1>1, <1>a, <2>1, Zenon DEF FrozenWith
<1>4. Append(old.events, submit) = <<submit>>
  BY <1>1
<1>5. c.events = <<submit>>
  <2>1. PICK s : s = <<submit>>
    OBVIOUS
  <2>2. s \in Seq(PageEvent) /\ s # <<>> /\ Len(s) = 1 /\ s[1] = submit
    BY <1>3, <2>1
  <2>3. PICK k \in 0..(Len(s) - 1) : TailEvents(s) = SubSeq(s, k + 1, Len(s))
    BY <2>2, FrozenTail
  <2>4. k = 0
    BY <2>2, <2>3
  <2>5. TailEvents(s) = s
    BY <2>2, <2>3, <2>4
  <2> QED
    BY <1>3, <1>4, <2>1, <2>5
<1>6. Unnumbered(c) /\ Len(c.events) = 1
  BY <1>3, <1>5 DEF Unnumbered
<1>7. ~NotStarted(Me)
  BY <1>2 DEF AttemptAt, Owns, NotStarted, AttemptsAt
<1>8. PICK new : new = q.saved
  OBVIOUS
<1>9. new.attempt = NoAttempt /\ new.start = None /\ new.finish = c
  BY <1>3, <1>8
<1>10. InStep(old, out) /\ AttemptAt(c.attempt, sessions[Me].index)
  BY <1>2, <1>3, <1>a
<1>11. InStep(new, out)
  BY <1>1, <1>3, <1>6, <1>7, <1>9, <1>10, UnnumberedInStep
<1> QED
  BY <1>8, <1>11

SendsAlone ==
  \A page, out : S!IInv /\ Steady(page, out) /\ page.saved.finish # None
    => GoesOn(SendFinish(page), out) /\ SendFinish(page).saved = page.saved

\* The same, over a step.
LEMMA SendsStay == SendsAlone
BY SendFinishAlone DEF SendsAlone, Steady

\* A page sends the command that it has just frozen.
LEMMA SendFinishLater ==
  ASSUME UNCHANGED server, S!IInv', NEW page, Core(page)', ~page.blocked, page.news = {},
         Shows(page), NEW out, InStep(page.saved, out), page.saved.finish # None
  PROVE  GoesOn(SendFinish(page), out)
<1>1. SendsAlone'
  BY SendsStay, PTL
<1>2. Shows(page)' /\ InStep(page.saved, out)'
  BY AloneStays
<1>3. Steady(page, out)'
  BY <1>2 DEF Steady
<1>4. GoesOn(SendFinish(page), out)'
  BY <1>1, <1>3 DEF SendsAlone
<1>5. PICK q : q = SendFinish(page)
  OBVIOUS
<1>6. PageAlone(q, out \cup Sending(q))'
  BY <1>4, <1>5 DEF GoesOn
<1>7. PageAlone(q, out \cup Sending(q))
  BY <1>6, AloneStays
<1> QED
  BY <1>5, <1>7 DEF GoesOn

\* The participant confirms.
LEMMA ConfirmAlone ==
  ASSUME ClientInv, OneTab, AloneInv, NEW t \in Pages, NEW outcome \in Answers, Confirm(t, outcome),
         UNCHANGED server
  PROVE  AloneInv'
<1>a. PICK p : p = pages[t]
  OBVIOUS
<1>b. PICK node : node = IF outcome = "selected" THEN p.selected ELSE Root
  OBVIOUS
<1>c. PICK stamp : stamp = Stamp(p, p.saved.next)
  OBVIOUS
<1>d. PICK new : new = Freeze(p, outcome, node, stamp)
  OBVIOUS
<1>e. PICK q : q = IF new.doing = "flushing" THEN [new EXCEPT !.doing = "waiting"] ELSE SendFinish(new)
  OBVIOUS
<1>1. /\ p.doing \in {"idle", "flushing"} /\ ~p.blocked /\ p.attempt # NoAttempt
      /\ p.saved.finish = None /\ (outcome = "selected" => p.selected # None)
  BY <1>a DEF Confirm, Free
<1>2. Persist(t, q) /\ confirmed' = confirmed \cup {Confirmation(new)}
  BY <1>a, <1>b, <1>c, <1>d, <1>e, Zenon DEF Confirm
<1>3. /\ Core(p) /\ Ready(p) /\ p \in Page /\ p.saved \in Journal /\ GoodJournal(p.saved)
      /\ Busy(p)
      /\ PageAlone(p, sent) /\ Shows(p) /\ p.news = {} /\ InStep(p.saved, sent) /\ S!IInv
      /\ \A m \in sent : GoodRequest(m)
      /\ p.call \in sent \cup {None, SessionRequest}
  BY <1>1, <1>a, OnlyTab, PageFacts DEF Sound
<1>4. outcome \in Outcomes /\ node \in Places
  BY <1>1, <1>3, <1>b, PlacesHold, ClientAssumption DEF Page
<1>5. stamp \in [id: Nat \X Nat, epoch: Nat] /\ stamp.id[2] = p.saved.next
  <2>1. stamp \in [id: Nat \X Nat, epoch: Nat]
    BY <1>3, <1>c, StampMade, JournalFields
  <2> QED
    BY <2>1, <1>c DEF Stamp
<1>6. p.index = sessions[Me].index
  BY <1>1, <1>3 DEF Shows
<1>7. UNCHANGED server /\ confirmed \subseteq confirmed' /\ Confirmation(new) \in confirmed'
  BY <1>2
<1>8. Grown /\ S!IInv'
  BY <1>7, Carried, Still
<1>9. /\ Core(new)' /\ new.saved.finish # None /\ new.doing = p.doing /\ new.call = p.call
      /\ new.reply = p.reply /\ new.blocked = p.blocked /\ new.index = p.index
  <2>1. p.saved.start # None \/ Placed(p)
    BY <1>1, <1>3 DEF Ready
  <2> QED
    BY <1>1, <1>3, <1>4, <1>5, <1>7, <1>8, <1>d, <2>1, FreezeSound
<1>10. /\ new.news = p.news /\ new.completed = p.completed
       /\ new.saved.attempt = p.saved.attempt
  <2>1. PICK submit, c : /\ submit = SubmitOf(p, outcome, node, stamp)
                         /\ c = CommandOf(p, outcome, node, submit)
    OBVIOUS
  <2>2. /\ new.news = p.news /\ new.completed = p.completed
        /\ new.saved = FrozenWith(p.saved, submit, c)
    BY <1>1, <1>3, <1>4, <1>5, <1>d, <2>1, FreezeForm
  <2> QED
    BY <2>2 DEF FrozenWith
<1>11. InStep(new.saved, sent) /\ (p.saved.start = None => Unsent(new.saved, sent))
  <2>1. CASE p.saved.start = None
    <3>1. p.saved.attempt = p.attempt
      BY <1>1, <1>3, <2>1 DEF Ready
    <3>2. stamp.id[2] \in {0, p.saved.next}
      BY <1>5
    <3>3. PICK old : old = p.saved
      OBVIOUS
    <3>4. /\ GoodJournal(old) /\ InStep(old, sent) /\ old.attempt = p.attempt /\ old.start = None
          /\ old.finish = None /\ p.saved.attempt = old.attempt /\ p.saved.next = old.next
          /\ p.saved.events = old.events
      BY <1>1, <1>3, <2>1, <3>1, <3>3
    <3> QED
      BY <1>1, <1>3, <1>4, <1>5, <1>6, <1>d, <3>2, <3>4, FreezeAlone
  <2>2. CASE p.saved.start # None
    BY <1>1, <1>3, <1>4, <1>5, <1>6, <1>d, <2>2, FreezeUnopened
  <2> QED
    BY <2>1, <2>2
<1>12. Shows(new) /\ ~new.blocked /\ new.news = {}
  BY <1>1, <1>3, <1>9, <1>10 DEF Shows
<1>13. GoesOn(q, sent)
  <2>1. CASE new.doing = "flushing"
    <3>1. q = [new EXCEPT !.doing = "waiting"] /\ p.doing = "flushing" /\ new \in Page
      BY <1>9, <1>e, <2>1 DEF Core
    <3>2. /\ q.saved = new.saved /\ q.doing = "waiting" /\ q.call = p.call /\ q.reply = p.reply
          /\ q.news = new.news /\ q.blocked = new.blocked /\ q.index = new.index
          /\ q.completed = new.completed /\ q.attempt = new.attempt
      BY <1>9, <3>1 DEF Page
    <3>3. p.saved.start = None
      BY <1>3, <3>1 DEF Busy, Checkpoints, Carries
    <3>4. CallAlone(p, sent) /\ p.doing \in Checkpoints /\ q.doing \in Checkpoints
      BY <1>3, <3>1, <3>2 DEF PageAlone, Checkpoints
    <3>5. CallAlone(q, sent)
      <4>1. /\ p.call.attempt = p.saved.attempt
            /\ Reaches(p.saved.attempt, EndOfBatch(p.call.events), sent)
            /\ p.reply # None => p.reply # Conflict
            /\ p.reply \notin {None, Conflict, Failure} =>
                 p.reply.value.next_seq = EndOfBatch(p.call.events) + 1
        BY <3>1, <3>4 DEF CallAlone
      <4>2. Unsent(q.saved, sent) /\ q.saved.attempt = p.saved.attempt
        BY <1>10, <1>11, <3>2, <3>3
      <4> QED
        BY <3>2, <3>4, <4>1, <4>2 DEF CallAlone
    <3>6. Shows(q)
      BY <1>12, <3>2 DEF Shows
    <3>7. PageAlone(q, sent)
      BY <1>11, <1>12, <3>2, <3>5, <3>6 DEF PageAlone, ShownAlone
    <3>8. sent \cup Sending(q) = sent
      <4>1. Sending(q) \subseteq sent
        BY <1>3, <3>2 DEF Sending
      <4> QED
        BY <4>1
    <3> QED
      BY <3>7, <3>8 DEF GoesOn
  <2>2. CASE new.doing # "flushing"
    <3>1. q = SendFinish(new)
      BY <1>e, <2>2
    <3> QED
      BY <1>8, <1>9, <1>11, <1>12, <3>1, SendFinishLater
  <2> QED
    BY <2>1, <2>2
<1> QED
  BY <1>2, <1>13, StepAlone

-----------------------------------------------------------------------------
(* Taking over a session.                                                  *)

\* A session that the journal fits.
Suits(saved, v) ==
  /\ GoodView(v)
  /\ v.index = sessions[Me].index
  /\ v.completed <=> v.index >= TaskCount
  /\ v.attempt = NoAttempt => saved = EmptyJournal /\ NotStarted(Me)
  /\ v.attempt # NoAttempt =>
       /\ saved.attempt \in {NoAttempt, v.attempt}
       /\ saved.attempt = NoAttempt => Len(v.events) = Len(attempts[v.attempt].log)
       /\ saved.attempt = v.attempt => Len(v.events) >= Handed(saved)

\* It is accepted ...
LEMMA SuitsAccepted ==
  ASSUME S!IInv, TablesAlone, NEW page \in Page, GoodJournal(page.saved), NEW out,
         InStep(page.saved, out), NEW v, Suits(page.saved, v)
  PROVE  ~Unacceptable(page, v)
<1> SUFFICES ASSUME v.attempt # NoAttempt
             PROVE  Reconcilable(v.events, Pending(page, v), v.next_seq)
  BY DEF Unacceptable, Suits
<1>1. GoodView(v) /\ v.next_seq \in Nat
  BY ViewFields DEF Suits
<1>2. CASE page.saved.attempt = v.attempt
  <2>1. Pending(page, v) = page.saved.events
    BY <1>2 DEF Pending
  <2>2. Len(v.events) >= Handed(page.saved)
    BY <1>2 DEF Suits
  <2> QED
    BY <1>1, <1>2, <2>1, <2>2, ReconcilableAlone DEF InStep
<1>3. CASE page.saved.attempt # v.attempt
  <2>1. Pending(page, v) = <<>>
    BY <1>3 DEF Pending
  <2>2. AckEvents(<<>>, v.next_seq) = <<>>
    BY <1>1, NothingLeft
  <2> QED
    BY <2>1, <2>2 DEF Reconcilable
<1> QED
  BY <1>2, <1>3

\* ... and the journal is in step with it then.
LEMMA SuitsInStep ==
  ASSUME S!IInv, TablesAlone, NEW page \in Page, GoodJournal(page.saved), NEW out,
         \A m \in out : GoodRequest(m), InStep(page.saved, out), page.saved.finish = None,
         NEW v, Suits(page.saved, v), v.attempt # NoAttempt,
         NEW rest, rest = Reconciled(Pending(page, v), v.next_seq)
  PROVE  /\ InStep(Reopened(page.saved, v, rest), out)
         /\ page.saved.attempt = NoAttempt =>
              rest = <<>> /\ Reopened(page.saved, v, rest).next = v.next_seq
<1>a. PICK saved, new : saved = page.saved /\ new = Reopened(saved, v, rest)
  OBVIOUS
<1>1. GoodView(v) /\ v.next_seq = Len(v.events) + 1 /\ v.next_seq \in Nat
      /\ AttemptAt(v.attempt, sessions[Me].index)
  BY ViewFields DEF Suits, GoodView
<1>2. CASE saved.attempt = v.attempt
  <2>1. Pending(page, v) = saved.events /\ saved.attempt # NoAttempt
    BY <1>2, <1>a DEF Pending
  <2>2. Len(v.events) >= Handed(saved) /\ v.attempt = saved.attempt
    BY <1>2, <1>a DEF Suits
  <2>3. InStep(saved, out) /\ GoodJournal(saved) /\ saved.finish = None
        /\ rest = Reconciled(saved.events, v.next_seq)
    BY <1>a, <2>1
  <2>4. InStep(Reopened(saved, v, rest), out)
    BY <1>1, <2>1, <2>2, <2>3, ReopenedInStep
  <2> QED
    BY <1>a, <2>1, <2>4
<1>3. CASE saved.attempt # v.attempt
  <2>1. Pending(page, v) = <<>> /\ saved.attempt = NoAttempt
    BY <1>3, <1>a DEF Pending, Suits
  <2>2. rest = <<>> /\ Len(rest) = 0
    BY <1>1, <2>1, NothingLeft DEF Reconciled
  <2>3. Len(v.events) = Len(attempts[v.attempt].log)
    BY <1>a, <2>1 DEF Suits
  <2>4. /\ new.attempt = v.attempt /\ new.events = <<>> /\ new.start = None /\ new.finish = None
        /\ new.next = v.next_seq + Len(rest)
    BY <1>a, <2>2 DEF Reopened
  <2>5. new.next = v.next_seq
    BY <1>1, <2>2, <2>4
  <2>6. new.next = Len(attempts[v.attempt].log) + 1
    BY <1>1, <2>3, <2>5
  <2>7. InStep(saved, out) /\ saved.finish = None
    BY <1>a
  <2>8. InStep(new, out)
    BY <1>1, <2>1, <2>4, <2>6, <2>7, OpenedInStep
  <2> QED
    BY <1>a, <2>2, <2>5, <2>8
<1> QED
  BY <1>2, <1>3

\* acceptSession, the page active.
LEMMA RestoredAlone ==
  ASSUME S!IInv, TablesAlone, NEW page \in Page, GoodJournal(page.saved), ~page.blocked,
         page.news = {}, NEW out, \A m \in out : GoodRequest(m), InStep(page.saved, out),
         page.saved.finish = None, NEW v, Suits(page.saved, v), NEW q, q = Resumed(page, v)
  PROVE  Steady(q, out) /\ Ready(q)
<1>a. PICK rest : rest = Reconciled(Pending(page, v), v.next_seq)
  OBVIOUS
<1>1. GoodView(v) /\ ~Unacceptable(page, v)
  BY SuitsAccepted DEF Suits
<1>2. Core(q) /\ Ready(q)
  BY <1>1, RestoredSound DEF Resumed
<1>3. /\ q.news = {} /\ ~q.blocked /\ q.index = v.index /\ q.completed = v.completed
      /\ q.attempt = v.attempt
      /\ v.attempt = NoAttempt => q.saved = EmptyJournal
      /\ v.attempt # NoAttempt => q.saved = Reopened(page.saved, v, rest)
  BY <1>a, RestoredForm
<1>5. InStep(q.saved, out)
  <2>1. CASE v.attempt = NoAttempt
    BY <1>3, <2>1 DEF Suits
  <2>2. CASE v.attempt # NoAttempt
    BY <1>3, <1>a, <2>2, SuitsInStep
  <2> QED
    BY <2>1, <2>2
<1>6. Shows(q)
  BY <1>3 DEF Shows, Suits
<1> QED
  BY <1>2, <1>3, <1>5, <1>6 DEF Steady

-----------------------------------------------------------------------------
(* Loading a page, and what follows each awaited call.                     *)

\* A page that is loading.
LEMMA LoadingAlone ==
  ASSUME NEW q, q.doing = "loading", q.call = SessionRequest, q.reply = None, q.news = {},
         ~q.blocked, NEW out, InStep(q.saved, out)
  PROVE  PageAlone(q, out) /\ Sending(q) = {}
<1>1. CallAlone(q, out)
  BY DEF CallAlone, Checkpoints
<1>2. ShownAlone(q)
  BY DEF ShownAlone
<1> QED
  BY <1>1, <1>2 DEF PageAlone, Sending

\* The only tab is replaced by one that is loading.
LEMMA LoadedAlone ==
  ASSUME OneTab, AloneInv, UNCHANGED server, NEW t \in Pages, NEW q, pages'[t] = q,
         q.doing = "loading", q.call = SessionRequest, q.reply = None, q.news = {}, ~q.blocked,
         sent' = sent, journal' = q.saved, InStep(q.saved, sent)
  PROVE  AloneInv'
<1>1. \A u \in Pages : u = t
  BY DEF OneTab
<1>2. PICK out : out = sent'
  OBVIOUS
<1>3. PageAlone(q, out)
  BY <1>2, LoadingAlone
<1>4. PageAlone(q, out)' /\ TablesAlone'
  BY <1>3, AloneStays DEF AloneInv
<1> QED
  BY <1>1, <1>2, <1>4 DEF AloneInv

\* A tab that is opened starts with the journal.
LEMMA OpenAlone ==
  ASSUME ClientInv, OneTab, AloneInv, NEW t \in Pages, Open(t), UNCHANGED server
  PROVE  AloneInv'
<1>a. PICK n, saved : n = loads + 1 /\ saved = journal
  OBVIOUS
<1>b. PICK q : q = [Loading(n) EXCEPT !.saved = saved]
  OBVIOUS
<1>1. /\ journal' = journal /\ sent' = sent /\ pages' = [pages EXCEPT ![t] = q]
  BY <1>a, <1>b DEF Open
<1>3. /\ q.doing = "loading" /\ q.call = SessionRequest /\ q.reply = None /\ q.news = {}
      /\ ~q.blocked /\ q.saved = saved
  <2>1. LoadingWith(q, saved)
    BY <1>b, LoadingForm
  <2> QED
    BY <2>1 DEF LoadingWith
<1>4. pages'[t] = q
  BY <1>1 DEF ClientInv
<1>5. InStep(q.saved, sent)
  BY <1>3, <1>a, OnlyTab
<1> QED
  BY <1>1, <1>3, <1>4, <1>5, <1>a, LoadedAlone

\* init, when the session cannot be read.
LEMMA LoadFailsAlone ==
  ASSUME ClientInv, OneTab, AloneInv, NEW t \in Pages, LoadFails(t), UNCHANGED server
  PROVE  AloneInv'
<1>a. PICK p : p = pages[t]
  OBVIOUS
<1>b. PICK q : q = [p EXCEPT !.saved = journal, !.reply = None]
  OBVIOUS
<1>1. p \in Page /\ Sound(p) /\ p.news = {} /\ PageAlone(p, sent) /\ p.saved = journal
      /\ InStep(p.saved, sent)
  BY <1>a, OnlyTab
<1>2. p.doing = "loading" /\ p.call = SessionRequest /\ ~p.blocked
  BY <1>1, <1>a DEF LoadFails, Answered, Sound, Busy, PageAlone
<1>3. /\ q.doing = "loading" /\ q.call = SessionRequest /\ q.reply = None /\ q.news = {}
      /\ ~q.blocked /\ q.saved = journal
  BY <1>1, <1>2, <1>b DEF Page
<1>4. Step(t, q)
  BY <1>a, <1>b DEF LoadFails
<1>5. PageAlone(q, sent) /\ Sending(q) = {}
  BY <1>1, <1>3, LoadingAlone
<1>6. GoesOn(q, sent)
  <2>1. sent \cup Sending(q) = sent
    BY <1>5
  <2> QED
    BY <1>5, <2>1 DEF GoesOn
<1> QED
  BY <1>3, <1>4, <1>6, StepAlone

\* What a page that is blocked gives up has been saved.
LEMMA SpentOver ==
  ASSUME NEW saved, Spent(saved)
  PROVE  Over(saved)
BY DEF Spent, Over, Unnumbered

\* A journal that is given up leaves nothing behind.
LEMMA ReloadProgressAlone ==
  ASSUME ClientInv, OneTab, AloneInv, NEW t \in Pages, ReloadProgress(t), UNCHANGED server
  PROVE  AloneInv'
<1>a. PICK n, saved : n = loads + 1 /\ saved = EmptyJournal
  OBVIOUS
<1>b. PICK q : q = Loading(n)
  OBVIOUS
<1>1. /\ journal' = saved /\ sent' = sent /\ pages'[t] = q /\ pages[t].blocked
  BY <1>a, <1>b DEF ReloadProgress
<1>3. /\ q.doing = "loading" /\ q.call = SessionRequest /\ q.reply = None /\ q.news = {}
      /\ ~q.blocked /\ q.saved = saved
  <2>1. LoadingWith(q, saved)
    BY <1>a, <1>b, LoadingForm
  <2> QED
    BY <2>1 DEF LoadingWith
<1>4. InStep(q.saved, sent)
  <2>1. PICK p : p = pages[t]
    OBVIOUS
  <2>2. PageAlone(p, sent) /\ GoodJournal(p.saved) /\ InStep(p.saved, sent) /\ S!IInv
        /\ \A m \in sent : GoodRequest(m)
    BY <2>1, OnlyTab
  <2>3. Over(p.saved)
    BY <1>1, <2>1, <2>2, SpentOver DEF PageAlone
  <2>4. InStep(EmptyJournal, sent)
    BY <2>2, <2>3, EmptyInStep
  <2> QED
    BY <1>3, <1>a, <2>4
<1> QED
  BY <1>1, <1>3, <1>4, LoadedAlone

\* init: a frozen command whose attempt is still open.
LEMMA LoadFrozenAlone ==
  ASSUME S!IInv, TablesAlone, NEW page, Core(page), ~page.blocked, page.news = {}, Shows(page),
         NEW out, \A m \in out : GoodRequest(m), InStep(page.saved, out),
         NEW v, GoodView(v), page.saved.finish # None, v.attempt = page.saved.finish.attempt,
         page.saved.attempt = v.attempt => Len(v.events) >= Handed(page.saved),
         NEW left, left = Reconciled(page.saved.events, v.next_seq),
         NEW rest, rest = [page EXCEPT !.saved.events = left]
  PROVE  IF Reconcilable(v.events, page.saved.events, v.next_seq) THEN GoesOn(SendFinish(rest), out)
         ELSE GoesOn(Blocked(page), out) /\ Blocked(page).saved = page.saved
<1>a. PICK c, saved, new : c = page.saved.finish /\ saved = page.saved /\ new = rest.saved
  OBVIOUS
<1>1. /\ page \in Page /\ GoodJournal(saved) /\ saved \in Journal /\ c # None
      /\ saved.events \in Seq(PageEvent) /\ Chain(saved.events)
      /\ c \in FinishCommand /\ c.attempt \in AttemptIds /\ c.attempt # NoAttempt
  <2>1. page \in Page /\ GoodJournal(saved) /\ saved \in Journal /\ c # None
    BY <1>a DEF Core, GoodJournal
  <2>2. c \in FinishCommand /\ saved.events \in Seq(PageEvent) /\ Chain(saved.events)
    BY <1>a, <2>1, JournalFields DEF GoodJournal
  <2> QED
    BY <2>1, <2>2, SessionAssumption DEF FinishCommand
<1>2. JournalAlone(saved, out) /\ saved.start = None
  BY <1>1, <1>a DEF InStep, GoodJournal
<1>3. ASSUME Reconcilable(v.events, page.saved.events, v.next_seq)
      PROVE  GoesOn(SendFinish(rest), out)
  <2>1. PICK k : Left(left, saved.events, k) /\ HeadStored(v.attempt, saved.events, k)
    BY <1>1, <1>3, <1>a, ReconciledRest
  <2>2. new = [saved EXCEPT !.events = left] /\ left \in Seq(PageEvent)
    BY <1>1, <1>a, <2>1 DEF Page, Left
  <2>3. Core(rest) /\ rest.saved.finish = c /\ rest.blocked = page.blocked
    <3>1. OutboxAttempt(page) = v.attempt
      BY <1>1, <1>a DEF OutboxAttempt
    <3> QED
      BY <1>1, <1>a, <2>1, <3>1, PruneSound
  <2>4. /\ rest.news = page.news /\ rest.index = page.index /\ rest.completed = page.completed
        /\ rest.attempt = page.attempt
    BY <1>1 DEF Page
  <2>5. Shows(rest)
    BY <1>1, <1>a, <2>3, <2>4 DEF Shows
  <2>6. InStep(new, out)
    <3>1. CASE Unnumbered(c)
      <4>1. saved.attempt = NoAttempt /\ AttemptAt(c.attempt, sessions[Me].index) /\ Len(c.events) = 1
        BY <1>1, <1>2, <1>a, <3>1 DEF JournalAlone
      <4>2. new.attempt = NoAttempt /\ new.start = None /\ new.finish = c
        BY <1>1, <1>2, <1>a, <2>2, <4>1 DEF Journal
      <4>3. InStep(saved, out) /\ saved.finish \in {None, c} /\ (saved.start # None => ~NotStarted(Me))
        BY <1>2, <1>a
      <4> QED
        BY <1>1, <3>1, <4>1, <4>2, <4>3, UnnumberedInStep
    <3>2. CASE ~Unnumbered(c)
      <4>1. saved.attempt = c.attempt
        BY <1>1, <1>2, <1>a, <3>2 DEF JournalAlone, FinishAlone
      <4>2. InStep(saved, out) /\ S!TypeOK /\ saved.attempt # NoAttempt
            /\ HeadStored(saved.attempt, saved.events, k)
        BY <1>1, <1>a, <2>1, <4>1, Ordering
      <4> QED
        BY <1>1, <2>1, <2>2, <4>2, PrunedInStep
    <3> QED
      BY <3>1, <3>2
  <2> QED
    BY <1>1, <1>a, <2>3, <2>4, <2>5, <2>6, SendFinishAlone
<1>4. ASSUME ~Reconcilable(v.events, page.saved.events, v.next_seq)
      PROVE  GoesOn(Blocked(page), out) /\ Blocked(page).saved = page.saved
  <2>1. Unnumbered(c)
    <3> SUFFICES ASSUME ~Unnumbered(c) PROVE FALSE
      OBVIOUS
    <3>1. saved.attempt = c.attempt
      BY <1>1, <1>2, <1>a DEF JournalAlone, FinishAlone
    <3>2. v.attempt = saved.attempt /\ saved.attempt # NoAttempt /\ Len(v.events) >= Handed(saved)
      BY <1>1, <1>a, <3>1
    <3>3. Reconcilable(v.events, saved.events, v.next_seq)
      BY <1>1, <1>2, <3>2, ReconcilableAlone
    <3> QED
      BY <1>4, <1>a, <3>3
  <2>2. Spent(page.saved)
    BY <1>a, <2>1 DEF Spent
  <2>3. PageAlone(Blocked(page), out) /\ Sending(Blocked(page)) = {} /\ Blocked(page).saved = page.saved
    BY <1>1, <2>2, BlockedAlone
  <2>4. out \cup Sending(Blocked(page)) = out
    BY <2>3
  <2> QED
    BY <2>3, <2>4 DEF GoesOn
<1> QED
  BY <1>3, <1>4

\* init, once the session is read.
LEMMA LoadAlone ==
  ASSUME ClientInv, OneTab, AloneInv, NEW t \in Pages, Load(t), UNCHANGED server
  PROVE  AloneInv'
<1>a. PICK p : p = pages[t]
  OBVIOUS
<1>b. PICK v : v = p.reply.value
  OBVIOUS
<1>c. PICK page : page = Shown(p, v)
  OBVIOUS
<1>d. PICK rest : rest = [page EXCEPT !.saved.events = Reconciled(@, v.next_seq)]
  OBVIOUS
<1>e. PICK c, saved : c = page.saved.finish /\ saved = p.saved
  OBVIOUS
<1>1. /\ p \in Page /\ Sound(p) /\ p.news = {} /\ PageAlone(p, sent) /\ saved = journal
      /\ InStep(saved, sent) /\ GoodJournal(saved) /\ saved \in Journal /\ S!IInv /\ TablesAlone
      /\ \A m \in sent : GoodRequest(m)
  BY <1>a, <1>e, OnlyTab
<1>2. p.doing = "loading" /\ p.reply # None /\ p.reply # Failure /\ p.reply # Conflict /\ ~p.blocked
  BY <1>1, <1>a DEF Load, Answered, Sound, Told, PageAlone
<1>3. GoodView(v) /\ LoadedView(saved, v) /\ (v.completed <=> v.index >= TaskCount)
  BY <1>1, <1>2, <1>b, <1>e DEF Sound, Told, Checkpoints, PageAlone, CallAlone
<1>4. /\ Core(page) /\ page \in Page /\ page.saved = saved /\ page.attempt = v.attempt
      /\ page.index = v.index /\ page.blocked = p.blocked
      /\ page.news = p.news /\ page.completed = v.completed
  <2>1. /\ Core(page) /\ page.saved = p.saved /\ page.attempt = v.attempt /\ page.index = v.index
        /\ page.blocked = p.blocked
    BY <1>1, <1>3, <1>c, <1>e, ShownSound, ZenonT(30)
  <2>2. page.news = p.news /\ page.completed = v.completed
    BY <1>1, <1>c DEF Shown, Page
  <2> QED
    BY <1>e, <2>1, <2>2 DEF Core
<1>5. Shows(page)
  BY <1>3, <1>4 DEF Shows, LoadedView
<1>6. IF c # None
      THEN IF v.attempt # c.attempt THEN Step(t, SendFinish(page))
           ELSE IF Reconcilable(v.events, page.saved.events, v.next_seq)
           THEN Persist(t, SendFinish(rest))
           ELSE Step(t, Blocked(page))
      ELSE IF page.saved.start # None THEN Step(t, Starting(page, FALSE))
      ELSE IF Unacceptable(page, v) THEN Step(t, Blocked(page))
      ELSE Persist(t, Idle(Entered(Restored(page, v, FALSE), TRUE)))
  BY <1>a, <1>b, <1>c, <1>d, <1>e, Zenon DEF Load
<1>7. \E q : GoesOn(q, sent) /\ ((Step(t, q) /\ q.saved = journal) \/ Persist(t, q))
  <2>1. CASE c # None /\ v.attempt # c.attempt
    <3>1. GoesOn(SendFinish(page), sent) /\ SendFinish(page).saved = page.saved
      BY <1>1, <1>2, <1>4, <1>5, <1>e, <2>1, SendFinishAlone
    <3>2. Step(t, SendFinish(page))
      BY <1>6, <2>1
    <3> QED
      BY <1>1, <1>4, <3>1, <3>2
  <2>2. CASE c # None /\ v.attempt = c.attempt
    <3>1. PICK left : left = Reconciled(saved.events, v.next_seq)
      OBVIOUS
    <3>2. rest = [page EXCEPT !.saved.events = left]
      BY <1>1, <1>4, <1>d, <3>1 DEF Page, Journal
    <3>3. saved.attempt = v.attempt => Len(v.events) >= Handed(saved)
      <4>1. v.attempt # NoAttempt
        BY <1>1, <1>4, <1>e, <2>2, JournalFields, SessionAssumption DEF FinishCommand
      <4> QED
        BY <1>3, <4>1 DEF LoadedView
    <3>4. IF Reconcilable(v.events, page.saved.events, v.next_seq) THEN GoesOn(SendFinish(rest), sent)
          ELSE GoesOn(Blocked(page), sent) /\ Blocked(page).saved = page.saved
      BY <1>1, <1>2, <1>3, <1>4, <1>5, <1>e, <2>2, <3>1, <3>2, <3>3, LoadFrozenAlone
    <3> QED
      BY <1>1, <1>4, <1>6, <2>2, <3>4
  <2>3. CASE c = None /\ page.saved.start # None
    <3>1. Step(t, Starting(page, FALSE))
      BY <1>6, <2>3
    <3>2. GoesOn(Starting(page, FALSE), sent) /\ Starting(page, FALSE).saved = page.saved
      BY <1>1, <1>2, <1>4, <1>5, <1>e, <2>3, StartingAlone
    <3> QED
      BY <1>1, <1>4, <3>1, <3>2
  <2>4. CASE c = None /\ page.saved.start = None
    <3>1. saved.finish = None /\ saved.start = None
      BY <1>4, <1>e, <2>4
    <3>2. Suits(saved, v)
      <4>1. v.attempt = NoAttempt => saved = EmptyJournal
        BY <1>1, <1>3, <3>1 DEF LoadedView, InStep, JournalAlone
      <4> QED
        BY <1>3, <3>1, <4>1 DEF Suits, LoadedView
    <3>3. ~Unacceptable(page, v)
      BY <1>1, <1>4, <3>2, SuitsAccepted
    <3>a. PICK r : r = Resumed(page, v)
      OBVIOUS
    <3>b. PICK e : e = Entered(r, TRUE)
      OBVIOUS
    <3>4. Steady(r, sent) /\ Ready(r)
      BY <1>1, <1>2, <1>4, <3>1, <3>2, <3>a, RestoredAlone
    <3>5. Steady(e, sent)
      BY <1>1, <3>4, <3>b, EnteredAlone
    <3>6. PageAlone(Idle(e), sent) /\ Sending(Idle(e)) = {}
      BY <3>5, IdleAlone DEF Steady, Core
    <3>7. GoesOn(Idle(e), sent)
      <4>1. sent \cup Sending(Idle(e)) = sent
        BY <3>6
      <4> QED
        BY <3>6, <4>1 DEF GoesOn
    <3>8. Persist(t, Idle(e))
      BY <1>6, <2>4, <3>3, <3>a, <3>b DEF Resumed
    <3> QED
      BY <3>7, <3>8
  <2> QED
    BY <2>1, <2>2, <2>3, <2>4
<1> QED
  BY <1>7, StepAlone

\* A page that goes back to idle, or stops.
LEMMA IdleGoesOn ==
  ASSUME NEW page, NEW out, Steady(page, out)
  PROVE  GoesOn(Idle(page), out) /\ Idle(page).saved = page.saved
<1>1. PageAlone(Idle(page), out) /\ Sending(Idle(page)) = {} /\ Idle(page).saved = page.saved
  BY IdleAlone DEF Steady, Core
<1>2. out \cup Sending(Idle(page)) = out
  BY <1>1
<1> QED
  BY <1>1, <1>2 DEF GoesOn

\* The page that shows a conflict stays in step, and keeps its journal.
LEMMA BlockedGoesOn ==
  ASSUME NEW page, NEW out, Steady(page, out), Spent(page.saved)
  PROVE  GoesOn(Blocked(page), out) /\ Blocked(page).saved = page.saved
<1>1. PageAlone(Blocked(page), out) /\ Sending(Blocked(page)) = {} /\ Blocked(page).saved = page.saved
  BY BlockedAlone DEF Steady, Core
<1>2. out \cup Sending(Blocked(page)) = out
  BY <1>1
<1> QED
  BY <1>1, <1>2 DEF GoesOn

\* The only tab, awaiting the answer to a call that it has made.
LEMMA AwaitingTab ==
  ASSUME ClientInv, OneTab, AloneInv, NEW t \in Pages, NEW p, p = pages[t],
         p.doing \notin {"closed", "loading", "idle"}
  PROVE  /\ Steady(p, sent) /\ Ready(p) /\ Sound(p) /\ p \in Page /\ p.saved = journal
         /\ CallAlone(p, sent) /\ S!IInv /\ TablesAlone /\ GoodJournal(p.saved)
         /\ p.saved \in Journal
         /\ \A m \in sent : GoodRequest(m)
BY OnlyTab, PageFacts DEF Steady, PageAlone

\* start, after the call.
LEMMA StartedSuits ==
  ASSUME S!IInv, NEW saved, saved.start # None, NEW out, InStep(saved, out),
         NEW v, GoodView(v), v.attempt # NoAttempt, v.events = <<>>, v.index = sessions[Me].index,
         v.completed <=> v.index >= TaskCount
  PROVE  Suits(saved, v) /\ saved.attempt = NoAttempt
<1>1. StartAlone(saved)
  BY DEF InStep, JournalAlone
<1>2. saved.attempt = NoAttempt
  BY <1>1 DEF StartAlone, EmptyJournal
<1>3. AttemptAt(v.attempt, saved.start.task)
  BY <1>1 DEF GoodView, StartAlone
<1>4. attempts[v.attempt].log = <<>>
  <2>1. v.attempt \in DOMAIN attempts
    BY <1>3 DEF AttemptAt, Owns
  <2> QED
    BY <1>1, <1>3, <2>1 DEF StartAlone
<1> QED
  BY <1>2, <1>4 DEF Suits

\* The answer to a start command.
LEMMA StartedAlone ==
  ASSUME ClientInv, OneTab, AloneInv, NEW t \in Pages, Started(t), UNCHANGED server
  PROVE  AloneInv'
<1>a. PICK p : p = pages[t]
  OBVIOUS
<1>b. PICK v : v = p.reply.value
  OBVIOUS
<1>c. PICK start : start = p.saved.start
  OBVIOUS
<1>d. PICK shown : shown = Restored(p, v, start.skip)
  OBVIOUS
<1>e. PICK skipped : skipped = Freeze(shown, "skipped", Root, start.stamp)
  OBVIOUS
<1>1. p.doing = "starting" /\ p.reply # None
  BY <1>a DEF Started, Answered
<1>2. /\ Steady(p, sent) /\ Sound(p) /\ p \in Page /\ p.saved = journal /\ CallAlone(p, sent)
      /\ S!IInv /\ TablesAlone /\ GoodJournal(p.saved) /\ p.saved \in Journal
      /\ InStep(p.saved, sent) /\ ~p.blocked /\ p.news = {}
      /\ \A m \in sent : GoodRequest(m)
  BY <1>1, <1>a, AwaitingTab DEF Steady
<1>3. start # None /\ start \in StartCommand /\ p.saved.finish = None
  <2>1. start # None
    BY <1>1, <1>2, <1>c DEF Sound, Busy
  <2> QED
    BY <1>2, <1>c, <2>1, JournalFields DEF GoodJournal
<1>4. /\ start.skip \in BOOLEAN
      /\ start.skip => start.stamp \in [id: Nat \X Nat, epoch: Nat] /\ start.stamp.id[2] = 0
  <2>1. StartAlone(p.saved)
    BY <1>2, <1>3, <1>c DEF InStep, JournalAlone
  <2> QED
    BY <1>3, <1>c, <2>1 DEF StartCommand, StartAlone
<1>5. IF p.reply = Failure THEN Step(t, Idle(p)) /\ UNCHANGED confirmed
      ELSE IF p.reply = Conflict THEN Step(t, Blocked(p)) /\ UNCHANGED confirmed
      ELSE IF Unacceptable(p, v)
      THEN Step(t, Blocked(Shown(p, v))) /\ UNCHANGED confirmed
      ELSE IF start.skip /\ ~p.blocked
      THEN /\ Persist(t, SendFinish(skipped))
           /\ confirmed' = confirmed \cup {Confirmation(skipped)}
      ELSE /\ Persist(t, Idle(IF start.skip THEN shown ELSE Entered(shown, TRUE)))
           /\ UNCHANGED confirmed
  BY <1>a, <1>b, <1>c, <1>d, <1>e, Zenon DEF Started
<1>6. CASE p.reply = Failure
  <2>1. GoesOn(Idle(p), sent) /\ Step(t, Idle(p)) /\ Idle(p).saved = journal
    BY <1>2, <1>5, <1>6, IdleGoesOn
  <2> QED
    BY <2>1, StepAlone
<1>7. CASE p.reply = Conflict /\ p.reply # Failure
  <2>1. Spent(p.saved)
    BY <1>1, <1>2, <1>7 DEF CallAlone
  <2>2. GoesOn(Blocked(p), sent) /\ Step(t, Blocked(p)) /\ Blocked(p).saved = journal
    BY <1>2, <1>5, <1>7, <2>1, BlockedGoesOn
  <2> QED
    BY <2>2, StepAlone
<1>8. CASE p.reply # Conflict /\ p.reply # Failure
  <2>1. GoodView(v) /\ v.attempt # NoAttempt /\ v.events = <<>>
    BY <1>1, <1>2, <1>8, <1>b, ReplyCases DEF Checkpoints
  <2>2. v.index = sessions[Me].index /\ v.next_seq = 1 /\ (v.completed <=> v.index >= TaskCount)
    BY <1>1, <1>2, <1>8, <1>b DEF CallAlone, Checkpoints
  <2>3. Suits(p.saved, v) /\ p.saved.attempt = NoAttempt
    BY <1>2, <1>3, <1>c, <2>1, <2>2, StartedSuits
  <2>4. ~Unacceptable(p, v)
    BY <1>2, <2>3, SuitsAccepted
  <2>a. PICK r : r = Resumed(p, v)
    OBVIOUS
  <2>5. Steady(r, sent) /\ Ready(r)
    BY <1>2, <1>3, <2>3, <2>a, RestoredAlone
  <2>6. CASE start.skip
    <3>1. /\ Persist(t, SendFinish(skipped))
          /\ confirmed' = confirmed \cup {Confirmation(skipped)}
      BY <1>2, <1>5, <1>8, <2>4, <2>6
    <3>2. Grown /\ S!IInv'
      <4>1. confirmed \subseteq confirmed'
        BY <3>1
      <4> QED
        BY <4>1, Carried, Still
    <3>3. /\ Core(shown) /\ shown.saved.finish = None /\ shown.attempt = v.attempt
          /\ shown.index = v.index /\ shown.saved.start = start
      <4>1. start.skip => p.saved.start # None /\ v.events = <<>> /\ v.attempt # NoAttempt
        BY <1>3, <1>c, <2>1
      <4>2. /\ Core(shown) /\ shown.saved.finish = None /\ shown.attempt = v.attempt
            /\ shown.index = v.index /\ shown.saved.start = IF start.skip THEN start ELSE None
        BY <1>2, <1>3, <1>4, <1>c, <1>d, <2>1, <2>4, <4>1, RestoredSound
      <4> QED
        BY <2>6, <4>2
    <3>4. shown = Skipping(p, v)
      <4>1. start.skip = TRUE
        BY <1>4, <2>6
      <4> QED
        BY <1>d, <4>1 DEF Skipping
    <3>5. PICK rest : rest = Reconciled(Pending(p, v), v.next_seq)
      OBVIOUS
    <3>6. PICK old : old = Reopened(p.saved, v, rest)
      OBVIOUS
    <3>7. /\ shown.news = {} /\ ~shown.blocked /\ shown.completed = v.completed
          /\ shown.saved.attempt = old.attempt /\ shown.saved.next = old.next
          /\ shown.saved.events = old.events /\ r.saved = old
      BY <1>2, <2>1, <2>a, <3>4, <3>5, <3>6, RestoredForm
    <3>8. old.attempt = v.attempt /\ old.start = None /\ old.finish = None
      BY <3>6 DEF Reopened
    <3>9. GoodJournal(old) /\ InStep(old, sent)
      BY <2>5, <3>7 DEF Steady, Core
    <3>10. shown \in Page /\ "skipped" \in Outcomes /\ Root \in Places
      BY <3>3, PlacesHold DEF Core, Outcomes
    <3>a. PICK stamp : stamp = start.stamp
      OBVIOUS
    <3>b. skipped = Freeze(shown, "skipped", Root, stamp) /\ stamp \in [id: Nat \X Nat, epoch: Nat]
          /\ stamp.id[2] \in {0, shown.saved.next} /\ shown.index = sessions[Me].index
          /\ shown.attempt # NoAttempt
      BY <1>4, <1>e, <2>1, <2>2, <2>6, <3>3, <3>a
    <3>11. InStep(skipped.saved, sent)
      BY <1>2, <3>3, <3>7, <3>8, <3>9, <3>10, <3>b, FreezeAlone
    <3>12. /\ Core(skipped)' /\ skipped.saved.finish # None /\ skipped.index = v.index
      <4>1. Confirmation(skipped) \in confirmed'
        BY <3>1
      <4> QED
        BY <1>3, <3>2, <3>3, <3>10, <3>b, <4>1, FreezeSound
    <3>13. skipped.news = {} /\ ~skipped.blocked /\ skipped.completed = v.completed
      <4>1. PICK submit, c : /\ submit = SubmitOf(shown, "skipped", Root, stamp)
                             /\ c = CommandOf(shown, "skipped", Root, submit)
        OBVIOUS
      <4> QED
        BY <3>3, <3>7, <3>10, <3>b, <4>1, FreezeForm
    <3>14. Shows(skipped)
      BY <2>2, <3>12, <3>13 DEF Shows
    <3>15. GoesOn(SendFinish(skipped), sent)
      BY <3>2, <3>11, <3>12, <3>13, <3>14, SendFinishLater
    <3> QED
      BY <3>1, <3>15, StepAlone
  <2>7. CASE ~start.skip
    <3>1. shown = r
      <4>1. start.skip = FALSE
        BY <1>4, <2>7
      <4> QED
        BY <1>d, <2>a, <4>1 DEF Resumed
    <3>2. PICK e : e = Entered(shown, TRUE)
      OBVIOUS
    <3>3. Steady(e, sent)
      BY <1>2, <2>5, <3>1, <3>2, EnteredAlone
    <3>4. GoesOn(Idle(e), sent)
      BY <3>3, IdleGoesOn
    <3>5. Persist(t, Idle(e))
      BY <1>5, <1>8, <2>4, <2>7, <3>2
    <3> QED
      BY <3>4, <3>5, StepAlone
  <2> QED
    BY <2>6, <2>7
<1> QED
  BY <1>6, <1>7, <1>8

\* checkpoint: all of the batch is acknowledged.
LEMMA AllAcknowledged ==
  ASSUME NEW batch \in Seq(PageEvent), Chain(batch), Len(batch) > 0, NEW n, n = EndOfBatch(batch) + 1
  PROVE  n \in Nat /\ Acknowledgeable(batch, n) /\ AckEvents(batch, n) = <<>>
<1>a. PICK l, rest : l = Len(batch) /\ rest = AckEvents(batch, n)
  OBVIOUS
<1>1. /\ l \in Nat /\ l > 0 /\ l \in DOMAIN batch /\ batch[l].seq \in Nat /\ n = batch[l].seq + 1
  <2>1. l \in Nat /\ DOMAIN batch = 1..l
    BY <1>a
  <2>2. l \in DOMAIN batch
    BY <1>a, <2>1
  <2> QED
    BY <1>a, <2>1, <2>2, EventFields DEF EndOfBatch
<1>2. n \in Nat
  BY <1>1
<1>3. Acknowledgeable(batch, n)
  BY <1>1, <1>a DEF Acknowledgeable
<1>4. rest \in Seq(PageEvent) /\ Len(rest) = 0
  <2>1. PICK k \in 0..l :
          /\ rest \in Seq(PageEvent)
          /\ Len(rest) = l - k
          /\ \A i \in 1..l : batch[i].seq < n <=> i <= k
    BY <1>2, <1>a, Acknowledged
  <2>2. l <= k
    BY <1>1, <2>1
  <2> QED
    BY <1>1, <2>1, <2>2
<1>5. rest = <<>>
  BY <1>4, NoneLeft
<1> QED
  BY <1>2, <1>3, <1>5, <1>a

\* checkpoint, after the call: what was acknowledged leaves the outbox.
LEMMA CheckpointedAlone ==
  ASSUME ClientInv, OneTab, AloneInv, NEW t \in Pages, Checkpointed(t), UNCHANGED server
  PROVE  AloneInv'
<1>a. PICK p : p = pages[t]
  OBVIOUS
<1>b. PICK n : n = p.reply.value.next_seq
  OBVIOUS
<1>c. PICK pruned : pruned = [p EXCEPT !.saved.events = AckEvents(@, n)]
  OBVIOUS
<1>d. PICK batch, outbox : batch = p.call.events /\ outbox = p.saved.events
  OBVIOUS
<1>1. p.doing \in Checkpoints /\ p.reply # None
  BY <1>a DEF Checkpointed, Answered, Checkpoints
<1>2. /\ Steady(p, sent) /\ Ready(p) /\ Sound(p) /\ p \in Page /\ p.saved = journal /\ CallAlone(p, sent)
      /\ S!IInv /\ TablesAlone /\ GoodJournal(p.saved) /\ p.saved \in Journal
      /\ InStep(p.saved, sent) /\ ~p.blocked /\ p.news = {} /\ Core(p) /\ Shows(p)
      /\ \A m \in sent : GoodRequest(m)
  BY <1>1, <1>a, AwaitingTab DEF Steady, Checkpoints
<1>3. Carries(p) /\ (p.doing = "flushing" <=> p.saved.finish = None) /\ p.call # None
  BY <1>1, <1>2 DEF Sound, Busy, Checkpoints
<1>4. /\ outbox \in Seq(PageEvent) /\ Chain(outbox)
      /\ Len(batch) \in 1..Len(outbox) /\ \A i \in DOMAIN batch : batch[i] = outbox[i]
  BY <1>2, <1>3, <1>d, JournalFields DEF GoodJournal, Carries
<1>5. p.call \in Request /\ p.call.attempt \in AttemptIds /\ batch \in Seq(PageEvent)
  <2>1. p.call \in Request /\ p.call.kind = "events"
    <3>1. SessionRequest.kind # "events"
      BY DEF SessionRequest
    <3> QED
      BY <1>2, <1>3, <3>1 DEF Page, Carries
  <2> QED
    BY <1>d, <2>1, RequestForms
<1>6. p.call.attempt = p.saved.attempt /\ p.saved.attempt # NoAttempt /\ p.reply # Conflict
      /\ (p.reply # Failure => n = EndOfBatch(batch) + 1)
  BY <1>1, <1>2, <1>5, <1>b, <1>d, SessionAssumption DEF CallAlone, Checkpoints
<1>7. Chain(batch) /\ Len(batch) > 0
  <2>1. Len(batch) \in Nat /\ DOMAIN batch = 1..Len(batch) /\ Len(outbox) \in Nat
        /\ DOMAIN outbox = 1..Len(outbox)
    BY <1>4, <1>5
  <2>2. \A i \in DOMAIN batch : i \in DOMAIN outbox
    BY <1>4, <2>1
  <2>3. 1 \in DOMAIN batch
    BY <1>4, <2>1
  <2> QED
    BY <1>4, <2>1, <2>2, <2>3 DEF Chain
<1>8. IF p.reply = Failure
      THEN Step(t, IF p.doing = "waiting" THEN SendFinish(p) ELSE Idle(p))
      ELSE IF p.reply = Conflict
              \/ ~(/\ p.saved.attempt = p.call.attempt
                   /\ Acknowledgeable(p.call.events, n)
                   /\ AckEvents(p.call.events, n) = <<>>)
      THEN Step(t, Blocked(p))
      ELSE Persist(t, IF p.doing = "flushing" THEN Flushing(pruned) ELSE SendFinish(pruned))
  BY <1>a, <1>b, <1>c, Zenon DEF Checkpointed
<1>9. CASE p.reply = Failure /\ p.doing = "waiting"
  <2>1. GoesOn(SendFinish(p), sent) /\ SendFinish(p).saved = p.saved
    BY <1>2, <1>3, <1>9, SendFinishAlone
  <2>2. Step(t, SendFinish(p))
    BY <1>8, <1>9
  <2> QED
    BY <1>2, <2>1, <2>2, StepAlone
<1>10. CASE p.reply = Failure /\ p.doing # "waiting"
  <2>1. GoesOn(Idle(p), sent) /\ Idle(p).saved = p.saved
    BY <1>2, IdleGoesOn
  <2>2. Step(t, Idle(p))
    BY <1>8, <1>10
  <2> QED
    BY <1>2, <2>1, <2>2, StepAlone
<1>11. CASE p.reply # Failure
  <2>1. n \in Nat /\ Acknowledgeable(batch, n) /\ AckEvents(batch, n) = <<>>
    BY <1>5, <1>6, <1>7, <1>11, AllAcknowledged
  <2>2. \A i \in DOMAIN batch : Stored(p.saved.attempt, batch[i])
    BY <1>1, <1>2, <1>6, <1>11, <1>d, ReplyCases
  <2>3. PICK left : left = AckEvents(outbox, n)
    OBVIOUS
  <2>4. PICK k \in 0..Len(batch) : Left(left, outbox, k)
    BY <1>4, <1>5, <2>1, <2>3, AcknowledgedHead
  <2>5. HeadStored(p.saved.attempt, outbox, k)
    <3>1. \A i \in 1..k : i \in DOMAIN batch
      BY <1>5, <2>4
    <3> QED
      BY <1>4, <2>2, <3>1 DEF HeadStored
  <2>6. pruned = [p EXCEPT !.saved.events = left]
    BY <1>2, <1>c, <1>d, <2>3 DEF Page, Journal
  <2>7. Core(pruned) /\ pruned.saved.finish = p.saved.finish /\ pruned.blocked = p.blocked
    <3>1. p.stream # <<>> \/ p.saved.finish # None => p.saved.attempt = OutboxAttempt(p)
      BY <1>3, <1>6 DEF Carries
    <3>2. p.stream # <<>> \/ p.saved.finish # None => HeadStored(OutboxAttempt(p), p.saved.events, k)
      BY <1>d, <2>5, <3>1
    <3>3. Left(left, p.saved.events, k)
      BY <1>d, <2>4
    <3> QED
      BY <1>2, <2>6, <3>2, <3>3, PruneSound
  <2>8. PICK new : new = [p.saved EXCEPT !.events = left]
    OBVIOUS
  <2>9. /\ pruned.saved = new /\ pruned.news = p.news /\ pruned.index = p.index
        /\ pruned.completed = p.completed /\ pruned.attempt = p.attempt
    <3>1. pruned = [p EXCEPT !.saved = new]
      BY <2>6, <2>8
    <3> QED
      BY <1>2, <3>1 DEF Page
  <2>10. InStep(new, sent)
    <3>1. PICK old : old = p.saved
      OBVIOUS
    <3>2. /\ GoodJournal(old) /\ InStep(old, sent) /\ old.attempt # NoAttempt
          /\ Left(left, old.events, k) /\ HeadStored(old.attempt, old.events, k)
          /\ new = [old EXCEPT !.events = left] /\ S!TypeOK
      BY <1>2, <1>6, <1>d, <2>4, <2>5, <2>8, <3>1, Ordering
    <3> QED
      BY <1>2, <3>2, PrunedInStep
  <2>11. new.start = p.saved.start
    BY <1>2, <2>8 DEF Journal
  <2>12. Shows(pruned)
    BY <1>2, <2>7, <2>9, <2>11 DEF Shows
  <2>13. CASE p.doing = "flushing"
    <3>1. GoesOn(Flushing(pruned), sent)
      BY <1>2, <2>7, <2>9, <2>10, <2>12, FlushingAlone
    <3>2. Persist(t, Flushing(pruned))
      BY <1>6, <1>8, <1>11, <1>d, <2>1, <2>13
    <3> QED
      BY <3>1, <3>2, StepAlone
  <2>14. CASE p.doing # "flushing"
    <3>1. GoesOn(SendFinish(pruned), sent)
      BY <1>2, <1>3, <2>7, <2>9, <2>10, <2>12, <2>14, SendFinishAlone
    <3>2. Persist(t, SendFinish(pruned))
      BY <1>6, <1>8, <1>11, <1>d, <2>1, <2>14
    <3> QED
      BY <3>1, <3>2, StepAlone
  <2> QED
    BY <2>13, <2>14
<1> QED
  BY <1>9, <1>10, <1>11

\* finish, acknowledged: the session is taken over with an empty journal.
LEMMA FinishedAlone ==
  ASSUME ClientInv, OneTab, AloneInv, NEW t \in Pages, Finished(t), UNCHANGED server
  PROVE  AloneInv'
<1>a. PICK p : p = pages[t]
  OBVIOUS
<1>b. PICK v : v = p.reply.value
  OBVIOUS
<1>c. PICK bare : bare = [p EXCEPT !.saved = EmptyJournal]
  OBVIOUS
<1>d. PICK r : r = Resumed(bare, v)
  OBVIOUS
<1>1. p.doing = "finishing" /\ p.reply # None
  BY <1>a DEF Finished, Answered
<1>2. /\ Steady(p, sent) /\ Ready(p) /\ Sound(p) /\ p \in Page /\ p.saved = journal /\ CallAlone(p, sent)
      /\ S!IInv /\ TablesAlone /\ GoodJournal(p.saved) /\ p.saved \in Journal
      /\ InStep(p.saved, sent) /\ ~p.blocked /\ p.news = {}
      /\ \A m \in sent : GoodRequest(m)
  BY <1>1, <1>a, AwaitingTab DEF Steady
<1>3. p.saved.finish # None
  BY <1>1, <1>2 DEF Sound, Busy
<1>4. IF p.reply = Failure THEN Step(t, Idle(p))
      ELSE IF p.reply = Conflict THEN Step(t, Blocked(p))
      ELSE Persist(t, Idle(r))
  BY <1>a, <1>b, <1>c, <1>d, Zenon DEF Finished, Resumed
<1>5. CASE p.reply = Failure
  <2>1. GoesOn(Idle(p), sent) /\ Step(t, Idle(p)) /\ Idle(p).saved = journal
    BY <1>2, <1>4, <1>5, IdleGoesOn
  <2> QED
    BY <2>1, StepAlone
<1>6. CASE p.reply = Conflict /\ p.reply # Failure
  <2>1. Spent(p.saved)
    BY <1>1, <1>2, <1>6 DEF CallAlone
  <2>2. GoesOn(Blocked(p), sent) /\ Step(t, Blocked(p)) /\ Blocked(p).saved = journal
    BY <1>2, <1>4, <1>6, <2>1, BlockedGoesOn
  <2> QED
    BY <2>2, StepAlone
<1>7. CASE p.reply # Conflict /\ p.reply # Failure
  <2>1. GoodView(v)
    BY <1>1, <1>2, <1>7, <1>b, ReplyCases DEF Checkpoints
  <2>2. /\ ~Unnumbered(p.saved.finish) /\ StoredBy(p.saved.finish)
        /\ v.index = sessions[Me].index /\ v.attempt = NoAttempt
        /\ v.completed <=> v.index >= TaskCount
    BY <1>1, <1>2, <1>7, <1>b DEF CallAlone, Checkpoints
  <2>3. Over(p.saved)
    BY <1>3, <2>2 DEF Over
  <2>4. InStep(EmptyJournal, sent)
    BY <1>2, <2>3, EmptyInStep
  <2>5. bare \in Page /\ bare.saved = EmptyJournal /\ bare.blocked = p.blocked /\ bare.news = p.news
    <3>1. bare \in Page
      BY <1>2, <1>c, EmptyGood, Zenon DEF Page
    <3> QED
      BY <1>2, <1>c, <3>1 DEF Page
  <2>6. NotStarted(Me)
    <3>1. FinishAlone(p.saved, sent)
      BY <1>2, <1>3, <2>2 DEF InStep, JournalAlone, GoodJournal
    <3> QED
      BY <1>3, <2>2, <3>1 DEF FinishAlone, FinishedBy, StoredBy
  <2>7. Suits(EmptyJournal, v)
    BY <2>1, <2>2, <2>6 DEF Suits
  <2>8. Steady(r, sent)
    <3>1. EmptyJournal.finish = None
      BY DEF EmptyJournal
    <3> QED
      BY <1>2, <1>d, <2>4, <2>5, <2>7, <3>1, EmptyGood, RestoredAlone
  <2>9. GoesOn(Idle(r), sent)
    BY <2>8, IdleGoesOn
  <2>10. Persist(t, Idle(r))
    BY <1>4, <1>7
  <2> QED
    BY <2>9, <2>10, StepAlone
<1> QED
  BY <1>5, <1>6, <1>7

-----------------------------------------------------------------------------
(* What the server does with a request of the page.                        *)

\* A stored stream goes on with events of the outbox.
Fills(a, saved, log) ==
  /\ Len(log) \in Nat
  /\ Len(log) >= Len(attempts[a].log)
  /\ \A i \in 1..Len(attempts[a].log) : log[i] = attempts[a].log[i]
  /\ \A i \in 1..Len(log) : i > Len(attempts[a].log) =>
       a = saved.attempt /\ Among(log[i], saved.events) /\ log[i].seq = i

\* The new events are those of the batch, and a frozen stream has none.
FilledBy(a, batch, log, frozen) ==
  /\ \A i \in 1..Len(log) : i > Len(attempts[a].log) => \E j \in DOMAIN batch : batch[j].seq = i
  /\ \A i \in DOMAIN batch : batch[i].seq \in 1..Len(log) /\ log[batch[i].seq] = batch[i]
  /\ frozen => Len(log) = Len(attempts[a].log)

\* appendEvents, given a batch of the page's events.
LEMMA BatchFills ==
  ASSUME S!TypeOK, NEW a, Owns(Me, a), NEW batch \in Seq(PageEvent), NEW frozen,
         Appendable(attempts[a].log, batch, frozen), NEW saved,
         \A i \in DOMAIN batch : Known(a, batch[i], saved),
         NEW log, log = Merged(attempts[a].log, batch)
  PROVE  Fills(a, saved, log) /\ FilledBy(a, batch, log, frozen)
<1>a. PICK old : old = attempts[a].log
  OBVIOUS
<1>1. /\ batch \in Seq(Event) /\ a \in DOMAIN attempts
      /\ \A i \in DOMAIN batch : batch[i].seq \in 1..Len(log) /\ log[batch[i].seq] = batch[i]
  BY Accepted DEF Owns
<1>2. old \in Seq(Event) /\ Len(old) \in Nat /\ DOMAIN old = 1..Len(old)
  BY <1>1, <1>a, LogForm
<1>3. S!Appendable(old, batch, frozen)
  BY <1>a, SameAppendable
<1>4. log = S!Merged(old, batch)
  BY <1>a, SameMerged
<1>5. old \in Seq(S!Event) /\ batch \in Seq(S!Event)
  BY <1>1, <1>2, SameEvent
<1>6. S!Joins(old, batch)
  BY <1>3, <1>5, ServerAssumptions, S!MergedJoins
<1>7. /\ Len(log) \in Nat /\ Len(log) >= Len(old)
      /\ \A s \in 1..Len(old) : log[s] = old[s]
      /\ \A s \in (Len(old) + 1)..Len(log) :
           \E i \in DOMAIN batch : batch[i].seq = s /\ log[s] = batch[i]
  BY <1>4, <1>6 DEF S!Joins
<1>8. ASSUME NEW s \in 1..Len(log), s > Len(old)
      PROVE  /\ a = saved.attempt /\ Among(log[s], saved.events) /\ log[s].seq = s
             /\ \E j \in DOMAIN batch : batch[j].seq = s
  <2>1. s \in (Len(old) + 1)..Len(log)
    BY <1>2, <1>7, <1>8
  <2>2. PICK i \in DOMAIN batch : batch[i].seq = s /\ log[s] = batch[i]
    BY <1>7, <2>1
  <2>3. s \notin DOMAIN old
    BY <1>2, <1>8
  <2>4. ~Stored(a, batch[i])
    BY <1>a, <2>2, <2>3 DEF Stored
  <2> QED
    BY <2>2, <2>4 DEF Known
<1>9. frozen => Len(log) = Len(old)
  <2>1. frozen => (Len(old) + 1)..Len(log) = {}
    BY <1>3, <1>4 DEF S!Appendable
  <2> QED
    BY <1>2, <1>7, <2>1
<1> QED
  BY <1>1, <1>7, <1>8, <1>9, <1>a DEF Fills, FilledBy

\* A stream filled from the outbox still continues in the outbox.
LEMMA FilledContinues ==
  ASSUME S!TypeOK, NEW saved, GoodJournal(saved), NEW a, Continues(a, saved), NEW log,
         Fills(a, saved, log), Owns(Me, a)', attempts'[a].log = log
  PROVE  Continues(a, saved)'
<1>a. PICK k, old, n, next : /\ k = Handed(saved) /\ old = attempts[a].log
                             /\ n = Len(saved.events) /\ next = saved.next
  OBVIOUS
<1>1. /\ Len(old) \in Nat /\ k \in Nat /\ k <= Len(old) /\ Len(old) < next /\ next = k + n + 1
      /\ n \in Nat /\ DOMAIN saved.events = 1..n
      /\ \A i \in DOMAIN saved.events :
           /\ saved.events[i].seq = k + i
           /\ Named(saved.events[i])
           /\ k + i <= Len(old) => old[k + i] = saved.events[i]
  BY <1>a, ContinuesForm, JournalForm
<1>2. /\ Len(log) \in Nat /\ Len(log) >= Len(old)
      /\ \A i \in 1..Len(old) : log[i] = old[i]
      /\ \A i \in 1..Len(log) : i > Len(old) => Among(log[i], saved.events) /\ log[i].seq = i
  BY <1>a DEF Fills
<1>3. ASSUME NEW i \in 1..Len(log), i > Len(old)
      PROVE  i - k \in 1..n /\ log[i] = saved.events[i - k]
  <2>1. PICK j \in DOMAIN saved.events : saved.events[j] = log[i]
    BY <1>2, <1>3 DEF Among
  <2>2. k + j = i /\ j \in 1..n
    BY <1>1, <1>2, <1>3, <2>1
  <2>3. j = i - k
    BY <1>1, <2>2
  <2> QED
    BY <2>1, <2>2, <2>3
<1>4. Len(log) < next
  <2>1. CASE Len(log) > Len(old)
    <3>1. Len(log) - k \in 1..n
      BY <1>1, <1>2, <1>3, <2>1
    <3> QED
      BY <1>1, <1>2, <3>1
  <2>2. CASE Len(log) = Len(old)
    BY <1>1, <2>2
  <2> QED
    BY <1>1, <1>2, <2>1, <2>2
<1>5. ASSUME NEW i \in DOMAIN saved.events, k + i <= Len(log)
      PROVE  log[k + i] = saved.events[i]
  <2>1. i \in 1..n /\ k + i \in 1..Len(log)
    BY <1>1, <1>2, <1>5
  <2>2. CASE k + i <= Len(old)
    BY <1>1, <1>2, <2>1, <2>2
  <2>3. CASE k + i > Len(old)
    <3>1. log[k + i] = saved.events[(k + i) - k]
      BY <1>3, <2>1, <2>3
    <3>2. (k + i) - k = i
      BY <1>1, <2>1
    <3> QED
      BY <3>1, <3>2
  <2> QED
    BY <1>1, <2>1, <2>2, <2>3
<1>6. k \in 0..Len(log)
  BY <1>1, <1>2
<1> QED
  BY <1>1, <1>4, <1>5, <1>6, <1>a DEF Continues, Handed, Named

\* A step of the server that leaves the page its ground: nothing takes it away.
Carry(saved, out) ==
  /\ now' >= now
  /\ saved.finish = None => sessions'[Me].index = sessions[Me].index
  /\ saved.finish # None /\ StoredBy(saved.finish) =>
       StoredBy(saved.finish)' /\ sessions'[Me].index = sessions[Me].index
  /\ saved.start = None /\ saved.finish = None /\ NotStarted(Me) => NotStarted(Me)'
  /\ saved.start # None /\ ~NotStarted(Me) => ~NotStarted(Me)'
  /\ saved.finish = None => \A a \in DOMAIN attempts : a # saved.attempt =>
       Len(attempts'[a].log) = Len(attempts[a].log)
  /\ saved.attempt # NoAttempt /\ Unsent(saved, out) =>
       \A n : Reaches(saved.attempt, n, out) => Reaches(saved.attempt, n, out)'

\* A step of the server that stores events at most.
Prolonged(saved, out) ==
  /\ now' >= now
  /\ sessions'[Me].index = sessions[Me].index
  /\ DOMAIN attempts' = DOMAIN attempts
  /\ \A x \in DOMAIN attempts :
       /\ attempts'[x].session = attempts[x].session
       /\ attempts'[x].index = attempts[x].index
       /\ attempts'[x].command = attempts[x].command
       /\ attempts'[x].finish = attempts[x].finish
       /\ Fills(x, saved, attempts'[x].log)
       /\ attempts[x].finish # Unfinished => Len(attempts'[x].log) = Len(attempts[x].log)
  /\ saved.attempt # NoAttempt =>
       \A n : Reaches(saved.attempt, n, out) => Reaches(saved.attempt, n, out)'

\* What a page still knows after such a step.
LEMMA KnownKept ==
  ASSUME Grown, NEW saved
  PROVE  \A a, e : Known(a, e, saved) => Known(a, e, saved)'
<1>1. \A a, e : Stored(a, e) => Stored(a, e)'
  BY Stays
<1> QED
  BY <1>1 DEF Known

\* What fills a stream is named as the page names its events.
LEMMA FilledNamed ==
  ASSUME S!IInv, TablesAlone, NEW saved, GoodJournal(saved), NEW out, InStep(saved, out),
         NEW a \in DOMAIN attempts, NEW log, Fills(a, saved, log)
  PROVE  \A i \in 1..Len(log) : Named(log[i])
<1> SUFFICES ASSUME NEW i \in 1..Len(log) PROVE Named(log[i])
  OBVIOUS
<1>a. PICK old : old = attempts[a].log
  OBVIOUS
<1>1. Len(log) \in Nat /\ Len(old) \in Nat /\ DOMAIN old = 1..Len(old) /\ a # NoAttempt
  BY <1>a, Ordering, LogForm DEF Fills
<1>2. CASE i <= Len(old)
  <2>1. i \in 1..Len(old)
    BY <1>1, <1>2
  <2>2. log[i] = old[i]
    BY <1>a, <2>1 DEF Fills
  <2>3. Named(old[i])
    BY <1>1, <1>a, <2>1 DEF TablesAlone
  <2> QED
    BY <2>2, <2>3
<1>3. CASE i > Len(old)
  <2>1. a = saved.attempt /\ Among(log[i], saved.events)
    BY <1>3, <1>a DEF Fills
  <2>2. Continues(a, saved)
    BY <1>1, <2>1, AttachedForm DEF InStep
  <2>3. PICK j \in DOMAIN saved.events : saved.events[j] = log[i]
    BY <2>1 DEF Among
  <2> QED
    BY <2>2, <2>3 DEF Continues
<1> QED
  BY <1>1, <1>2, <1>3

\* A prolonged stream keeps the tables as one tab leaves them.
LEMMA ExtendedTables ==
  ASSUME S!IInv, TablesAlone, S!IInv', NEW saved, GoodJournal(saved), NEW out, InStep(saved, out),
         Prolonged(saved, out)
  PROVE  TablesAlone'
<1> SUFFICES ASSUME NEW a \in DOMAIN attempts
             PROVE  /\ attempts'[a].command[1] = "start"
                    /\ attempts'[a].command[3] = attempts'[a].index
                    /\ attempts'[a].finish # Unfinished =>
                         /\ attempts'[a].finish.command[1] = "finish"
                         /\ attempts'[a].finish.command[3] = attempts'[a].index
                         /\ EndOfBatch(attempts'[a].finish.request.events) # NoSeq
                    /\ \A i \in DOMAIN attempts'[a].log : Named(attempts'[a].log[i])
  BY DEF TablesAlone, Prolonged, EndOfBatch, Named
<1>1. /\ attempts'[a].index = attempts[a].index
      /\ attempts'[a].command = attempts[a].command
      /\ attempts'[a].finish = attempts[a].finish
      /\ Fills(a, saved, attempts'[a].log)
      /\ DOMAIN attempts' = DOMAIN attempts
  BY DEF Prolonged
<1>2. attempts'[a].log \in Seq(Event)
  <2>1. attempts'[a] \in S!Attempt
    BY <1>1 DEF S!IInv, S!TypeOK
  <2> QED
    BY <2>1, SameEvent DEF S!Attempt
<1>3. \A i \in DOMAIN attempts'[a].log : Named(attempts'[a].log[i])
  <2>1. DOMAIN attempts'[a].log = 1..Len(attempts'[a].log)
    BY <1>2
  <2> QED
    BY <1>1, <2>1, FilledNamed
<1> QED
  BY <1>1, <1>3 DEF TablesAlone

\* A prolonged stream moves no attempt and no session.
LEMMA ExtendedPlaces ==
  ASSUME NEW saved, NEW out, Prolonged(saved, out)
  PROVE  /\ NotStarted(Me)' <=> NotStarted(Me)
         /\ \A a, i : AttemptAt(a, i)' <=> AttemptAt(a, i)
         /\ \A a : Owns(Me, a)' <=> Owns(Me, a)
         /\ \A c : StoredBy(c)' <=> StoredBy(c)
<1>1. /\ sessions'[Me].index = sessions[Me].index
      /\ DOMAIN attempts' = DOMAIN attempts
      /\ \A x \in DOMAIN attempts :
           /\ attempts'[x].session = attempts[x].session
           /\ attempts'[x].index = attempts[x].index
           /\ attempts'[x].finish = attempts[x].finish
  BY DEF Prolonged
<1>2. \A a : Owns(Me, a)' <=> Owns(Me, a)
  BY <1>1 DEF Owns
<1>3. \A a, i : AttemptAt(a, i)' <=> AttemptAt(a, i)
  BY <1>1, <1>2 DEF AttemptAt, Owns
<1>4. NotStarted(Me)' <=> NotStarted(Me)
  BY <1>1 DEF NotStarted, AttemptsAt
<1>5. \A c : StoredBy(c)' <=> StoredBy(c)
  BY <1>1, <1>2 DEF StoredBy, Owns
<1> QED
  BY <1>2, <1>3, <1>4, <1>5

\* A prolonged stream leaves a start command alone.
LEMMA ExtendedStarting ==
  ASSUME S!IInv, S!IInv', NEW saved, NEW out, StartAlone(saved), Prolonged(saved, out)
  PROVE  StartAlone(saved)'
<1>1. saved.attempt = NoAttempt
  BY DEF StartAlone, EmptyJournal
<1>2. sessions'[Me].index = sessions[Me].index
  BY DEF Prolonged
<1>3. ASSUME NEW a \in DOMAIN attempts', AttemptAt(a, saved.start.task)'
      PROVE  attempts'[a].command = saved.start.command /\ attempts'[a].log = <<>>
  <2>1. a \in DOMAIN attempts /\ AttemptAt(a, saved.start.task)
    BY <1>3, ExtendedPlaces DEF Prolonged
  <2>2. attempts[a].command = saved.start.command /\ attempts[a].log = <<>>
    BY <2>1 DEF StartAlone
  <2>3. Fills(a, saved, attempts'[a].log) /\ attempts'[a].command = attempts[a].command
    BY <2>1 DEF Prolonged
  <2>4. a # NoAttempt
    BY <2>1, Ordering, LogForm
  <2>5. attempts'[a].log \in Seq(Event)
    <3>1. attempts'[a] \in S!Attempt
      BY <1>3 DEF S!IInv, S!TypeOK
    <3> QED
      BY <3>1, SameEvent DEF S!Attempt
  <2>6. Len(attempts[a].log) = 0
    BY <2>2
  <2>7. \A i \in 1..Len(attempts'[a].log) : FALSE
    BY <1>1, <2>3, <2>4, <2>6 DEF Fills
  <2>8. Len(attempts'[a].log) = 0
    BY <2>5, <2>7
  <2> QED
    BY <2>2, <2>3, <2>5, <2>8
<1> QED
  BY <1>2, <1>3 DEF StartAlone

\* A prolonged stream still continues in the outbox.
LEMMA ExtendedContinues ==
  ASSUME S!IInv, NEW saved, GoodJournal(saved), NEW out, NEW a, Continues(a, saved),
         Prolonged(saved, out)
  PROVE  Continues(a, saved)'
<1>1. a \in DOMAIN attempts /\ Owns(Me, a)
  BY DEF Continues, Owns
<1>2. Owns(Me, a)'
  BY <1>1, ExtendedPlaces
<1>3. PICK log : log = attempts'[a].log
  OBVIOUS
<1>4. Fills(a, saved, log)
  BY <1>1, <1>3 DEF Prolonged
<1> QED
  BY <1>2, <1>3, <1>4, FilledContinues, Ordering

\* A prolonged stream leaves a finish command alone.
LEMMA ExtendedFinished ==
  ASSUME S!IInv, S!IInv', Grown, NEW saved, GoodJournal(saved), NEW out, FinishAlone(saved, out),
         saved.finish # None, Prolonged(saved, out)
  PROVE  FinishAlone(saved, out)'
<1>a. PICK c : c = saved.finish
  OBVIOUS
<1>1. /\ saved.attempt = c.attempt
      /\ Continues(c.attempt, saved)
      /\ c.command[1] = "finish" /\ c.command[3] = attempts[c.attempt].index
      /\ c.events # <<>>
      /\ \A i \in DOMAIN c.events :
           /\ c.events[i].seq = saved.next - 1 - Len(c.events) + i
           /\ Known(c.attempt, c.events[i], saved)
      /\ attempts[c.attempt].finish = Unfinished \/ FinishedBy(c, saved, out)
      /\ FinishRequest(c) \in out => Handed(saved) + 1 >= c.events[1].seq
  BY <1>a DEF FinishAlone
<1>2. c.attempt \in DOMAIN attempts
  BY <1>1 DEF Continues, Owns
<1>3. /\ attempts'[c.attempt].index = attempts[c.attempt].index
      /\ attempts'[c.attempt].finish = attempts[c.attempt].finish
      /\ attempts[c.attempt].finish # Unfinished =>
           Len(attempts'[c.attempt].log) = Len(attempts[c.attempt].log)
      /\ sessions'[Me].index = sessions[Me].index
  BY <1>2 DEF Prolonged
<1>4. Continues(c.attempt, saved)'
  BY <1>1, ExtendedContinues
<1>5. \A i \in DOMAIN c.events : Known(c.attempt, c.events[i], saved)'
  BY <1>1, KnownKept
<1>6. FinishedBy(c, saved, out) => FinishedBy(c, saved, out)'
  BY <1>3, ExtendedPlaces DEF FinishedBy
<1>7. attempts'[c.attempt].finish = Unfinished \/ FinishedBy(c, saved, out)'
  BY <1>1, <1>3, <1>6
<1> QED
  BY <1>1, <1>3, <1>4, <1>5, <1>7, <1>a DEF FinishAlone, Handed

\* A prolonged stream leaves the journal in step.
LEMMA ExtendedJournal ==
  ASSUME S!IInv, S!IInv', Grown, NEW saved, GoodJournal(saved), NEW out, JournalAlone(saved, out),
         Prolonged(saved, out)
  PROVE  JournalAlone(saved, out)'
<1>1. saved.start # None => StartAlone(saved)'
  BY ExtendedStarting DEF JournalAlone
<1>2. ASSUME saved.start = None, saved.finish = None, saved.attempt # NoAttempt
      PROVE  Continues(saved.attempt, saved)' /\ AttemptAt(saved.attempt, sessions[Me].index)'
  <2>1. Continues(saved.attempt, saved) /\ AttemptAt(saved.attempt, sessions[Me].index)
    BY <1>2 DEF JournalAlone
  <2>2. sessions'[Me].index = sessions[Me].index
    BY DEF Prolonged
  <2>3. AttemptAt(saved.attempt, sessions[Me].index)'
    BY <2>1, <2>2, ExtendedPlaces DEF AttemptAt
  <2> QED
    BY <2>1, <2>3, ExtendedContinues
<1>3. ASSUME saved.finish # None, Unnumbered(saved.finish)
      PROVE  saved.attempt = NoAttempt /\ AttemptAt(saved.finish.attempt, sessions[Me].index)'
             /\ Len(saved.finish.events) = 1
  <2>1. /\ saved.attempt = NoAttempt /\ AttemptAt(saved.finish.attempt, sessions[Me].index)
        /\ Len(saved.finish.events) = 1
    BY <1>3 DEF JournalAlone
  <2>2. sessions'[Me].index = sessions[Me].index
    BY DEF Prolonged
  <2>3. AttemptAt(saved.finish.attempt, sessions[Me].index)'
    BY <2>1, <2>2, ExtendedPlaces DEF AttemptAt
  <2> QED
    BY <2>1, <2>3
<1>4. ASSUME saved.finish # None, ~Unnumbered(saved.finish)
      PROVE  FinishAlone(saved, out)'
  <2>1. FinishAlone(saved, out)
    BY <1>4 DEF JournalAlone
  <2> QED
    BY <1>4, <2>1, ExtendedFinished
<1>5. saved.start = None /\ saved.finish = None /\ saved.attempt = NoAttempt => saved = EmptyJournal
  BY DEF JournalAlone
<1> QED
  BY <1>1, <1>2, <1>3, <1>4, <1>5 DEF JournalAlone, Unnumbered

\* The last number of the next checkpoint is a number.
LEMMA TopTyped ==
  ASSUME NEW saved, GoodJournal(saved)
  PROVE  Top(saved) \in Int
<1>1. PICK k \in 0..Len(saved.events) : Len(Batch(saved.events)) = k
  BY BatchHead, JournalForm DEF SubmitLast
<1>2. Len(saved.events) \in Nat /\ saved.next \in Nat
  BY JournalForm
<1> QED
  BY <1>1, <1>2 DEF Top, Handed

\* A prolonged stream leaves the requests on their way in step.
LEMMA ExtendedSent ==
  ASSUME S!IInv, Grown, NEW saved, GoodJournal(saved), NEW out, SentAlone(saved, out),
         Prolonged(saved, out)
  PROVE  SentAlone(saved, out)'
<1>1. sessions'[Me].index = sessions[Me].index
  BY DEF Prolonged
<1>2. ASSUME NEW m \in out, m.kind = "start"
      PROVE  /\ m.command[1] = "start" /\ m.command[3] = m.task
             /\ m.task <= sessions'[Me].index
             /\ m.task = sessions'[Me].index /\ NotStarted(Me)' =>
                  saved.start # None /\ m = StartRequest(saved.start)
  BY <1>1, <1>2, ExtendedPlaces DEF SentAlone
<1>3. ASSUME NEW m \in out, m.kind = "events", NEW i \in DOMAIN m.events
      PROVE  Known(m.attempt, m.events[i], saved)'
  BY <1>3, KnownKept DEF SentAlone
<1>4. ASSUME NEW m \in out, m.kind = "finish"
      PROVE  \/ EndOfBatch(m.body.events) = NoSeq
             \/ Owns(Me, m.attempt)' /\ attempts'[m.attempt].finish # Unfinished
             \/ saved.finish # None /\ m = FinishRequest(saved.finish)
  <2>1. \/ EndOfBatch(m.body.events) = NoSeq
        \/ Owns(Me, m.attempt) /\ attempts[m.attempt].finish # Unfinished
        \/ saved.finish # None /\ m = FinishRequest(saved.finish)
    BY <1>4 DEF SentAlone
  <2>2. CASE Owns(Me, m.attempt) /\ attempts[m.attempt].finish # Unfinished
    <3>1. m.attempt \in DOMAIN attempts
      BY <2>2 DEF Owns
    <3>2. attempts'[m.attempt].finish = attempts[m.attempt].finish
      BY <3>1 DEF Prolonged
    <3> QED
      BY <2>2, <3>2, ExtendedPlaces
  <2> QED
    BY <2>1, <2>2
<1>5. ASSUME saved.attempt # NoAttempt, Unsent(saved, out)
      PROVE  Reaches(saved.attempt, Top(saved), out)'
  <2>a. PICK n : n = Top(saved)
    OBVIOUS
  <2>1. Reaches(saved.attempt, n, out)
    BY <1>5, <2>a DEF SentAlone
  <2>2. Reaches(saved.attempt, n, out)'
    BY <1>5, <2>1 DEF Prolonged
  <2>3. n = Top(saved)'
    BY <2>a DEF Top, Handed
  <2> QED
    BY <2>2, <2>3 DEF Reaches, Top, Handed
<1> QED
  BY <1>2, <1>3, <1>4, <1>5 DEF SentAlone, EndOfBatch, StartRequest, FinishRequest, Unsent, Top, Handed

\* A prolonged stream takes nothing back from the page.
LEMMA ExtendedCarry ==
  ASSUME S!IInv, NEW saved, NEW out, Prolonged(saved, out)
  PROVE  Carry(saved, out)
<1>1. saved.finish # None /\ StoredBy(saved.finish) =>
        StoredBy(saved.finish)' /\ sessions'[Me].index = sessions[Me].index
  <2>1. ASSUME saved.finish # None, StoredBy(saved.finish) PROVE StoredBy(saved.finish)'
    BY <2>1, ExtendedPlaces
  <2> QED
    BY <2>1 DEF Prolonged
<1>2. NotStarted(Me)' <=> NotStarted(Me)
  BY ExtendedPlaces
<1>3. ASSUME NEW a \in DOMAIN attempts, a # saved.attempt
      PROVE  Len(attempts'[a].log) = Len(attempts[a].log)
  <2>a. PICK log, old : log = attempts'[a].log /\ old = attempts[a].log
    OBVIOUS
  <2>1. Fills(a, saved, log)
    BY <2>a DEF Prolonged
  <2>2. Len(old) \in Nat
    BY <2>a, Ordering, LogForm
  <2>3. /\ Len(log) \in Nat /\ Len(log) >= Len(old)
        /\ \A i \in 1..Len(log) : ~(i > Len(old))
    BY <1>3, <2>1, <2>a DEF Fills
  <2>4. Len(log) = Len(old)
    BY <2>2, <2>3
  <2> QED
    BY <2>4, <2>a
<1>4. now' >= now /\ sessions'[Me].index = sessions[Me].index
  BY DEF Prolonged
<1>5. saved.attempt # NoAttempt =>
       \A n : Reaches(saved.attempt, n, out) => Reaches(saved.attempt, n, out)'
  BY DEF Prolonged
<1> QED
  BY <1>1, <1>2, <1>3, <1>4, <1>5 DEF Carry

\* A prolonged stream keeps everything in step.
LEMMA ExtendedInStep ==
  ASSUME S!IInv, S!IInv', Grown, TablesAlone, NEW saved, GoodJournal(saved), NEW out,
         InStep(saved, out), Prolonged(saved, out)
  PROVE  TablesAlone' /\ InStep(saved, out)' /\ Carry(saved, out)
<1>1. JournalAlone(saved, out)' /\ SentAlone(saved, out)'
  BY ExtendedJournal, ExtendedSent DEF InStep
<1> QED
  BY <1>1, ExtendedTables, ExtendedCarry DEF InStep

\* The stream as it is fills itself.
LEMMA FillsNothing ==
  ASSUME S!IInv, NEW a \in DOMAIN attempts, NEW saved
  PROVE  Fills(a, saved, attempts[a].log)
<1>a. PICK old : old = attempts[a].log
  OBVIOUS
<1>1. Len(old) \in Nat
  BY <1>a, Ordering, LogForm
<1> QED
  BY <1>1, <1>a DEF Fills

\* Time alone prolongs nothing.
LEMMA TickExtends ==
  ASSUME S!IInv, Tick, NEW saved, NEW out
  PROVE  Prolonged(saved, out)
<1>1. now' = now + 1 /\ UNCHANGED <<sessions, attempts>> /\ now \in Nat
  BY DEF Tick, S!IInv, S!TypeOK
<1>2. \A x \in DOMAIN attempts : Fills(x, saved, attempts'[x].log)
  BY <1>1, FillsNothing
<1>3. \A n : Reaches(saved.attempt, n, out) => Reaches(saved.attempt, n, out)'
  BY <1>1 DEF Reaches
<1>4. now' >= now
  BY <1>1
<1> QED
  BY <1>1, <1>2, <1>3, <1>4 DEF Prolonged

\* A checkpoint stored, or stored before, prolongs the stream of its attempt.
LEMMA EventsExtends ==
  ASSUME S!IInv, NEW saved, GoodJournal(saved), NEW out, \A m \in out : GoodRequest(m),
         InStep(saved, out), NEW m \in out, m.kind = "events", Events(Me, m.attempt, m.events)
  PROVE  Prolonged(saved, out)
<1>a. PICK x, batch : x = m.attempt /\ batch = m.events
  OBVIOUS
<1>0. Events(Me, x, batch) /\ x \in AttemptIds /\ batch \in Seq(PageEvent)
  BY <1>a, RequestForms DEF GoodRequest
<1>1. /\ x \in DOMAIN attempts /\ Owns(Me, x)
      /\ \E frozen : /\ Appendable(attempts[x].log, batch, frozen)
                     /\ attempts[x].finish # Unfinished => frozen
      /\ DOMAIN attempts' = DOMAIN attempts
      /\ \A y \in DOMAIN attempts : y # x => attempts'[y] = attempts[y]
      /\ attempts'[x].log = Merged(attempts[x].log, batch)
      /\ attempts'[x].finish = attempts[x].finish
      /\ \A y \in DOMAIN attempts : S!SameStart(y)
      /\ sessions'[Me].index = sessions[Me].index
      /\ now' = now
  BY <1>0, EventsDone
<1>2. PICK frozen : /\ Appendable(attempts[x].log, batch, frozen)
                    /\ attempts[x].finish # Unfinished => frozen
  BY <1>1
<1>3. \A i \in DOMAIN batch : Known(x, batch[i], saved)
  BY <1>a DEF InStep, SentAlone
<1>b. PICK log : log = Merged(attempts[x].log, batch)
  OBVIOUS
<1>c. S!TypeOK /\ Appendable(attempts[x].log, batch, frozen) /\ Owns(Me, x) /\ batch \in Seq(PageEvent)
  BY <1>0, <1>1, <1>2 DEF S!IInv
<1>d. Fills(x, saved, log) /\ FilledBy(x, batch, log, frozen)
  BY <1>3, <1>b, <1>c, BatchFills
<1>4. /\ Fills(x, saved, log)
      /\ \A i \in 1..Len(log) : i > Len(attempts[x].log) => \E j \in DOMAIN batch : batch[j].seq = i
      /\ frozen => Len(log) = Len(attempts[x].log)
  BY <1>d DEF FilledBy
<1>5. ASSUME NEW y \in DOMAIN attempts
      PROVE  /\ attempts'[y].session = attempts[y].session
             /\ attempts'[y].index = attempts[y].index
             /\ attempts'[y].command = attempts[y].command
             /\ attempts'[y].finish = attempts[y].finish
             /\ Fills(y, saved, attempts'[y].log)
             /\ attempts[y].finish # Unfinished => Len(attempts'[y].log) = Len(attempts[y].log)
  <2>1. S!SameStart(y)
    BY <1>1
  <2>2. CASE y = x
    BY <1>1, <1>2, <1>4, <1>b, <2>1, <2>2 DEF S!SameStart
  <2>3. CASE y # x
    <3>1. attempts'[y] = attempts[y]
      BY <1>1, <2>3
    <3> QED
      BY <3>1, FillsNothing
  <2> QED
    BY <2>2, <2>3
<1>6. ASSUME saved.attempt # NoAttempt, NEW n, Reaches(saved.attempt, n, out)
      PROVE  Reaches(saved.attempt, n, out)'
  <2>1. CASE saved.attempt # x
    <3>1. saved.attempt \in DOMAIN attempts
      BY <1>6, AttachedForm DEF InStep, Continues, Owns
    <3>2. attempts'[saved.attempt] = attempts[saved.attempt]
      BY <1>1, <2>1, <3>1
    <3> QED
      BY <1>6, <3>2 DEF Reaches
  <2>2. CASE saved.attempt = x
    <3>1. Len(log) <= n
      <4>1. Len(attempts[x].log) \in Nat /\ Len(log) \in Nat /\ Len(log) >= Len(attempts[x].log)
        BY <1>1, <1>4, Ordering, LogForm DEF Fills
      <4>2. CASE Len(log) = Len(attempts[x].log)
        BY <1>6, <2>2, <4>2 DEF Reaches
      <4>3. CASE Len(log) > Len(attempts[x].log)
        <5>1. Len(log) \in 1..Len(log)
          BY <4>1, <4>3
        <5>2. PICK j \in DOMAIN batch : batch[j].seq = Len(log)
          BY <1>4, <4>3, <5>1
        <5>3. batch[j].seq <= n
          BY <1>6, <1>a, <2>2 DEF Reaches
        <5> QED
          BY <5>2, <5>3
      <4> QED
        BY <4>1, <4>2, <4>3
    <3>2. Len(attempts'[saved.attempt].log) <= n
      BY <1>1, <1>b, <2>2, <3>1
    <3> QED
      BY <1>6, <3>2 DEF Reaches
  <2> QED
    BY <2>1, <2>2
<1>7. now' >= now
  BY <1>1 DEF S!IInv, S!TypeOK
<1> QED
  BY <1>1, <1>5, <1>6, <1>7 DEF Prolonged

\* An attempt opened by the page's command keeps the tables as one tab leaves them.
LEMMA OpenedTables ==
  ASSUME TablesAlone, NEW s, NEW a, Opened(s, a), s.command[1] = "start", s.command[3] = s.task
  PROVE  TablesAlone'
<1> SUFFICES ASSUME NEW x \in DOMAIN attempts'
             PROVE  /\ attempts'[x].command[1] = "start"
                    /\ attempts'[x].command[3] = attempts'[x].index
                    /\ attempts'[x].finish # Unfinished =>
                         /\ attempts'[x].finish.command[1] = "finish"
                         /\ attempts'[x].finish.command[3] = attempts'[x].index
                         /\ EndOfBatch(attempts'[x].finish.request.events) # NoSeq
                    /\ \A i \in DOMAIN attempts'[x].log : Named(attempts'[x].log[i])
  BY DEF TablesAlone, EndOfBatch, Named
<1>1. CASE x = a
  BY <1>1 DEF Opened
<1>2. CASE x \in DOMAIN attempts
  <2>1. attempts'[x] = attempts[x]
    BY <1>2 DEF Opened
  <2> QED
    BY <1>2, <2>1 DEF TablesAlone
<1> QED
  BY <1>1, <1>2 DEF Opened

\* An attempt opened by the page's command keeps everything in step.
LEMMA OpenedStart ==
  ASSUME S!IInv, Grown, TablesAlone, NEW saved, GoodJournal(saved), saved.start # None, NEW out,
         InStep(saved, out), NEW a, Opened(saved.start, a)
  PROVE  TablesAlone' /\ InStep(saved, out)' /\ Carry(saved, out)
<1>a. PICK s : s = saved.start
  OBVIOUS
<1>1. /\ a \notin DOMAIN attempts
      /\ DOMAIN attempts' = DOMAIN attempts \cup {a}
      /\ \A x \in DOMAIN attempts : attempts'[x] = attempts[x]
      /\ attempts'[a].session = Me /\ attempts'[a].index = s.task
      /\ attempts'[a].command = s.command /\ attempts'[a].log = <<>>
      /\ attempts'[a].finish = Unfinished
      /\ s.task = sessions[Me].index
      /\ NotStarted(Me)
      /\ UNCHANGED <<now, sessions>>
  BY <1>a DEF Opened
<1>2. /\ StartAlone(saved) /\ saved.finish = None /\ saved.attempt = NoAttempt
      /\ s.command[1] = "start" /\ s.command[3] = s.task
  BY <1>a DEF InStep, JournalAlone, StartAlone, GoodJournal, EmptyJournal
<1>3. ~NotStarted(Me)'
  BY <1>1 DEF NotStarted, AttemptsAt
<1>4. TablesAlone'
  BY <1>2, <1>a, OpenedTables
<1>5. ASSUME NEW x \in DOMAIN attempts', AttemptAt(x, s.task)'
      PROVE  attempts'[x].command = s.command /\ attempts'[x].log = <<>>
  <2>1. CASE x = a
    BY <1>1, <2>1
  <2>2. CASE x \in DOMAIN attempts
    <3>1. attempts'[x] = attempts[x]
      BY <1>1, <2>2
    <3>2. x \in AttemptsAt(Me, sessions[Me].index)
      BY <1>1, <1>5, <2>2, <3>1 DEF AttemptAt, AttemptsAt, Owns
    <3> QED
      BY <1>1, <3>2 DEF NotStarted
  <2> QED
    BY <1>1, <2>1, <2>2
<1>6. StartAlone(saved)'
  <2>1. \A x \in DOMAIN attempts' : AttemptAt(x, saved.start.task)' =>
          attempts'[x].command = saved.start.command /\ attempts'[x].log = <<>>
    BY <1>5, <1>a
  <2> QED
    BY <1>1, <1>2, <2>1 DEF StartAlone
<1>7. JournalAlone(saved, out)'
  BY <1>2, <1>6, <1>a DEF JournalAlone
<1>8. ASSUME NEW m \in out, m.kind = "finish"
      PROVE  \/ EndOfBatch(m.body.events) = NoSeq
             \/ Owns(Me, m.attempt)' /\ attempts'[m.attempt].finish # Unfinished
             \/ saved.finish # None /\ m = FinishRequest(saved.finish)
  <2>1. \/ EndOfBatch(m.body.events) = NoSeq
        \/ Owns(Me, m.attempt) /\ attempts[m.attempt].finish # Unfinished
        \/ saved.finish # None /\ m = FinishRequest(saved.finish)
    BY <1>8 DEF InStep, SentAlone
  <2>2. CASE Owns(Me, m.attempt) /\ attempts[m.attempt].finish # Unfinished
    <3>1. m.attempt \in DOMAIN attempts /\ attempts'[m.attempt] = attempts[m.attempt]
      BY <1>1, <2>2 DEF Owns
    <3> QED
      BY <1>1, <2>2, <3>1 DEF Owns
  <2> QED
    BY <2>1, <2>2
<1>9. \A m \in out : m.kind = "start" =>
        m.command[1] = "start" /\ m.command[3] = m.task /\ m.task <= sessions'[Me].index
  BY <1>1 DEF InStep, SentAlone
<1>10. \A m \in out : m.kind = "events" =>
         \A i \in DOMAIN m.events : Known(m.attempt, m.events[i], saved)'
  BY KnownKept DEF InStep, SentAlone
<1>11. SentAlone(saved, out)'
  BY <1>2, <1>3, <1>8, <1>9, <1>10
     DEF SentAlone, EndOfBatch, StartRequest, FinishRequest
<1>12. Carry(saved, out)
  <2>1. now' >= now
    BY <1>1 DEF S!IInv, S!TypeOK
  <2> QED
    BY <1>1, <1>2, <1>3, <1>a, <2>1 DEF Carry
<1> QED
  BY <1>4, <1>7, <1>11, <1>12 DEF InStep

\* The answer that finish takes is the one the page holds.
LEMMA EndedByPage ==
  ASSUME S!IInv, NEW saved, GoodJournal(saved), NEW out, \A m \in out : GoodRequest(m),
         InStep(saved, out), NEW m \in out, m.kind = "finish",
         NEW body, body = m.body, NEW a, a = m.attempt, NEW log,
         Ended(a, m.command, body, log), body.events # <<>>, body.events \in Seq(Event)
  PROVE  /\ saved.finish # None /\ m = FinishRequest(saved.finish)
         /\ ~Unnumbered(saved.finish) /\ saved.start = None
         /\ FinishAlone(saved, out) /\ saved.attempt = a
<1>1. EndOfBatch(body.events) # NoSeq
  <2>1. Len(body.events) \in 1..Len(body.events)
    OBVIOUS
  <2>2. body.events[Len(body.events)] \in Event
    BY <2>1
  <2> QED
    BY <2>2 DEF Event, EndOfBatch, NoSeq
<1>2. saved.finish # None /\ m = FinishRequest(saved.finish)
  BY <1>1 DEF InStep, SentAlone, Ended
<1>a. PICK c : c = saved.finish
  OBVIOUS
<1>3. c # None /\ c.events = body.events /\ c.attempt = a
  BY <1>2, <1>a DEF FinishRequest
<1>4. ~Unnumbered(c)
  BY <1>1, <1>3 DEF Unnumbered, EndOfBatch
<1>5. FinishAlone(saved, out)
  BY <1>2, <1>4, <1>a DEF InStep, JournalAlone
<1>6. saved.attempt = a
  BY <1>3, <1>5, <1>a DEF FinishAlone
<1>7. saved.start = None
  BY <1>2 DEF GoodJournal
<1> QED
  BY <1>2, <1>4, <1>5, <1>6, <1>7, <1>a

\* A finish stores the rest of the outbox.
LEMMA EndedStream ==
  ASSUME S!IInv, NEW saved, GoodJournal(saved), NEW out, FinishAlone(saved, out),
         NEW c, c = saved.finish, saved.attempt = c.attempt, c.events \in Seq(PageEvent),
         NEW command, NEW body, body.events = c.events, NEW log, Ended(c.attempt, command, body, log)
  PROVE  /\ Fills(c.attempt, saved, log) /\ Continues(c.attempt, saved)'
         /\ Len(log) = saved.next - 1
<1>a. PICK a, events : a = c.attempt /\ events = c.events
  OBVIOUS
<1>1. /\ Continues(a, saved) /\ events # <<>> /\ events \in Seq(PageEvent)
      /\ \A i \in DOMAIN events : events[i].seq = saved.next - 1 - Len(events) + i
      /\ \A i \in DOMAIN events : Known(a, events[i], saved)
  BY <1>a DEF FinishAlone
<1>2. /\ Owns(Me, a) /\ Owns(Me, a)' /\ Appendable(attempts[a].log, events, FALSE)
      /\ log = Merged(attempts[a].log, events) /\ attempts'[a].log = log
      /\ S!TypeOK
  BY <1>a DEF Ended, Owns, S!IInv
<1>3. Fills(a, saved, log) /\ FilledBy(a, events, log, FALSE)
  BY <1>1, <1>2, BatchFills
<1>4. Continues(a, saved)'
  BY <1>1, <1>2, <1>3, FilledContinues
<1>5. Len(log) < saved.next
  BY <1>2, <1>4 DEF Continues
<1>6. Len(log) \in Nat /\ saved.next \in Nat /\ Len(events) \in Nat /\ Len(events) > 0
  BY <1>1, <1>3, JournalForm DEF Fills
<1>7. events[Len(events)].seq = saved.next - 1
  BY <1>1, <1>6
<1>8. saved.next - 1 \in 1..Len(log)
  BY <1>1, <1>3, <1>6, <1>7 DEF FilledBy
<1>9. Len(log) = saved.next - 1
  BY <1>5, <1>6, <1>8
<1> QED
  BY <1>3, <1>4, <1>9, <1>a

\* A finish keeps the tables as one tab leaves them.
LEMMA EndedTables ==
  ASSUME S!IInv, S!IInv', TablesAlone, NEW saved, GoodJournal(saved), NEW out, InStep(saved, out),
         NEW a, NEW command, NEW body, NEW log, Ended(a, command, body, log),
         Fills(a, saved, log), command[1] = "finish", command[3] = attempts[a].index,
         EndOfBatch(body.events) # NoSeq
  PROVE  TablesAlone'
<1> SUFFICES ASSUME NEW x \in DOMAIN attempts'
             PROVE  /\ attempts'[x].command[1] = "start"
                    /\ attempts'[x].command[3] = attempts'[x].index
                    /\ attempts'[x].finish # Unfinished =>
                         /\ attempts'[x].finish.command[1] = "finish"
                         /\ attempts'[x].finish.command[3] = attempts'[x].index
                         /\ EndOfBatch(attempts'[x].finish.request.events) # NoSeq
                    /\ \A i \in DOMAIN attempts'[x].log : Named(attempts'[x].log[i])
  BY DEF TablesAlone, EndOfBatch, Named
<1>1. CASE x = a
  <2>1. /\ a \in DOMAIN attempts
        /\ attempts'[a].index = attempts[a].index
        /\ attempts'[a].command = attempts[a].command
        /\ attempts'[a].log = log
        /\ attempts'[a].finish = [at |-> now, command |-> command, request |-> body]
    BY DEF Ended
  <2>2. log \in Seq(Event)
    <3>1. attempts'[a] \in S!Attempt
      BY <1>1 DEF S!IInv, S!TypeOK
    <3> QED
      BY <2>1, <3>1, SameEvent DEF S!Attempt
  <2>3. \A i \in DOMAIN log : Named(log[i])
    <3>1. DOMAIN log = 1..Len(log)
      BY <2>2
    <3> QED
      BY <2>1, <3>1, FilledNamed
  <2>4. attempts[a].command[1] = "start" /\ attempts[a].command[3] = attempts[a].index
    BY <2>1 DEF TablesAlone
  <2> QED
    BY <1>1, <2>1, <2>3, <2>4
<1>2. CASE x # a
  <2>1. x \in DOMAIN attempts /\ attempts'[x] = attempts[x]
    BY <1>2 DEF Ended
  <2> QED
    BY <2>1 DEF TablesAlone
<1> QED
  BY <1>1, <1>2

\* A finish leaves the journal in step.
LEMMA EndedJournal ==
  ASSUME S!IInv, Grown, NEW saved, GoodJournal(saved), NEW out, FinishAlone(saved, out),
         NEW c, c = saved.finish, c # None, ~Unnumbered(c), saved.start = None, saved.attempt = c.attempt,
         NEW body \in FinishBody(Nodes \cup {Root}, Event), body = FinishRequest(c).body,
         NEW log, Ended(c.attempt, c.command, body, log),
         FinishRequest(c) \in out, Continues(c.attempt, saved)', Len(log) = saved.next - 1
  PROVE  JournalAlone(saved, out)' /\ attempts'[c.attempt].finish # Unfinished
<1>1. /\ c.command[1] = "finish" /\ c.command[3] = attempts[c.attempt].index
      /\ c.events # <<>>
      /\ \A i \in DOMAIN c.events :
           /\ c.events[i].seq = saved.next - 1 - Len(c.events) + i
           /\ Known(c.attempt, c.events[i], saved)
      /\ Handed(saved) + 1 >= c.events[1].seq
  BY DEF FinishAlone
<1>2. \A i \in DOMAIN c.events : Known(c.attempt, c.events[i], saved)'
  BY <1>1, KnownKept
<1>3. NotStarted(Me)'
  BY EndedNotStarted
<1>4. /\ attempts'[c.attempt].index = attempts[c.attempt].index
      /\ attempts'[c.attempt].log = log
      /\ attempts'[c.attempt].finish = [at |-> now, command |-> c.command, request |-> body]
      /\ sessions'[Me].index = attempts[c.attempt].index + 1
      /\ c.attempt \in DOMAIN attempts'
  BY DEF Ended
<1>5. attempts'[c.attempt].finish # Unfinished
  <2>1. PICK b, command, n : b = body /\ command = c.command /\ n = now
    OBVIOUS
  <2>2. c \in FinishCommand
    BY JournalFields DEF GoodJournal
  <2>3. command \in CommandId /\ n \in Nat /\ b \in FinishBody(Nodes \cup {Root}, Event)
    BY <2>1, <2>2 DEF FinishCommand, S!IInv, S!TypeOK
  <2>4. [at |-> n, command |-> command, request |-> b] # Unfinished
    BY <2>3, NoneAssumption
  <2> QED
    BY <1>4, <2>1, <2>4
<1>6. FinishedBy(c, saved, out)'
  BY <1>3, <1>4, <1>5 DEF FinishedBy, FinishRequest
<1>7. FinishAlone(saved, out)'
  BY <1>1, <1>2, <1>4, <1>6 DEF FinishAlone, Handed, FinishRequest
<1>8. JournalAlone(saved, out)'
  BY <1>7 DEF JournalAlone, Unnumbered
<1> QED
  BY <1>5, <1>8

\* A finish leaves the requests on their way in step.
LEMMA EndedSent ==
  ASSUME S!IInv, S!IInv', Grown, NEW saved, NEW out, SentAlone(saved, out),
         \A m \in out : GoodRequest(m), saved.finish # None, FinishRequest(saved.finish) \in out,
         NEW a, NEW command, NEW body, NEW log, Ended(a, command, body, log),
         attempts'[a].finish # Unfinished
  PROVE  SentAlone(saved, out)'
<1>1. sessions'[Me].index = sessions[Me].index + 1 /\ sessions[Me].index \in Nat
  BY Ordering DEF Ended
<1>2. ASSUME NEW m \in out, m.kind = "start"
      PROVE  /\ m.command[1] = "start" /\ m.command[3] = m.task
             /\ m.task <= sessions'[Me].index
             /\ m.task # sessions'[Me].index
  <2>1. m.command[1] = "start" /\ m.command[3] = m.task /\ m.task <= sessions[Me].index
    BY <1>2 DEF SentAlone
  <2>2. m.task \in Nat
    BY <1>2 DEF GoodRequest, Request
  <2> QED
    BY <1>1, <2>1, <2>2
<1>3. \A m \in out : m.kind = "events" =>
         \A i \in DOMAIN m.events : Known(m.attempt, m.events[i], saved)'
  BY KnownKept DEF SentAlone
<1>4. ASSUME NEW m \in out, m.kind = "finish"
      PROVE  \/ EndOfBatch(m.body.events) = NoSeq
             \/ Owns(Me, m.attempt)' /\ attempts'[m.attempt].finish # Unfinished
             \/ saved.finish # None /\ m = FinishRequest(saved.finish)
  <2>1. \/ EndOfBatch(m.body.events) = NoSeq
        \/ Owns(Me, m.attempt) /\ attempts[m.attempt].finish # Unfinished
        \/ saved.finish # None /\ m = FinishRequest(saved.finish)
    BY <1>4 DEF SentAlone
  <2>2. CASE Owns(Me, m.attempt) /\ attempts[m.attempt].finish # Unfinished
    <3>1. m.attempt # a /\ m.attempt \in DOMAIN attempts
      BY <2>2 DEF Ended, Owns
    <3>2. attempts'[m.attempt] = attempts[m.attempt] /\ m.attempt \in DOMAIN attempts'
      BY <3>1 DEF Ended
    <3> QED
      BY <2>2, <3>2 DEF Owns
  <2> QED
    BY <2>1, <2>2
<1>5. ~Unsent(saved, out)
  BY DEF Unsent
<1> QED
  BY <1>2, <1>3, <1>4, <1>5 DEF SentAlone, EndOfBatch, StartRequest, FinishRequest, Unsent

\* A finish takes nothing back from the page.
LEMMA EndedCarry ==
  ASSUME S!IInv, NEW saved, saved.finish # None, saved.start = None, NEW out,
         FinishRequest(saved.finish) \in out,
         NEW command, NEW body, NEW log, Ended(saved.finish.attempt, command, body, log)
  PROVE  Carry(saved, out)
<1>1. now' >= now
  BY DEF Ended, S!IInv, S!TypeOK
<1>2. ~StoredBy(saved.finish)
  BY DEF Ended, StoredBy
<1>3. ~Unsent(saved, out)
  BY DEF Unsent
<1> QED
  BY <1>1, <1>2, <1>3 DEF Carry

\* A finish keeps everything in step.
LEMMA EndedInStep ==
  ASSUME S!IInv, S!IInv', Grown, TablesAlone, NEW saved, GoodJournal(saved), NEW out,
         \A m \in out : GoodRequest(m), InStep(saved, out), NEW m \in out, m.kind = "finish",
         m.attempt \in AttemptIds, m.body \in FinishBody(Nodes \cup {Root}, Event),
         S!Finish(Me, m.command, m.attempt, m.body)
  PROVE  TablesAlone' /\ InStep(saved, out)' /\ Carry(saved, out)
<1>a. PICK command, a, body : command = m.command /\ a = m.attempt /\ body = m.body
  OBVIOUS
<1>b. PICK log : log = Merged(attempts[a].log, body.events)
  OBVIOUS
<1>1. command \in CommandId
  BY <1>a, RequestForms DEF GoodRequest
<1>2. /\ a \in AttemptIds /\ body \in FinishBody(Nodes \cup {Root}, Event)
      /\ S!Finish(Me, command, a, body)
  BY <1>a
<1>3. Ended(a, command, body, log) /\ body.events # <<>> /\ body.events \in Seq(Event)
  BY <1>1, <1>2, <1>b, FinishDone DEF FinishBody
<1>4. /\ saved.finish # None /\ m = FinishRequest(saved.finish)
      /\ ~Unnumbered(saved.finish) /\ saved.start = None
      /\ FinishAlone(saved, out) /\ saved.attempt = a
  BY <1>3, <1>a, EndedByPage
<1>c. PICK c : c = saved.finish
  OBVIOUS
<1>5. c.attempt = a /\ c.command = command /\ c.events = body.events /\ body = FinishRequest(c).body
  BY <1>4, <1>a, <1>c DEF FinishRequest
<1>6. Ended(c.attempt, c.command, body, log) /\ FinishRequest(c) \in out /\ c # None
      /\ ~Unnumbered(c) /\ saved.attempt = c.attempt
  BY <1>3, <1>4, <1>5, <1>c
<1>7. /\ Fills(c.attempt, saved, log) /\ Continues(c.attempt, saved)'
      /\ Len(log) = saved.next - 1
  BY <1>3, <1>4, <1>5, <1>6, <1>c, ServedEvents, EndedStream
<1>8. JournalAlone(saved, out)' /\ attempts'[c.attempt].finish # Unfinished
  BY <1>2, <1>4, <1>5, <1>6, <1>7, <1>c, EndedJournal
<1>9. /\ c.command[1] = "finish" /\ c.command[3] = attempts[c.attempt].index
      /\ EndOfBatch(body.events) # NoSeq
  BY <1>4, <1>5, <1>6, <1>c DEF FinishAlone, Unnumbered, EndOfBatch
<1>10. TablesAlone'
  BY <1>6, <1>7, <1>9, EndedTables
<1>11. attempts'[a].finish # Unfinished
  BY <1>5, <1>8
<1>12. SentAlone(saved, out)'
  BY <1>3, <1>4, <1>6, <1>11, <1>c, EndedSent DEF InStep
<1>13. Carry(saved, out)
  BY <1>4, <1>6, <1>c, EndedCarry
<1> QED
  BY <1>8, <1>10, <1>12, <1>13 DEF InStep

\* Whatever request of the page the server handles, the page stays in step.
LEMMA ServedInStep ==
  ASSUME S!IInv, S!IInv', Grown, TablesAlone, NEW saved, GoodJournal(saved), NEW out,
         \A m \in out : GoodRequest(m), InStep(saved, out), NEW m \in out, Served(m)
  PROVE  TablesAlone' /\ InStep(saved, out)' /\ Carry(saved, out)
<1>1. m \in Request /\ S!TypeOK
  BY DEF GoodRequest, S!IInv
<1>2. Serves(m)
  BY <1>1, ServedNext
<1>3. CASE m.kind = "start"
  <2>a. PICK command, i : command = m.command /\ i = m.task
    OBVIOUS
  <2>1. Start(Me, command, i)
    BY <1>3, <2>a DEF Served
  <2>2. command \in CommandId /\ i \in Nat
    BY <1>1, <1>3, <2>a DEF Request
  <2>3. i = sessions[Me].index /\ NotStarted(Me)
    BY <2>1 DEF Start, IsCurrent
  <2>4. saved.start # None /\ m = StartRequest(saved.start)
    BY <1>3, <2>3, <2>a DEF InStep, SentAlone
  <2>b. PICK s : s = saved.start
    OBVIOUS
  <2>5. s.command = command /\ s.task = i
    BY <2>4, <2>a, <2>b DEF StartRequest
  <2>6. PICK a : Opened(s, a)
    BY <2>1, <2>2, <2>5, StartDone
  <2> QED
    BY <2>4, <2>6, <2>b, OpenedStart
<1>4. CASE m.kind = "events"
  <2>1. Events(Me, m.attempt, m.events)
    BY <1>4 DEF Served
  <2>2. Prolonged(saved, out)
    BY <1>4, <2>1, EventsExtends
  <2> QED
    BY <2>2, ExtendedInStep
<1>5. CASE m.kind = "finish"
  <2>1. /\ m.attempt \in AttemptIds /\ m.body \in FinishBody(Nodes \cup {Root}, Event)
        /\ S!Finish(Me, m.command, m.attempt, m.body)
    BY <1>2, <1>5 DEF Serves
  <2> QED
    BY <1>5, <2>1, EndedInStep
<1> QED
  BY <1>1, <1>3, <1>4, <1>5, RequestForms

\* A command whose receipt is gone stays so.
LEMMA SpentCarried ==
  ASSUME NEW saved, NEW out, Carry(saved, out), Spent(saved), S!IInv, S!IInv'
  PROVE  Spent(saved)'
<1>1. now' >= now /\ now \in Nat /\ now' \in Nat /\ ReceiptLifetime \in Nat
  BY SessionAssumption DEF Carry, S!IInv, S!TypeOK
<1>2. now >= ReceiptLifetime => now' >= ReceiptLifetime
  BY <1>1
<1>3. saved.finish # None /\ StoredBy(saved.finish) => StoredBy(saved.finish)'
  BY DEF Carry
<1>4. saved.start # None /\ ~NotStarted(Me) => ~NotStarted(Me)'
  BY DEF Carry
<1> QED
  BY <1>2, <1>3, <1>4 DEF Spent, Unnumbered

\* What a page has read of its session stays true.
LEMMA ViewCarried ==
  ASSUME NEW saved, NEW out, Carry(saved, out), NEW v, GoodView(v), LoadedView(saved, v)
  PROVE  LoadedView(saved, v)'
<1>1. saved.finish = None => sessions'[Me].index = sessions[Me].index
  BY DEF Carry
<1>2. ASSUME saved.finish = None, saved.start = None, v.attempt = NoAttempt
      PROVE  NotStarted(Me)' /\ saved.attempt = NoAttempt
  BY <1>2 DEF Carry, LoadedView
<1>3. ASSUME saved.finish = None, saved.start = None, v.attempt # NoAttempt
      PROVE  /\ saved.attempt \in {NoAttempt, v.attempt}
             /\ saved.attempt = NoAttempt => Len(v.events) = Len(attempts'[v.attempt].log)
  <2>1. /\ saved.attempt \in {NoAttempt, v.attempt}
        /\ saved.attempt = NoAttempt => Len(v.events) = Len(attempts[v.attempt].log)
    BY <1>3 DEF LoadedView
  <2>2. v.attempt \in DOMAIN attempts
    BY <1>3 DEF GoodView, AttemptAt, Owns
  <2>3. saved.attempt = NoAttempt => Len(attempts'[v.attempt].log) = Len(attempts[v.attempt].log)
    BY <1>3, <2>2 DEF Carry
  <2> QED
    BY <2>1, <2>3
<1>4. v.attempt # NoAttempt /\ v.attempt = saved.attempt => Len(v.events) >= Handed(saved)
  BY DEF LoadedView
<1>5. saved.finish = None => v.index = sessions[Me].index
  BY DEF LoadedView
<1> QED
  BY <1>1, <1>2, <1>3, <1>4, <1>5 DEF LoadedView, Handed

\* What a page waits for stays what it asked for.
LEMMA CallCarried ==
  ASSUME S!IInv, S!IInv', NEW p, Sound(p), NEW out, Carry(p.saved, out), CallAlone(p, out)
  PROVE  CallAlone(p, out)'
<1>a. PICK saved, v, end : saved = p.saved /\ v = p.reply.value /\ end = EndOfBatch(p.call.events)
  OBVIOUS
<1>1. Carry(saved, out)
  BY <1>a
<1>2. ASSUME p.doing \in Checkpoints PROVE Reaches(saved.attempt, end, out)'
  <2>1. /\ p.call.attempt = saved.attempt /\ Unsent(saved, out)
        /\ Reaches(saved.attempt, end, out)
    BY <1>2, <1>a DEF CallAlone
  <2>2. p.call.kind = "events" /\ p.call \in {None, SessionRequest} \cup Request
    BY <1>2 DEF Sound, Busy, Carries, Core, Page
  <2>3. p.call \in Request
    BY <1>2, <2>2 DEF Sound, Busy, Checkpoints, SessionRequest
  <2>4. saved.attempt # NoAttempt
    BY <2>1, <2>2, <2>3, RequestForms, SessionAssumption
  <2> QED
    BY <1>1, <2>1, <2>4 DEF Carry
<1>3. p.reply # None /\ p.reply = Conflict => Spent(saved)'
  BY <1>1, <1>a, SpentCarried DEF CallAlone
<1>4. ASSUME p.reply \notin {None, Conflict, Failure}, p.doing = "loading"
      PROVE  LoadedView(saved, v)'
  <2>1. LoadedView(saved, v)
    BY <1>4, <1>a DEF CallAlone
  <2>2. GoodView(v)
    BY <1>4, <1>a DEF Sound, Told, Checkpoints
  <2> QED
    BY <1>1, <2>1, <2>2, ViewCarried
<1>5. ASSUME p.reply \notin {None, Conflict, Failure}, p.doing = "starting"
      PROVE  v.index = sessions'[Me].index
  <2>1. v.index = sessions[Me].index
    BY <1>5, <1>a DEF CallAlone
  <2>2. saved.finish = None
    BY <1>5, <1>a DEF Sound, Busy, Core, GoodJournal
  <2> QED
    BY <1>1, <2>1, <2>2 DEF Carry
<1>6. ASSUME p.reply \notin {None, Conflict, Failure}, p.doing = "finishing"
      PROVE  StoredBy(saved.finish)' /\ v.index = sessions'[Me].index
  <2>1. StoredBy(saved.finish) /\ v.index = sessions[Me].index
    BY <1>6, <1>a DEF CallAlone
  <2>2. saved.finish # None
    BY <1>6, <1>a DEF Sound, Busy
  <2> QED
    BY <1>1, <2>1, <2>2 DEF Carry
<1> QED
  BY <1>2, <1>3, <1>4, <1>5, <1>6, <1>a
     DEF CallAlone, EndOfBatch, Unsent, StartRequest, FinishRequest, Unnumbered

\* A page in step with a server that takes nothing back stays in step.
LEMMA PageCarried ==
  ASSUME S!IInv, S!IInv', NEW p, Sound(p), NEW out, PageAlone(p, out), Carry(p.saved, out),
         InStep(p.saved, out)'
  PROVE  PageAlone(p, out)'
<1>1. p.news = {} /\ (p.blocked => p.doing = "idle") /\ CallAlone(p, out) /\ ShownAlone(p)
  BY DEF PageAlone
<1>2. CallAlone(p, out)'
  BY <1>1, CallCarried
<1>3. p.blocked => Spent(p.saved)'
  BY SpentCarried DEF PageAlone
<1>4. ASSUME p.doing \notin {"closed", "loading"} PROVE Shows(p)'
  <2>1. Shows(p)
    BY <1>1, <1>4 DEF ShownAlone
  <2>2. p.saved.finish = None => sessions'[Me].index = sessions[Me].index
    BY DEF Carry
  <2>3. p.saved.finish = None /\ p.saved.start = None /\ NotStarted(Me) => NotStarted(Me)'
    BY DEF Carry
  <2> QED
    BY <2>1, <2>2, <2>3 DEF Shows
<1> QED
  BY <1>1, <1>2, <1>3, <1>4 DEF PageAlone, ShownAlone

-----------------------------------------------------------------------------
(* What an answer tells the page.                                          *)

\* The answer to what the page awaits is as CallAlone wants it.
Says(p, reply) ==
  LET saved == p.saved
      v == reply.value
  IN  /\ reply # None /\ reply = Conflict => p.doing \in {"starting", "finishing"} /\ Spent(saved)
      /\ reply \notin {None, Conflict, Failure} =>
           /\ p.doing = "loading" => LoadedView(saved, v)
           /\ p.doing = "starting" =>
                v.index = sessions[Me].index /\ v.attempt # NoAttempt /\ v.next_seq = 1
           /\ p.doing \in Checkpoints => v.next_seq = EndOfBatch(p.call.events) + 1
           /\ p.doing = "finishing" =>
                /\ ~Unnumbered(saved.finish) /\ StoredBy(saved.finish)
                /\ v.index = sessions[Me].index /\ v.attempt = NoAttempt
           /\ p.doing \notin Checkpoints => (v.completed <=> v.index >= TaskCount)

Replying ==
  \A p, out, reply : p \in Page /\ PageAlone(p, out) /\ Says(p, reply) /\ ~p.blocked
    => PageAlone([p EXCEPT !.reply = reply], out)

\* Every page that has an answer has one that says something.
LEMMA RepliedAlone == Replying
<1> SUFFICES ASSUME NEW p \in Page, NEW out, NEW reply, PageAlone(p, out), Says(p, reply), ~p.blocked
             PROVE  PageAlone([p EXCEPT !.reply = reply], out)
  BY DEF Replying
<1>a. PICK q : q = [p EXCEPT !.reply = reply]
  OBVIOUS
<1>1. /\ q.doing = p.doing /\ q.saved = p.saved /\ q.call = p.call /\ q.reply = reply
      /\ q.news = p.news /\ q.blocked = p.blocked /\ q.completed = p.completed
      /\ q.index = p.index /\ q.attempt = p.attempt
  BY <1>a DEF Page
<1>2. CallAlone(q, out)
  <2>1. CallAlone(p, out)
    BY DEF PageAlone
  <2> QED
    BY <1>1, <2>1 DEF CallAlone, Says
<1>3. ShownAlone(q)
  BY <1>1 DEF PageAlone, ShownAlone, Shows
<1>4. PageAlone(q, out)
  BY <1>1, <1>2, <1>3 DEF PageAlone
<1> QED
  BY <1>4, <1>a

\* The same, over a step.
LEMMA ReplyingStays == Replying'
<1>1. Replying
  BY RepliedAlone
<1> QED
  BY <1>1, PTL

\* A step that leaves the server alone takes nothing back.
LEMMA StillCarries ==
  ASSUME S!IInv, UNCHANGED server, NEW saved, NEW out
  PROVE  Carry(saved, out)
<1>1. UNCHANGED <<now, sessions, attempts>>
  BY DEF server
<1>2. now \in Nat
  BY DEF S!IInv, S!TypeOK
<1>3. NotStarted(Me)' <=> NotStarted(Me)
  BY <1>1 DEF NotStarted, AttemptsAt
<1>4. \A c : StoredBy(c) => StoredBy(c)'
  BY <1>1 DEF StoredBy, Owns
<1>5. \A n : Reaches(saved.attempt, n, out) => Reaches(saved.attempt, n, out)'
  BY <1>1 DEF Reaches
<1> QED
  BY <1>1, <1>2, <1>3, <1>4, <1>5 DEF Carry

\* The server has answered one page, or nobody.
LEMMA AnswerAlone ==
  ASSUME ClientInv, OneTab, AloneInv, S!IInv', UNCHANGED <<journal, sent>>,
         NEW t \in Pages, NEW p, p = pages[t], NEW out, out = sent,
         TablesAlone', InStep(p.saved, out)', Carry(p.saved, out),
         pages'[t] = p
           \/ (p.call # None /\ \E reply : pages'[t] = [p EXCEPT !.reply = reply] /\ Says(p, reply)')
  PROVE  AloneInv'
<1>1. /\ PageAlone(p, out) /\ Sound(p) /\ p \in Page /\ p.saved = journal
      /\ \A u \in Pages : u = t
  BY OnlyTab
<1>0. S!IInv
  BY DEF ClientInv
<1>2. PageAlone(p, out)'
  BY <1>0, <1>1, PageCarried
<1>a. PICK q : q = pages'[t]
  OBVIOUS
<1>3. PageAlone(q, out)' /\ q.saved = p.saved
  <2>1. CASE q = p
    BY <1>2, <2>1
  <2>2. CASE p.call # None /\ \E reply : q = [p EXCEPT !.reply = reply] /\ Says(p, reply)'
    <3>1. PICK reply : q = [p EXCEPT !.reply = reply] /\ Says(p, reply)'
      BY <2>2
    <3>2. ~p.blocked
      BY <1>1, <2>2 DEF PageAlone, Sound, Busy
    <3>3. PageAlone(q, out)'
      <4>1. Replying'
        BY ReplyingStays
      <4>2. Says(p, reply)' /\ PageAlone(p, out)' /\ p \in Page /\ ~p.blocked
        BY <1>1, <1>2, <3>1, <3>2
      <4> QED
        BY <3>1, <4>1, <4>2 DEF Replying
    <3> QED
      BY <1>1, <3>1, <3>3 DEF Page
  <2> QED
    BY <1>a, <2>1, <2>2
<1>4. pages'[t] = q /\ out = sent' /\ q.saved = journal'
  BY <1>1, <1>3, <1>a
<1>5. PageAlone(q, out)' /\ TablesAlone'
  BY <1>3
<1> QED
  BY <1>1, <1>4, <1>5 DEF AloneInv

\* A step that leaves the server and the journal alone leaves them in step.
LEMMA StillInStep ==
  ASSUME ClientInv, OneTab, AloneInv, UNCHANGED server, NEW t \in Pages, NEW p, p = pages[t],
         NEW out, out = sent
  PROVE  TablesAlone' /\ InStep(p.saved, out)' /\ Carry(p.saved, out) /\ S!IInv'
<1>1. InStep(p.saved, out) /\ TablesAlone /\ S!IInv
  BY OnlyTab
<1>2. S!IInv'
  <2>1. UNCHANGED S!vars
    BY DEF server, S!vars
  <2> QED
    BY <1>1, <2>1, S!InvariantStep, ServerAssumptions
<1> QED
  BY <1>1, <1>2, AloneStays, StillCarries

\* With one tab there is nothing to notice.
LEMMA NoticeAlone ==
  ASSUME ClientInv, OneTab, AloneInv, NEW t \in Pages, NEW v \in pages[t].news, Notice(t, v)
  PROVE  AloneInv'
BY OnlyTab

\* api: the answer is lost.
LEMMA LoseAlone ==
  ASSUME ClientInv, OneTab, AloneInv, NEW t \in Pages, Lose(t), UNCHANGED server
  PROVE  AloneInv'
<1>a. PICK p, out, failure : p = pages[t] /\ out = sent /\ failure = Failure
  OBVIOUS
<1>1. /\ p.call # None /\ pages'[t] = [p EXCEPT !.reply = failure] /\ UNCHANGED <<journal, sent>>
  BY <1>a DEF Lose, ClientInv
<1>2. Says(p, failure)'
  BY <1>a DEF Says, Failure, Conflict
<1>3. TablesAlone' /\ InStep(p.saved, out)' /\ Carry(p.saved, out) /\ S!IInv'
  BY <1>a, StillInStep
<1> QED
  BY <1>1, <1>2, <1>3, <1>a, AnswerAlone

\* What the server shows of a session is what a page with a journal in step expects.
LEMMA ViewLoaded ==
  ASSUME S!IInv, NEW saved, GoodJournal(saved), NEW out, JournalAlone(saved, out),
         NEW v, v = View(Me)
  PROVE  LoadedView(saved, v)
<1>1. /\ GoodView(v) /\ v.index = sessions[Me].index
      /\ v.attempt = NoAttempt <=> NotStarted(Me)
      /\ v.attempt # NoAttempt =>
           /\ AttemptAt(v.attempt, sessions[Me].index)
           /\ v.events = attempts[v.attempt].log
  BY ViewForm
<1>2. ASSUME saved.attempt # NoAttempt, saved.finish = None
      PROVE  ~NotStarted(Me) /\ saved.attempt = v.attempt
  <2>1. AttemptAt(saved.attempt, sessions[Me].index)
    BY <1>2, AttachedForm
  <2>2. ~NotStarted(Me)
    BY <2>1 DEF NotStarted, AttemptsAt, AttemptAt, Owns
  <2>3. AttemptAt(v.attempt, sessions[Me].index)
    BY <1>1, <2>2
  <2>4. saved.attempt = v.attempt
    BY <2>1, <2>3, Ordering DEF AttemptAt, Owns
  <2> QED
    BY <2>2, <2>4
<1>3. ASSUME v.attempt # NoAttempt, v.attempt = saved.attempt
      PROVE  Len(v.events) >= Handed(saved)
  <2>1. Continues(saved.attempt, saved)
    BY <1>3, AttachedForm
  <2>2. S!TypeOK
    BY DEF S!IInv
  <2>3. /\ Handed(saved) \in Nat /\ Len(attempts[saved.attempt].log) \in Nat
        /\ Handed(saved) <= Len(attempts[saved.attempt].log)
    BY <2>1, <2>2, ContinuesForm
  <2>4. v.events = attempts[saved.attempt].log
    BY <1>1, <1>3
  <2> QED
    BY <2>3, <2>4
<1> QED
  BY <1>1, <1>2, <1>3 DEF LoadedView

\* The server shows a session.
LEMMA ReadSessionAlone ==
  ASSUME ClientInv, OneTab, AloneInv, NEW t \in Pages, ReadSession(t), UNCHANGED server
  PROVE  AloneInv'
<1>a. PICK p, out, v : p = pages[t] /\ out = sent /\ v = View(Me)
  OBVIOUS
<1>b. PICK reply : reply = Ok(v)
  OBVIOUS
<1>1. /\ p.call = SessionRequest /\ pages'[t] = [p EXCEPT !.reply = reply]
      /\ UNCHANGED <<journal, sent>>
  BY <1>a, <1>b DEF ReadSession, ClientInv
<1>2. Sound(p) /\ GoodJournal(p.saved) /\ InStep(p.saved, out) /\ S!IInv
  BY <1>a, OnlyTab
<1>3. p.call # None
  BY <1>1, NoneAssumption
<1>4. p.doing = "loading"
  <2>1. p.call.kind = "session"
    BY <1>1 DEF SessionRequest
  <2>2. p.doing \notin {"closed", "idle", "starting", "finishing"} /\ p.doing \notin Checkpoints
    BY <1>2, <1>3, <2>1 DEF Sound, Busy, Carries
  <2>3. p.doing \in {"closed", "loading", "idle", "starting", "flushing", "waiting", "draining",
                     "finishing"}
    BY <1>2 DEF Sound, Core, Page
  <2> QED
    BY <2>2, <2>3 DEF Checkpoints
<1>5. LoadedView(p.saved, v) /\ (v.completed <=> v.index >= TaskCount)
  <2>1. LoadedView(p.saved, v)
    BY <1>2, <1>a, ViewLoaded DEF InStep
  <2> QED
    BY <1>2, <1>a, <2>1, ViewForm
<1>7. Says(p, reply)'
  <2>1. UNCHANGED <<now, sessions, attempts>>
    BY DEF server
  <2>2. \A c : StoredBy(c) <=> StoredBy(c)'
    BY <2>1 DEF StoredBy, Owns
  <2>3. LoadedView(p.saved, v)'
    BY <1>2, <1>5, <1>a, ViewForm, ViewCarried, StillCarries
  <2>4. reply.value = v /\ reply.status = "ok"
    BY <1>b DEF Ok
  <2>5. reply # Conflict
    BY <2>4 DEF Conflict
  <2> QED
    BY <1>4, <1>5, <2>3, <2>4, <2>5 DEF Says, Checkpoints
<1>8. TablesAlone' /\ InStep(p.saved, out)' /\ Carry(p.saved, out) /\ S!IInv'
  BY <1>a, StillInStep
<1> QED
  BY <1>1, <1>3, <1>7, <1>8, <1>a, AnswerAlone

-----------------------------------------------------------------------------
(* What the server refuses.                                                *)

\* The page's own events contradict nothing as long as the attempt is open.
LEMMA NotContradicting ==
  ASSUME S!IInv, TablesAlone, NEW saved, GoodJournal(saved), NEW a, Continues(a, saved),
         attempts[a].finish = Unfinished, NEW batch \in Seq(PageEvent), NEW f \in Nat, f >= 1,
         f <= Len(attempts[a].log) + 1, InRow(batch, f),
         \A i \in DOMAIN batch : Known(a, batch[i], saved)
  PROVE  ~Contradicts(a, batch)
<1>a. PICK log, n, m, k : log = attempts[a].log /\ n = Len(log) /\ m = Merged(log, batch)
                            /\ k = Handed(saved)
  OBVIOUS
<1>b. S!TypeOK /\ S!FinishedStreams
  BY DEF S!IInv
<1>1. /\ a \in DOMAIN attempts /\ n \in Nat /\ DOMAIN log = 1..n /\ k \in Nat
      /\ \A i \in DOMAIN saved.events :
           /\ saved.events[i].seq = k + i
           /\ Named(saved.events[i])
           /\ k + i <= n => log[k + i] = saved.events[i]
  BY <1>a, <1>b, ContinuesForm
<1>2. DOMAIN saved.events = 1..Len(saved.events) /\ Len(saved.events) \in Nat /\ SubmitLast(saved.events)
  BY JournalForm
<1>3. InSequence(log, batch) /\ RowJoins(log, batch, f, m)
  BY <1>1, <1>a, RowMerged
<1>4. /\ Len(m) \in Nat /\ Len(m) >= n /\ Len(m) >= f + Len(batch) - 1
      /\ \A s \in 1..n : m[s] = log[s]
      /\ \A s \in 1..Len(m) : s > n => s - f + 1 \in DOMAIN batch /\ m[s] = batch[s - f + 1]
  BY <1>3, <1>a DEF RowJoins
<1>5. /\ Len(batch) \in Nat /\ DOMAIN batch = 1..Len(batch)
      /\ \A i \in DOMAIN batch : batch[i].seq = f + i - 1
  BY DEF InRow
<1>6. ASSUME NEW i \in DOMAIN batch, batch[i].seq <= n
      PROVE  log[batch[i].seq] = batch[i]
  <2>1. CASE Stored(a, batch[i])
    BY <2>1, <1>a DEF Stored
  <2>2. CASE Among(batch[i], saved.events)
    <3>1. PICK j \in DOMAIN saved.events : saved.events[j] = batch[i]
      BY <2>2 DEF Among
    <3>2. batch[i].seq = k + j
      BY <1>1, <3>1
    <3> QED
      BY <1>1, <1>6, <3>1, <3>2
  <2> QED
    BY <2>1, <2>2 DEF Known
<1>7. ASSUME NEW s \in 1..Len(m), s > n
      PROVE  \E j \in DOMAIN saved.events : m[s] = saved.events[j] /\ k + j = s
  <2>1. PICK i : i = s - f + 1
    OBVIOUS
  <2>2. i \in DOMAIN batch /\ m[s] = batch[i] /\ batch[i].seq = s
    <3>1. i \in DOMAIN batch /\ m[s] = batch[i]
      BY <1>4, <1>7, <2>1
    <3>2. batch[i].seq = f + i - 1
      BY <1>5, <3>1
    <3>3. f + i - 1 = s
      BY <1>4, <2>1
    <3> QED
      BY <3>1, <3>2, <3>3
  <2>3. ~Stored(a, batch[i])
    BY <1>1, <1>7, <1>a, <2>2 DEF Stored
  <2>4. PICK j \in DOMAIN saved.events : saved.events[j] = batch[i]
    BY <2>2, <2>3 DEF Known, Among
  <2> QED
    BY <1>1, <2>2, <2>4
<1>8. Agrees(m, batch)
  <2> SUFFICES ASSUME NEW i \in DOMAIN batch PROVE m[batch[i].seq] = batch[i]
    BY DEF Agrees
  <2>1. PICK s : s = batch[i].seq
    OBVIOUS
  <2>2. s = f + i - 1 /\ s \in 1..Len(m) /\ s - f + 1 = i
    BY <1>4, <1>5, <2>1
  <2>3. CASE s <= n
    <3>1. log[batch[i].seq] = batch[i]
      BY <1>6, <2>1, <2>3
    <3>2. s \in 1..n
      BY <1>1, <2>2, <2>3
    <3> QED
      BY <1>4, <2>1, <3>1, <3>2
  <2>4. CASE s > n
    BY <1>4, <2>1, <2>2, <2>4
  <2> QED
    BY <1>1, <2>2, <2>3, <2>4
<1>9. ~Frozen(Me, a)
  BY <1>1, Ordering DEF Frozen
<1>10. ASSUME NEW s \in 1..Len(m), NEW r \in 1..Len(m), s > n, r < s
       PROVE  m[r].id[2] = r
  <2>1. CASE r <= n
    <3>1. m[r] = log[r] /\ r \in DOMAIN log
      BY <1>1, <1>4, <2>1
    <3>2. log[r].seq = r /\ log[r].type # "submit"
      BY <1>1, <1>a, <3>1, StreamForm
    <3>3. Named(log[r])
      BY <1>1, <1>a, <3>1 DEF TablesAlone
    <3> QED
      BY <3>1, <3>2, <3>3 DEF Named
  <2>2. CASE r > n
    <3>1. PICK j \in DOMAIN saved.events : m[r] = saved.events[j] /\ k + j = r
      BY <1>7, <2>2
    <3>2. PICK i \in DOMAIN saved.events : m[s] = saved.events[i] /\ k + i = s
      BY <1>7, <1>10
    <3>3. j # Len(saved.events)
      BY <1>1, <1>2, <1>10, <3>1, <3>2
    <3>4. saved.events[j].type # "submit" /\ Named(saved.events[j]) /\ saved.events[j].seq = r
      BY <1>1, <1>2, <3>1, <3>3 DEF SubmitLast
    <3> QED
      BY <3>1, <3>4 DEF Named
  <2> QED
    BY <1>1, <2>1, <2>2
<1>11. UniqueIds(m, n + 1)
  <2> SUFFICES ASSUME NEW s \in (n + 1)..Len(m), NEW r \in 1..Len(m), r < s
               PROVE  m[r].id # m[s].id
    BY DEF UniqueIds
  <2>1. s \in 1..Len(m) /\ s > n
    BY <1>1, <1>4
  <2>2. m[r].id[2] = r
    BY <1>10, <2>1
  <2>3. PICK i \in DOMAIN saved.events : m[s] = saved.events[i] /\ k + i = s
    BY <1>7, <2>1
  <2>4. Named(m[s]) /\ m[s].seq = s
    BY <1>1, <2>3
  <2>5. m[s].id[2] \in {0, s}
    BY <2>4 DEF Named
  <2>6. m[s].id[2] # r
    BY <2>5
  <2> QED
    BY <2>2, <2>6
<1> QED
  BY <1>3, <1>8, <1>9, <1>11, <1>a DEF Contradicts

\* An answer that the page may get says what CallAlone asks of it.
LEMMA SaysNothing ==
  ASSUME NEW p
  PROVE  Says(p, Failure)
BY DEF Says, Conflict, Failure

\* A conflict says that the receipt is gone.
LEMMA SaysConflict ==
  ASSUME NEW p, p.doing \in {"starting", "finishing"}, Spent(p.saved)
  PROVE  Says(p, Conflict)
BY DEF Says

\* The numbers of an outbox's first events are in a row.
LEMMA RowOf ==
  ASSUME NEW saved, GoodJournal(saved), S!TypeOK, NEW a, Continues(a, saved),
         NEW batch \in Seq(PageEvent), Len(batch) \in 1..Len(saved.events),
         \A i \in DOMAIN batch : batch[i] = saved.events[i]
  PROVE  InRow(batch, Handed(saved) + 1)
<1>1. Len(saved.events) \in Nat /\ DOMAIN saved.events = 1..Len(saved.events)
  BY JournalForm
<1>2. DOMAIN batch = 1..Len(batch) /\ Len(batch) \in Nat
  BY EventFields
<1>3. Handed(saved) \in Nat /\ \A i \in DOMAIN saved.events : saved.events[i].seq = Handed(saved) + i
  BY ContinuesForm
<1>4. ASSUME NEW i \in DOMAIN batch PROVE batch[i].seq = (Handed(saved) + 1) + i - 1
  <2>1. i \in DOMAIN saved.events
    BY <1>1, <1>2
  <2>2. batch[i].seq = Handed(saved) + i
    BY <1>3, <2>1
  <2> QED
    BY <1>2, <1>3, <2>2
<1>5. Len(batch) \in Nat \ {0}
  BY <1>1, <1>2
<1> QED
  BY <1>2, <1>4, <1>5 DEF InRow

\* A checkpoint is never refused with a conflict.
LEMMA EventsRefused ==
  ASSUME S!IInv, TablesAlone, NEW p, Sound(p), NEW out, PageAlone(p, out), NEW m \in Request,
         p.call = m, m.kind = "events", NEW reply, reply = Answer(m)
  PROVE  Says(p, reply)
<1>a. PICK saved, a, batch : saved = p.saved /\ a = m.attempt /\ batch = m.events
  OBVIOUS
<1>1. p.doing \in Checkpoints
  BY AwaitedKind
<1>2. GoodJournal(saved) /\ Carries(p)
  BY <1>1, <1>a DEF Sound, Core, Busy
<1>3. Len(batch) \in 1..Len(saved.events) /\ \A i \in DOMAIN batch : batch[i] = saved.events[i]
  BY <1>2, <1>a DEF Carries
<1>4. a = saved.attempt /\ Unsent(saved, out) /\ JournalAlone(saved, out)
  BY <1>1, <1>a DEF PageAlone, CallAlone, InStep
<1>5. a \in AttemptIds /\ batch \in Seq(PageEvent) /\ a # NoAttempt
  BY <1>a, RequestForms, SessionAssumption
<1>6. /\ Continues(a, saved)
      /\ IF saved.finish = None THEN AttemptAt(a, sessions[Me].index)
         ELSE ~Unnumbered(saved.finish) /\ FinishAlone(saved, out)
  BY <1>4, <1>5, AttachedForm
<1>7. S!TypeOK
  BY DEF S!IInv
<1>8. a \in DOMAIN attempts /\ Handed(saved) \in Nat /\ Len(attempts[a].log) \in Nat
      /\ Handed(saved) <= Len(attempts[a].log)
  BY <1>2, <1>6, <1>7, ContinuesForm
<1>9. attempts[a].finish = Unfinished
  <2>1. CASE saved.finish = None
    <3>1. attempts[a].index = sessions[Me].index
      BY <1>6, <2>1 DEF AttemptAt
    <3> QED
      BY <1>8, <3>1, Ordering
  <2>2. CASE saved.finish # None
    <3>1. FinishAlone(saved, out) /\ FinishRequest(saved.finish) \notin out
      BY <1>4, <1>6, <2>2 DEF Unsent
    <3>2. a = saved.finish.attempt
      BY <1>4, <3>1 DEF FinishAlone
    <3> QED
      BY <3>1, <3>2 DEF FinishAlone, FinishedBy
  <2> QED
    BY <2>1, <2>2
<1>10. \A i \in DOMAIN batch : Known(a, batch[i], saved)
  <2> SUFFICES ASSUME NEW i \in DOMAIN batch PROVE Among(batch[i], saved.events)
    BY <1>4 DEF Known
  <2>1. i \in DOMAIN saved.events
    <3>1. DOMAIN batch = 1..Len(batch) /\ DOMAIN saved.events = 1..Len(saved.events)
          /\ Len(batch) \in Nat /\ Len(saved.events) \in Nat
      BY <1>2, <1>5, EventFields, JournalForm
    <3> QED
      BY <1>3, <3>1
  <2> QED
    BY <1>3, <2>1 DEF Among
<1>b. PICK f \in Nat : f = Handed(saved) + 1
  BY <1>8
<1>11. InRow(batch, f)
  BY <1>2, <1>3, <1>5, <1>6, <1>7, <1>b, RowOf
<1>12. f >= 1 /\ f <= Len(attempts[a].log) + 1
  BY <1>8, <1>b
<1>13. ~Contradicts(a, batch)
  BY <1>2, <1>5, <1>6, <1>9, <1>10, <1>11, <1>12, NotContradicting
<1>14. reply = Failure
  BY <1>13, <1>a DEF Answer
<1> QED
  BY <1>14, SaysNothing

\* A start is recognised as the page's own as long as its receipt lives.
LEMMA StartRefused ==
  ASSUME S!IInv, TablesAlone, NEW p, Sound(p), NEW out, PageAlone(p, out), NEW m \in Request,
         p.call = m, m.kind = "start", NEW reply, reply = Answer(m)
  PROVE  Says(p, reply)
<1>a. PICK saved, s, i : saved = p.saved /\ s = saved.start /\ i = s.task
  OBVIOUS
<1>1. p.doing = "starting"
  BY AwaitedKind
<1>2. s # None /\ m = StartRequest(s) /\ JournalAlone(saved, out)
  BY <1>1, <1>a DEF PageAlone, CallAlone, InStep, Sound, Busy
<1>3. StartAlone(saved)
  BY <1>2, <1>a DEF JournalAlone
<1>4. i = sessions[Me].index /\ i < TaskCount /\ s.command[1] = "start" /\ s.command[3] = i
  BY <1>3, <1>a DEF StartAlone
<1>5. m.command = s.command /\ m.task = i /\ m.kind = "start"
  BY <1>2, <1>a DEF StartRequest
<1>6. ~Misused(Me, m.command, m.kind, i)
  <2> SUFFICES ASSUME NEW r \in commands, r.command = s.command,
                      r.operation # "start" \/ r.hash # i
               PROVE  FALSE
    BY <1>5 DEF Misused, Row
  <2>1. CASE r.operation = "start"
    <3>1. StartReceipt(r)
      BY <2>1, ReceiptForms
    <3>2. s.command[3] = r.hash
      BY <3>1 DEF StartReceipt, TablesAlone
    <3> QED
      BY <1>4, <2>1, <3>2
  <2>2. CASE r.operation = "finish"
    <3>1. FinishReceipt(r)
      BY <2>2, ReceiptForms
    <3>2. s.command[1] = "finish"
      BY <3>1 DEF FinishReceipt, TablesAlone
    <3> QED
      BY <1>4, <3>2
  <2> QED
    BY <2>1, <2>2, ReceiptForms
<1>b. PICK rows : rows = Replayable(Me, m.command, m.kind, i)
  OBVIOUS
<1>7. CASE rows # {}
  <2>a. PICK r : r = CHOOSE x \in rows : TRUE
    OBVIOUS
  <2>1. r \in commands /\ r.operation = "start" /\ r.hash = i
    BY <1>5, <1>7, <1>b, <2>a DEF Replayable, Row
  <2>2. StartReceipt(r)
    BY <2>1, ReceiptForms
  <2>b. PICK v : v = Replay(r)
    OBVIOUS
  <2>3. /\ v.index = i /\ v.attempt # NoAttempt /\ v.next_seq = 1
        /\ v.completed <=> v.index >= TaskCount
    <3>1. v = [index |-> r.response_index, completed |-> r.response_index >= TaskCount,
               attempt |-> r.attempt, next_seq |-> 1, events |-> <<>>]
      BY <2>b DEF Replay, Response
    <3>2. r.response_index = i /\ r.attempt \in DOMAIN attempts
      BY <2>1, <2>2 DEF StartReceipt
    <3>3. r.attempt # NoAttempt
      BY <3>2, LogForm DEF S!IInv
    <3> QED
      BY <3>1, <3>2, <3>3
  <2>4. reply \in {Failure, Ok(v)}
    BY <1>5, <1>6, <1>7, <1>b, <2>a, <2>b DEF Answer
  <2>5. Ok(v).value = v
    BY DEF Ok
  <2>6. Ok(v) # Conflict /\ Ok(v) # None => Says(p, Ok(v))
    BY <1>1, <1>4, <2>3, <2>5 DEF Says, Checkpoints
  <2>7. Ok(v).status # Conflict.status
    BY DEF Ok, Conflict
  <2>8. Says(p, Ok(v))
    BY <2>6, <2>7 DEF Says
  <2> QED
    BY <2>4, <2>8, SaysNothing
<1>8. CASE rows = {}
  <2>1. reply = Failure \/ (reply = Conflict /\ ~NotStarted(Me))
    BY <1>4, <1>5, <1>6, <1>8, <1>b DEF Answer, IsCurrent
  <2>2. ASSUME ~NotStarted(Me) PROVE Spent(saved)
    <3>1. PICK a \in DOMAIN attempts : attempts[a].session = Me /\ attempts[a].index = i
      BY <1>4, <2>2 DEF NotStarted, AttemptsAt
    <3>2. attempts[a].command = s.command
      BY <1>3, <1>a, <3>1 DEF StartAlone, AttemptAt, Owns
    <3>3. ASSUME NEW r \in commands, r.operation = "start", r.attempt = a, now < ReceiptLifetime
          PROVE  FALSE
      <4>1. StartReceipt(r) /\ r.session = Me
        BY <3>3, ReceiptForms
      <4>2. /\ r.command = s.command /\ r.hash = i
            /\ r.expires_at = attempts[a].started_at + ReceiptLifetime
        BY <3>1, <3>2, <3>3, <4>1 DEF StartReceipt
      <4>3. r.expires_at > now
        <5>1. attempts[a] \in S!Attempt /\ now \in Nat /\ ReceiptLifetime \in Nat
          BY SessionAssumption DEF S!IInv, S!TypeOK
        <5>2. attempts[a].started_at \in Nat
          BY <5>1 DEF S!Attempt
        <5> QED
          BY <3>3, <4>2, <5>1, <5>2
      <4>4. r \in rows
        BY <1>5, <1>b, <3>3, <4>1, <4>2, <4>3 DEF Replayable, Row
      <4> QED
        BY <1>8, <4>4
    <3>4. now >= ReceiptLifetime
      <4>1. CASE now < ReceiptLifetime
        BY <3>3, <4>1, ReceiptGone
      <4>2. now \in Nat /\ ReceiptLifetime \in Nat
        BY SessionAssumption DEF S!IInv, S!TypeOK
      <4> QED
        BY <4>1, <4>2
    <3> QED
      BY <1>2, <1>a, <2>2, <3>4 DEF Spent
  <2> QED
    BY <1>1, <1>a, <2>1, <2>2, SaysNothing, SaysConflict
<1> QED
  BY <1>7, <1>8

\* The tail of a frozen command is in a row, and goes on from what is stored.
LEMMA FrozenRow ==
  ASSUME S!IInv, NEW saved, GoodJournal(saved), NEW out, FinishAlone(saved, out),
         NEW c, c = saved.finish, c # None, ~Unnumbered(c), FinishRequest(c) \in out
  PROVE  \E f \in Nat : /\ f >= 1 /\ f <= Len(attempts[c.attempt].log) + 1
                        /\ InRow(c.events, f)
<1>a. PICK events, l, n, k, a : events = c.events /\ l = Len(c.events) /\ n = saved.next
                                /\ k = Handed(saved) /\ a = c.attempt
  OBVIOUS
<1>1. c \in FinishCommand /\ n \in Nat
  BY <1>a, JournalForm, JournalFields
<1>2. events \in Seq(PageEvent)
  BY <1>1, <1>a DEF FinishCommand
<1>3. l \in Nat /\ DOMAIN events = 1..l
  BY <1>2, <1>a, EventFields
<1>4. events # <<>> /\ (\A i \in DOMAIN events : events[i].seq = n - 1 - l + i)
      /\ k + 1 >= events[1].seq /\ Continues(a, saved)
  BY <1>a DEF FinishAlone
<1>5. l > 0
  <2>1. CASE l = 0
    BY <1>2, <1>3, <1>4, <1>a, <2>1, NoneLeft
  <2> QED
    BY <1>3, <2>1
<1>6. 1 \in DOMAIN events /\ events[1].seq = n - l
  <2>1. 1 \in DOMAIN events
    BY <1>3, <1>5
  <2>2. events[1].seq = n - 1 - l + 1
    BY <1>4, <2>1
  <2> QED
    BY <1>1, <1>3, <2>1, <2>2
<1>7. events[1].seq >= 1
  <2>1. \E stream : EndsWith(stream, events, a, saved.events)
    BY <1>a DEF GoodJournal, Backed, Unnumbered
  <2>2. PICK stream \in Seq(PageEvent) : events[1].seq \in 1..Len(stream)
    BY <2>1 DEF EndsWith
  <2> QED
    BY <2>2
<1>8. k \in Nat /\ Len(attempts[a].log) \in Nat /\ k <= Len(attempts[a].log)
  BY <1>4, <1>a, ContinuesForm DEF S!IInv
<1>b. PICK f : f = n - l
  OBVIOUS
<1>9. f \in Nat /\ f >= 1 /\ f <= Len(attempts[a].log) + 1
  BY <1>1, <1>3, <1>4, <1>6, <1>7, <1>8, <1>b
<1>10. InRow(events, f)
  <2>1. \A i \in DOMAIN events : events[i].seq = f + i - 1
    BY <1>1, <1>3, <1>4, <1>b
  <2>2. Len(events) \in Nat \ {0} /\ DOMAIN events = 1..Len(events)
    BY <1>3, <1>5, <1>a
  <2> QED
    BY <2>1, <2>2 DEF InRow
<1> QED
  BY <1>9, <1>10, <1>a

\* A final submission is recognised as the page's own as long as its receipt lives.
LEMMA FinishRefused ==
  ASSUME S!IInv, TablesAlone, NEW p, Sound(p), NEW out, PageAlone(p, out), NEW m \in Request,
         m \in out, p.call = m, m.kind = "finish", NEW reply, reply = Answer(m)
  PROVE  Says(p, reply)
<1>a. PICK saved, c, a : saved = p.saved /\ c = saved.finish /\ a = c.attempt
  OBVIOUS
<1>b. PICK body : body = [outcome |-> c.outcome, node |-> c.node, events |-> c.events]
  OBVIOUS
<1>1. p.doing = "finishing"
  <2>1. p \in Page /\ p.doing \notin Checkpoints \cup {"starting", "loading"} /\ Busy(p)
    BY AwaitedKind DEF Sound, Core
  <2>2. p.doing \in {"closed", "loading", "idle", "starting", "flushing", "waiting", "draining",
             "finishing"}
    BY <2>1 DEF Page
  <2>3. p.doing \notin {"closed", "idle"}
    BY <2>1, RequestCall DEF Busy
  <2> QED
    BY <2>1, <2>2, <2>3 DEF Checkpoints
<1>2. /\ c # None /\ m = FinishRequest(c) /\ JournalAlone(saved, out) /\ GoodJournal(saved)
  BY <1>1, <1>a DEF PageAlone, CallAlone, InStep, Sound, Busy, Core
<1>3. m.command = c.command /\ m.attempt = a /\ m.body = body /\ m.kind = "finish"
      /\ body.events = c.events
  BY <1>2, <1>a, <1>b DEF FinishRequest
<1>4. c \in FinishCommand /\ c.events \in Seq(PageEvent)
  <2>1. c \in FinishCommand
    BY <1>2, <1>a, JournalForm, JournalFields
  <2> QED
    BY <2>1 DEF FinishCommand
<1>5. ~Unnumbered(c) => FinishAlone(saved, out)
  BY <1>2, <1>a DEF JournalAlone
<1>c. PICK hash : hash = <<a, body>>
  OBVIOUS
<1>d. PICK rows : rows = Replayable(Me, c.command, "finish", hash)
  OBVIOUS
<1>6. \A r \in rows : r \in commands /\ r.operation = "finish" /\ r.hash = hash /\ r.command = c.command
  BY <1>d DEF Replayable, Row
<1>7. ASSUME NEW r \in rows PROVE Says(p, Ok(Replay(r)))
  <2>1. FinishReceipt(r) /\ r.hash[1] = a /\ r.hash[2] = body /\ r.command = c.command
    <3>1. FinishReceipt(r)
      BY <1>6, <1>7, ReceiptForms
    <3> QED
      BY <1>6, <1>7, <1>c, <3>1
  <2>2. /\ a \in DOMAIN attempts /\ attempts[a].finish # Unfinished
        /\ attempts[a].finish.command = c.command /\ attempts[a].finish.request = body
        /\ attempts[a].index + 1 = r.response_index /\ r.attempt = NoAttempt
    BY <2>1 DEF FinishReceipt
  <2>3. ~Unnumbered(c)
    <3>1. EndOfBatch(body.events) # NoSeq
      BY <2>2 DEF TablesAlone
    <3> QED
      BY <1>3, <3>1 DEF EndOfBatch, Unnumbered
  <2>4. StoredBy(c)
    BY <1>a, <2>2, Ordering DEF StoredBy
  <2>5. sessions[Me].index = attempts[a].index + 1
    BY <1>5, <1>a, <2>2, <2>3 DEF FinishAlone, FinishedBy
  <2>a. PICK v : v = Replay(r)
    OBVIOUS
  <2>6. v = [index |-> r.response_index, completed |-> r.response_index >= TaskCount,
             attempt |-> r.attempt, next_seq |-> 1, events |-> <<>>]
    BY <2>a DEF Replay, Response
  <2>7. v.index = sessions[Me].index /\ v.attempt = NoAttempt /\ (v.completed <=> v.index >= TaskCount)
    BY <2>2, <2>5, <2>6
  <2>8. Ok(v).value = v /\ Ok(v).status # Conflict.status
    BY DEF Ok, Conflict
  <2>9. Says(p, Ok(v))
    BY <1>1, <1>a, <2>3, <2>4, <2>7, <2>8 DEF Says, Checkpoints
  <2> QED
    BY <2>9, <2>a
<1>8. CASE Unnumbered(c)
  <2>1. Spent(saved)
    BY <1>8, <1>a DEF Spent
  <2>2. reply \in {Failure, Conflict} \/ \E r \in rows : reply = Ok(Replay(r))
    <3>1. reply \in {Failure, Conflict} \/ (rows # {} /\ reply = Ok(Replay(CHOOSE r \in rows : TRUE)))
      BY <1>3, <1>c, <1>d DEF Answer
    <3> QED
      BY <3>1
  <2> QED
    BY <1>1, <1>7, <1>a, <2>1, <2>2, SaysNothing, SaysConflict
<1>9. CASE ~Unnumbered(c)
  <2>1. FinishAlone(saved, out)
    BY <1>5, <1>9
  <2>2. /\ a \in DOMAIN attempts /\ Continues(a, saved) /\ saved.attempt = a
        /\ c.command[1] = "finish" /\ c.command[3] = attempts[a].index
        /\ \A i \in DOMAIN c.events : Known(a, c.events[i], saved)
        /\ attempts[a].finish = Unfinished \/ FinishedBy(c, saved, out)
    BY <1>a, <2>1 DEF FinishAlone, Continues, Owns
  <2>3. attempts[a].finish # Unfinished =>
          attempts[a].finish.command = c.command /\ attempts[a].finish.request = body
    BY <1>3, <1>2, <1>a, <2>2 DEF FinishedBy
  <2>4. ~Misused(Me, c.command, "finish", hash)
    <3> SUFFICES ASSUME NEW r \in commands, r.command = c.command,
                        r.operation # "finish" \/ r.hash # hash
                 PROVE  FALSE
      BY DEF Misused, Row
    <3>1. CASE r.operation = "start"
      <4>1. StartReceipt(r)
        BY <3>1, ReceiptForms
      <4>2. c.command[1] = "start"
        BY <4>1 DEF StartReceipt, TablesAlone
      <4> QED
        BY <2>2, <4>2
    <3>2. CASE r.operation = "finish"
      <4>1. FinishReceipt(r)
        BY <3>2, ReceiptForms
      <4>b. PICK b : b = r.hash[1]
        OBVIOUS
      <4>2. /\ b \in DOMAIN attempts /\ attempts[b].finish # Unfinished
            /\ attempts[b].finish.command = c.command
            /\ attempts[b].finish.request = r.hash[2] /\ r.hash = <<b, r.hash[2]>>
        BY <4>1, <4>b DEF FinishReceipt
      <4>3. c.command[3] = attempts[b].index
        BY <4>2 DEF TablesAlone
      <4>4. b = a
        BY <2>2, <4>2, <4>3, Ordering
      <4>5. r.hash = hash
        BY <1>c, <2>3, <4>2, <4>4
      <4> QED
        BY <3>2, <4>5
    <3> QED
      BY <3>1, <3>2, ReceiptForms
  <2>5. \/ reply = Failure
        \/ \E r \in rows : reply = Ok(Replay(r))
        \/ reply = Conflict /\ rows = {} /\ (Frozen(Me, a) \/ Contradicts(a, c.events))
    <3>1. \/ reply = Failure
          \/ rows # {} /\ reply = Ok(Replay(CHOOSE r \in rows : TRUE))
          \/ reply = Conflict /\ rows = {} /\ (Frozen(Me, a) \/ Contradicts(a, c.events))
      BY <1>3, <1>c, <1>d, <2>4 DEF Answer
    <3> QED
      BY <3>1
  <2>6. ASSUME rows = {}, Frozen(Me, a) \/ Contradicts(a, c.events)
        PROVE  Spent(saved)
    <3>1. CASE attempts[a].finish = Unfinished
      <4>1. PICK f \in Nat : f >= 1 /\ f <= Len(attempts[a].log) + 1 /\ InRow(c.events, f)
        BY <1>2, <1>9, <1>a, <2>1, FrozenRow
      <4>2. ~Contradicts(a, c.events)
        BY <1>2, <1>4, <2>2, <3>1, <4>1, NotContradicting
      <4>3. ~Frozen(Me, a)
        BY <2>2, <3>1, Ordering DEF Frozen
      <4> QED
        BY <2>6, <4>2, <4>3
    <3>2. CASE attempts[a].finish # Unfinished
      <4>1. attempts[a].finish.command = c.command /\ attempts[a].finish.request = body
        BY <2>3, <3>2
      <4>2. now >= ReceiptLifetime
        BY <1>c, <1>d, <2>2, <2>6, <3>2, <4>1, FinishedLongAgo
      <4>3. StoredBy(c)
        BY <1>a, <2>2, <3>2, <4>1, Ordering DEF StoredBy
      <4> QED
        BY <1>2, <1>a, <4>2, <4>3 DEF Spent
    <3> QED
      BY <3>1, <3>2
  <2> QED
    BY <1>1, <1>7, <1>a, <2>5, <2>6, SaysNothing, SaysConflict
<1> QED
  BY <1>8, <1>9

\* Whatever request of the page the server refuses or answers from a receipt.
LEMMA Refused ==
  ASSUME S!IInv, TablesAlone, NEW p, Sound(p), NEW out, PageAlone(p, out), NEW m \in Request,
         m \in out, p.call = m, NEW reply, reply = Answer(m)
  PROVE  Says(p, reply)
<1>1. m.kind \in {"start", "events", "finish"}
  BY RequestForms
<1> QED
  BY <1>1, EventsRefused, StartRefused, FinishRefused

-----------------------------------------------------------------------------
(* What the server serves.                                                 *)

\* A checkpoint has stored its own events, and nobody has stored more.
LEMMA EventsSays ==
  ASSUME S!IInv, S!IInv', NEW p, Sound(p), NEW out, PageAlone(p, out), Carry(p.saved, out),
         NEW m \in Request, p.call = m, m.kind = "events", Events(Me, m.attempt, m.events),
         NEW b, b = Body(m)'
  PROVE  Says(p, Ok(b))'
<1>a. PICK saved, a, batch, end : saved = p.saved /\ a = m.attempt /\ batch = m.events
                                  /\ end = EndOfBatch(batch)
  OBVIOUS
<1>1. p.doing \in Checkpoints
  BY AwaitedKind
<1>2. Carries(p) /\ CallAlone(p, out) /\ p \in Page
  BY <1>1 DEF Sound, Busy, PageAlone, Core
<1>3. a \in AttemptIds /\ batch \in Seq(PageEvent)
  BY <1>a, RequestForms
<1>b. PICK log : log = Merged(attempts[a].log, batch)
  OBVIOUS
<1>4. Events(Me, a, batch)
  BY <1>a
<1>5. Owns(Me, a) /\ attempts'[a].log = log
      /\ \E frozen : Appendable(attempts[a].log, batch, frozen)
  BY <1>3, <1>4, <1>b, EventsDone
<1>6. \A i \in DOMAIN batch : batch[i].seq \in 1..Len(log)
  BY <1>3, <1>5, <1>b, Accepted DEF S!IInv
<1>7. Len(batch) \in DOMAIN batch
  <2>1. DOMAIN batch = 1..Len(batch) /\ Len(batch) \in Nat
    BY <1>3, EventFields
  <2>2. Len(p.saved.events) \in Nat /\ Len(batch) \in 1..Len(p.saved.events)
    BY <1>2, <1>a, JournalForm DEF Carries, Sound, Core
  <2> QED
    BY <2>1, <2>2
<1>8. end \in 1..Len(log)
  BY <1>6, <1>7, <1>a DEF EndOfBatch
<1>9. Len(log) <= end
  <2>1. CallAlone(p, out)'
    BY <1>2, CallCarried
  <2>2. p.call.attempt = saved.attempt /\ p.call.events = batch
    BY <1>1, <1>2, <1>a DEF CallAlone
  <2>3. Reaches(saved.attempt, end, out)'
    BY <1>1, <1>a, <2>1, <2>2 DEF CallAlone
  <2>4. saved.attempt = a
    BY <2>2, <1>a
  <2> QED
    BY <1>5, <2>3, <2>4 DEF Reaches
<1>10. Len(log) \in Nat
  <2>1. S!TypeOK' /\ a \in DOMAIN attempts'
    BY <1>3, <1>4, <1>5, EventsDone DEF S!IInv, Owns
  <2>2. attempts'[a] \in S!Attempt
    BY <2>1 DEF S!TypeOK
  <2> QED
    BY <1>5, <2>2 DEF S!Attempt
<1>11. Len(log) = end
  BY <1>8, <1>9, <1>10
<1>12. b = [next_seq |-> Len(attempts'[m.attempt].log) + 1]
  BY DEF Body
<1>13. b.next_seq = end + 1
  BY <1>5, <1>11, <1>12, <1>a
<1>14. Ok(b).value = b /\ Ok(b).status # Conflict.status
  BY DEF Ok, Conflict
<1>15. p.doing \notin {"loading", "starting", "finishing"} /\ EndOfBatch(p.call.events) = end
  BY <1>1, <1>a DEF Checkpoints
<1> QED
  BY <1>1, <1>13, <1>14, <1>15 DEF Says

\* A start shows the task it has opened.
LEMMA StartSays ==
  ASSUME S!IInv, S!IInv', NEW p, Sound(p), NEW m \in Request, p.call = m, m.kind = "start",
         Serves(m), NEW b, b = Body(m)'
  PROVE  Says(p, Ok(b))'
<1>1. p.doing = "starting"
  BY AwaitedKind
<1>2. b = View(Me)'
  BY DEF Body
<1>a. PICK command : command = m.command
  OBVIOUS
<1>3. PICK i \in 0..(TaskCount - 1) : S!Start(Me, command, i)
  BY <1>a DEF Serves
<1>4. command \in CommandId
  BY <1>a, RequestForms
<1>5. b.attempt # NoAttempt /\ b.events = <<>>
  BY <1>2, <1>3, <1>4, StartView DEF S!IInv
<1>6. AsStored(b)'
  BY <1>2, ViewAsStoredNext
<1>7. b.next_seq = Len(b.events) + 1 /\ b.index = sessions'[Me].index
      /\ (b.completed <=> b.index >= TaskCount)
  BY <1>6 DEF AsStored, GoodView
<1>8. b.next_seq = 1
  BY <1>5, <1>7
<1>9. Ok(b).value = b /\ Ok(b).status # Conflict.status
  BY DEF Ok, Conflict
<1> QED
  BY <1>1, <1>5, <1>7, <1>8, <1>9 DEF Says, Checkpoints

\* A final submission shows the next task, which nobody has opened.
LEMMA FinishSays ==
  ASSUME S!IInv, S!IInv', NEW p, Sound(p), NEW out, PageAlone(p, out),
         \A m \in out : GoodRequest(m), NEW m \in Request, m \in out, p.call = m, m.kind = "finish",
         m.attempt \in AttemptIds, m.body \in FinishBody(Nodes \cup {Root}, Event),
         S!Finish(Me, m.command, m.attempt, m.body), NEW b, b = Body(m)'
  PROVE  Says(p, Ok(b))'
<1>a. PICK command, a, body, saved : command = m.command /\ a = m.attempt /\ body = m.body
                                     /\ saved = p.saved
  OBVIOUS
<1>b. PICK log : log = Merged(attempts[a].log, body.events)
  OBVIOUS
<1>1. p.doing \notin Checkpoints \cup {"starting", "loading"}
  BY AwaitedKind
<1>2. b = View(Me)'
  BY DEF Body
<1>3. command \in CommandId
  BY <1>a, RequestForms
<1>4. /\ a \in AttemptIds /\ body \in FinishBody(Nodes \cup {Root}, Event)
      /\ S!Finish(Me, command, a, body)
  BY <1>a
<1>5. Ended(a, command, body, log) /\ body.events # <<>> /\ body.events \in Seq(Event)
  BY <1>3, <1>4, <1>b, FinishDone DEF FinishBody
<1>6. GoodJournal(saved) /\ InStep(saved, out)
  BY <1>a DEF Sound, Core, PageAlone
<1>7. /\ saved.finish # None /\ m = FinishRequest(saved.finish)
      /\ ~Unnumbered(saved.finish)
  BY <1>5, <1>6, <1>a, EndedByPage
<1>c. PICK c : c = saved.finish
  OBVIOUS
<1>8. c.attempt = a /\ c.command = command
  BY <1>7, <1>a, <1>c DEF FinishRequest
<1>9. NotStarted(Me)'
  BY <1>5, EndedNotStarted
<1>10. StoredBy(c)'
  <2>1. /\ a \in DOMAIN attempts' /\ attempts'[a].session = Me
        /\ attempts'[a].finish = [at |-> now, command |-> command, request |-> body]
    BY <1>5 DEF Ended, Owns
  <2>2. attempts'[a].finish # Unfinished
    <3>1. S!TypeOK
      BY DEF S!IInv
    <3>2. now \in Nat
      BY <3>1 DEF S!TypeOK
    <3>3. [at |-> now, command |-> command, request |-> body]
            \in [at: Nat, command: CommandId, request: FinishBody(Nodes \cup {Root}, Event)]
      BY <1>3, <1>4, <3>2
    <3> QED
      BY <2>1, <3>3, NoneAssumption
  <2>3. attempts'[a].finish.command = command
    BY <2>1
  <2> QED
    BY <1>8, <2>1, <2>2, <2>3 DEF StoredBy, Owns
<1>11. AsStored(b)'
  BY <1>2, ViewAsStoredNext
<1>12. b.index = sessions'[Me].index /\ b.attempt = NoAttempt /\ (b.completed <=> b.index >= TaskCount)
  BY <1>9, <1>11 DEF AsStored
<1>13. Ok(b).value = b /\ Ok(b).status # Conflict.status
  BY DEF Ok, Conflict
<1>14. ~Unnumbered(saved.finish) /\ StoredBy(saved.finish)'
  BY <1>7, <1>10, <1>c
<1> QED
  BY <1>1, <1>12, <1>13, <1>14, <1>a DEF Says

\* What a stored request is answered says what has become of it.
LEMMA ServedSays ==
  ASSUME S!IInv, S!IInv', NEW p, Sound(p), NEW out, PageAlone(p, out), Carry(p.saved, out),
         \A m \in out : GoodRequest(m), NEW m \in out, p.call = m, Served(m), NEW b, b = Body(m)'
  PROVE  Says(p, Ok(b))'
<1>1. m \in Request /\ S!TypeOK
  BY DEF GoodRequest, S!IInv
<1>2. Serves(m)
  BY <1>1, ServedNext
<1>3. CASE m.kind = "start"
  BY <1>1, <1>2, <1>3, StartSays
<1>4. CASE m.kind = "events"
  <2>1. Events(Me, m.attempt, m.events)
    BY <1>4 DEF Served
  <2> QED
    BY <1>1, <1>4, <2>1, EventsSays
<1>5. CASE m.kind = "finish"
  <2>1. /\ m.attempt \in AttemptIds /\ m.body \in FinishBody(Nodes \cup {Root}, Event)
        /\ S!Finish(Me, m.command, m.attempt, m.body)
    BY <1>2, <1>5 DEF Serves
  <2> QED
    BY <1>1, <1>5, <2>1, FinishSays
<1> QED
  BY <1>1, <1>3, <1>4, <1>5, RequestForms

\* An answer stays true while the server stands still.
LEMMA SaysStays ==
  ASSUME UNCHANGED server, NEW p, NEW reply, p.doing # "loading", Says(p, reply)
  PROVE  Says(p, reply)'
<1>1. UNCHANGED <<now, sessions, attempts>>
  BY DEF server
<1>2. Spent(p.saved) <=> Spent(p.saved)'
  BY AloneStays
<1>3. StoredBy(p.saved.finish) <=> StoredBy(p.saved.finish)'
  BY <1>1 DEF StoredBy, Owns
<1> QED
  BY <1>1, <1>2, <1>3 DEF Says

\* A request is handled, and its answer reaches the page or not.
LEMMA DeliverAlone ==
  ASSUME ClientInv, OneTab, AloneInv, NEW m \in sent, NEW who \in SUBSET Waiting(m), Deliver(m, who)
  PROVE  AloneInv'
<1>a. PICK served, answered : served = Body(m)' /\ answered = Answer(m)
  OBVIOUS
<1>b. PICK t \in Pages : Pages = {t}
  BY DEF OneTab
<1>c. PICK p, out : p = pages[t] /\ out = sent
  OBVIOUS
<1>1. UNCHANGED <<journal, sent, loads, confirmed>>
  BY DEF Deliver
<1>2. /\ PageAlone(p, out) /\ Sound(p) /\ GoodJournal(p.saved) /\ InStep(p.saved, out)
      /\ (\A x \in out : GoodRequest(x)) /\ S!IInv /\ TablesAlone /\ m \in out
  BY <1>c, OnlyTab
<1>3. m \in Request
  BY <1>2 DEF GoodRequest
<1>4. t \in who => p.call = m /\ p.call # None
  BY <1>3, <1>c, RequestCall DEF Waiting
<1>5. CASE Served(m) /\ pages' = [u \in Pages |->
             IF u \in who THEN [pages[u] EXCEPT !.reply = Ok(served)] ELSE pages[u]]
  <2>1. S!IInv' /\ Grown
    BY <1>1, Carried, DeliverServes
  <2>2. TablesAlone' /\ InStep(p.saved, out)' /\ Carry(p.saved, out)
    BY <1>2, <1>5, <2>1, ServedInStep
  <2>3. pages'[t] = IF t \in who THEN [p EXCEPT !.reply = Ok(served)] ELSE p
    BY <1>5, <1>c
  <2>4. CASE t \in who
    <3>1. Says(p, Ok(served))'
      BY <1>2, <1>4, <1>5, <1>a, <2>1, <2>2, <2>4, ServedSays
    <3>2. pages'[t] = [p EXCEPT !.reply = Ok(served)]
      BY <2>3, <2>4
    <3> QED
      BY <1>1, <1>4, <1>c, <2>1, <2>2, <2>4, <3>1, <3>2, AnswerAlone
  <2>5. CASE t \notin who
    <3>1. pages'[t] = p
      BY <2>3, <2>5
    <3> QED
      BY <1>1, <1>c, <2>1, <2>2, <3>1, AnswerAlone
  <2> QED
    BY <2>4, <2>5
<1>6. CASE UNCHANGED server /\ pages' = [u \in Pages |->
             IF u \in who THEN [pages[u] EXCEPT !.reply = answered] ELSE pages[u]]
  <2>1. TablesAlone' /\ InStep(p.saved, out)' /\ Carry(p.saved, out) /\ S!IInv'
    BY <1>6, <1>c, StillInStep
  <2>2. pages'[t] = IF t \in who THEN [p EXCEPT !.reply = answered] ELSE p
    BY <1>6, <1>c
  <2>3. CASE t \in who
    <3>1. p.call = m /\ p.doing # "loading"
      BY <1>2, <1>3, <1>4, <2>3, AwaitedKind
    <3>2. Says(p, answered)
      BY <1>2, <1>3, <1>a, <3>1, Refused
    <3>3. Says(p, answered)'
      BY <1>6, <3>1, <3>2, SaysStays
    <3>4. pages'[t] = [p EXCEPT !.reply = answered]
      BY <2>2, <2>3
    <3> QED
      BY <1>1, <1>4, <1>c, <2>1, <2>3, <3>3, <3>4, AnswerAlone
  <2>4. CASE t \notin who
    <3>1. pages'[t] = p
      BY <2>2, <2>4
    <3> QED
      BY <1>1, <1>c, <2>1, <3>1, AnswerAlone
  <2> QED
    BY <2>3, <2>4
<1> QED
  BY <1>5, <1>6, <1>a DEF Deliver

\* Time passes, and receipts expire.
LEMMA TickAlone ==
  ASSUME ClientInv, OneTab, AloneInv, Tick, UNCHANGED client
  PROVE  AloneInv'
<1>a. PICK t \in Pages : Pages = {t}
  BY DEF OneTab
<1>b. PICK p, out : p = pages[t] /\ out = sent
  OBVIOUS
<1>1. UNCHANGED <<journal, pages, sent, confirmed>>
  BY DEF client
<1>2. S!IInv' /\ Grown
  BY <1>1, Carried, TickKeeps
<1>3. /\ GoodJournal(p.saved) /\ InStep(p.saved, out) /\ S!IInv /\ TablesAlone
  BY <1>b, OnlyTab
<1>4. Prolonged(p.saved, out)
  BY <1>3, TickExtends
<1>5. TablesAlone' /\ InStep(p.saved, out)' /\ Carry(p.saved, out)
  BY <1>2, <1>3, <1>4, ExtendedInStep
<1>6. pages'[t] = p
  BY <1>1, <1>b
<1> QED
  BY <1>1, <1>2, <1>5, <1>6, <1>b, AnswerAlone

\* Nothing is there at the start.
LEMMA AloneStarts == ClientInit => AloneInv
<1> SUFFICES ASSUME ClientInit PROVE AloneInv
  OBVIOUS
<1>1. /\ journal = EmptyJournal /\ pages = [t \in Pages |-> NewPage] /\ sent = {}
      /\ DOMAIN attempts = {} /\ sessions[Me].index = 0
  BY OneParticipant DEF ClientInit, Init
<1>2. TablesAlone
  BY <1>1 DEF TablesAlone
<1>3. EmptyJournal.start = None /\ EmptyJournal.finish = None /\ EmptyJournal.attempt = NoAttempt
  BY DEF EmptyJournal
<1>4. InStep(EmptyJournal, sent)
  BY <1>1, <1>3 DEF InStep, JournalAlone, SentAlone
<1>5. /\ NewPage.saved = EmptyJournal /\ NewPage.news = {} /\ ~NewPage.blocked
      /\ NewPage.doing = "closed" /\ NewPage.reply = None
  BY DEF NewPage
<1>6. PageAlone(NewPage, sent)
  BY <1>4, <1>5 DEF PageAlone, CallAlone, ShownAlone, Checkpoints
<1> QED
  BY <1>1, <1>2, <1>5, <1>6 DEF AloneInv

\* Every step keeps the tab in step.
LEMMA AloneStep ==
  ASSUME ClientInv, OneTab, AloneInv, [ClientNext]_all
  PROVE  AloneInv'
<1>1. ASSUME NEW t \in Pages, PageStep(t) PROVE AloneInv'
  <2>1. UNCHANGED server
    BY <1>1, PageStepKeeps
  <2> QED
    BY <1>1, <2>1, OpenAlone, LoadFailsAlone, LoadAlone, StartedAlone, CheckpointedAlone,
       FinishedAlone, StartTaskAlone, ChooseAlone, NavigateAlone, VisibilityAlone, FlushAlone,
       RetryFinishAlone, ReloadProgressAlone, ConfirmAlone, NoticeAlone, ReadSessionAlone,
       LoseAlone DEF PageStep
<1>2. ASSUME NEW m \in sent, NEW who \in SUBSET Waiting(m), Deliver(m, who)
      PROVE  AloneInv'
  BY <1>2, DeliverAlone
<1>3. CASE Tick /\ UNCHANGED client
  BY <1>3, TickAlone
<1>4. CASE UNCHANGED all
  <2>a. PICK t \in Pages : Pages = {t}
    BY DEF OneTab
  <2>b. PICK p, out : p = pages[t] /\ out = sent
    OBVIOUS
  <2>1. UNCHANGED server /\ UNCHANGED <<journal, pages, sent>>
    BY <1>4 DEF all, client
  <2>2. TablesAlone' /\ InStep(p.saved, out)' /\ Carry(p.saved, out) /\ S!IInv'
    BY <2>1, <2>b, StillInStep
  <2>3. pages'[t] = p
    BY <2>1, <2>b
  <2> QED
    BY <2>1, <2>2, <2>3, <2>b, AnswerAlone
<1> QED
  BY <1>1, <1>2, <1>3, <1>4 DEF ClientNext

\* A page that is the only tab stays in step with its journal, the tables and the
\* requests on their way.
THEOREM StaysInStep == OneTab => (ClientSpec => []AloneInv)
<1> SUFFICES ASSUME OneTab PROVE ClientSpec => []AloneInv
  OBVIOUS
<1>1. ClientInit => AloneInv
  BY AloneStarts
<1>2. ClientInv /\ AloneInv /\ [ClientNext]_all => AloneInv'
  BY AloneStep
<1>3. ClientSpec => []ClientInv
  BY ClientInvariance
<1> QED
  BY <1>1, <1>2, <1>3, PTL DEF ClientSpec

\* A tab in step runs into no conflict while its receipts live.
LEMMA AloneQuiet ==
  ASSUME ClientInv, OneTab, AloneInv
  PROVE  QuietRecovery
<1> SUFFICES ASSUME now < ReceiptLifetime, NEW t \in Pages, pages[t].blocked
             PROVE  Unnumbered(pages[t].saved.finish)
  BY DEF QuietRecovery
<1>1. PageAlone(pages[t], sent) /\ S!IInv
  BY OnlyTab
<1>2. now \in Nat /\ ReceiptLifetime \in Nat
  BY <1>1, SessionAssumption DEF S!IInv, S!TypeOK
<1>3. Spent(pages[t].saved) /\ ~(now >= ReceiptLifetime)
  BY <1>1, <1>2 DEF PageAlone
<1> QED
  BY <1>3 DEF Spent

\* A tab in step has nothing to lose in a journal it may discard.
LEMMA AloneKeeps ==
  ASSUME ClientInv, OneTab, AloneInv
  PROVE  NothingToDiscard
<1> SUFFICES ASSUME NEW t \in Pages, NEW c, c = pages[t].saved.finish, pages[t].blocked, c # None,
                    ~Unnumbered(c)
             PROVE  StoredBy(c)
  BY DEF NothingToDiscard
<1>1. PageAlone(pages[t], sent) /\ GoodJournal(pages[t].saved)
  BY OnlyTab
<1>2. Spent(pages[t].saved)
  BY <1>1 DEF PageAlone
<1>3. pages[t].saved.start = None
  BY <1>1 DEF GoodJournal
<1> QED
  BY <1>2, <1>3 DEF Spent

\* QuietRecovery, whatever was lost, delayed, repeated or reloaded: with one tab,
\* start, checkpoint and finish are recognised as the page's own while its
\* receipts live.
THEOREM RecoversQuietly == OneTab => (ClientSpec => []QuietRecovery)
<1> SUFFICES ASSUME OneTab PROVE ClientSpec => []QuietRecovery
  OBVIOUS
<1>1. ClientInv /\ AloneInv => QuietRecovery
  BY AloneQuiet
<1> QED
  BY <1>1, ClientInvariance, StaysInStep, PTL

\* NothingToDiscard: with one tab, the frozen command that is given up with the
\* journal after a conflict has been stored.
THEOREM NothingIsDiscarded == OneTab => (ClientSpec => []NothingToDiscard)
<1> SUFFICES ASSUME OneTab PROVE ClientSpec => []NothingToDiscard
  OBVIOUS
<1>1. ClientInv /\ AloneInv => NothingToDiscard
  BY AloneKeeps
<1> QED
  BY <1>1, ClientInvariance, StaysInStep, PTL
=============================================================================
