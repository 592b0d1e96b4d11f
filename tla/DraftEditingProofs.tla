--------------------------- MODULE DraftEditingProofs --------------------------
(***************************************************************************)
(* Proofs about DraftEditing, for any number of pages, drafts, versions,   *)
(* runs and requests.                                                      *)
(***************************************************************************)
EXTENDS DraftEditing, TLAPS

-----------------------------------------------------------------------------
(* Type correctness, first of the parts that an action changes. *)

Draft == [revision: Nat, bundle: Bundles \cup {Null}]

\* The types of the page's variables, of the requests, and of the tables.
BrowserType ==
  /\ editor \in [Pages -> Editor]
  /\ asked \in [Pages -> Bundles \cup {Null}]
  /\ pending \in [Pages -> Request]
  /\ answer \in [Pages -> Answer]
  /\ conflict \in [Pages -> BOOLEAN]

NetworkType ==
  /\ sent \in Nat
  /\ requests \subseteq Request
  /\ \A q \in requests : q.page \in Pages /\ (q.kind # "create" => q.id \in DraftIds)

TablesType ==
  /\ drafts \in [DraftIds -> Draft]
  /\ versions \in [VersionIds -> Bundles \cup {Null}]
  /\ removed \subseteq VersionIds
  /\ runs \in [RunIds -> VersionIds \cup {Null}]
  /\ \A v, w \in VersionIds : Stored(v) /\ Stored(w) /\ versions[v] = versions[w] => v = w

\* TypeOK is its three parts.
LEMMA TypeParts == TypeOK <=> BrowserType /\ NetworkType /\ TablesType
BY DEF TypeOK, BrowserType, NetworkType, TablesType, Draft

\* The same for the next state.
LEMMA TypePartsNext == BrowserType' /\ NetworkType' /\ TablesType' => TypeOK'
BY DEF TypeOK, BrowserType, NetworkType, TablesType, Draft, Stored

\* A part that no variable of changes.
LEMMA PartsKept ==
  /\ BrowserType /\ UNCHANGED browser => BrowserType'
  /\ NetworkType /\ UNCHANGED network => NetworkType'
  /\ TablesType /\ UNCHANGED database => TablesType'
BY DEF BrowserType, NetworkType, TablesType, browser, network, database, Stored

\* What a page shows and waits for before it does anything.
LEMMA NothingType == NoEditor \in Editor /\ NoRequest \in Request /\ NoAnswer \in Answer
BY DEF NoEditor, NoRequest, NoAnswer, Editor, Request, Answer

\* perform: a page that sends.
LEMMA SendType ==
  ASSUME TypeOK, NEW p \in Pages, NEW kind \in {"get", "create", "update", "publish"},
         NEW id \in DraftIds \cup {Null}, NEW revision \in Nat,
         NEW bundle \in Bundles \cup {Null}, NEW base \in Bundles \cup {Null},
         kind # "create" => id \in DraftIds,
         Send(p, kind, id, revision, bundle, base)
  PROVE  TypeOK'
<1> DEFINE q == [page |-> p, n |-> sent + 1, kind |-> kind, id |-> id,
                 revision |-> revision, bundle |-> bundle, base |-> base]
<1>1. BrowserType /\ NetworkType /\ TablesType
  BY TypeParts
<1>2. q \in Request
  BY <1>1 DEF Request, NetworkType
<1>3. q.page = p /\ q.kind = kind /\ q.id = id
  OBVIOUS
<1>4. /\ requests' = requests \cup {q} /\ sent' = sent + 1
      /\ pending' = [pending EXCEPT ![p] = q]
      /\ answer' = [answer EXCEPT ![p] = NoAnswer]
      /\ asked' = [asked EXCEPT ![p] = Null]
      /\ conflict' = [conflict EXCEPT ![p] = FALSE]
      /\ UNCHANGED editor /\ UNCHANGED database
  BY DEF Send
<1> HIDE DEF q
<1>5. BrowserType'
  BY <1>1, <1>2, <1>4, NothingType DEF BrowserType
<1>6. NetworkType'
  BY <1>1, <1>2, <1>3, <1>4 DEF NetworkType
<1> QED
  BY <1>1, <1>4, <1>5, <1>6, PartsKept, TypePartsNext

\* A handler that answers.
LEMMA RespondType ==
  ASSUME TypeOK, NEW q \in requests, NEW status \in {200, 409, 422},
         NEW id \in DraftIds \cup {Null}, NEW revision \in Nat,
         NEW bundle \in Bundles \cup {Null},
         Respond(q, status, id, revision, bundle)
  PROVE  BrowserType' /\ NetworkType'
<1> DEFINE a == [status |-> status, id |-> id, revision |-> revision, bundle |-> bundle]
<1>1. BrowserType /\ NetworkType
  BY TypeParts
<1>2. a \in Answer
  BY DEF Answer
<1>3. /\ answer' = answer \/ answer' = [answer EXCEPT ![q.page] = a]
      /\ requests' = requests \ {q}
      /\ UNCHANGED <<editor, asked, pending, conflict, sent>>
  BY DEF Respond
<1> HIDE DEF a
<1>4. q.page \in Pages
  BY <1>1 DEF NetworkType
<1>5. BrowserType'
  BY <1>1, <1>2, <1>3, <1>4 DEF BrowserType
<1>6. NetworkType'
  BY <1>1, <1>3 DEF NetworkType
<1> QED
  BY <1>5, <1>6

\* saveDraft's editor after the answer.
LEMMA SavedType ==
  ASSUME NEW e \in Editor, NEW q \in Request, NEW a \in Answer
  PROVE  Saved(e, q, a) \in Editor
<1> DEFINE dirty == e.text # q.bundle
<1>1. dirty \in BOOLEAN
  OBVIOUS
<1>2. a.id \in DraftIds \cup {Null} /\ a.revision \in Nat /\ q.bundle \in Bundles \cup {Null}
  BY DEF Answer, Request
<1>3. Saved(e, q, a) = [e EXCEPT !.id = a.id, !.revision = a.revision, !.base = q.bundle,
                                 !.dirty = dirty]
  BY DEF Saved
<1> HIDE DEF dirty
<1> QED
  BY <1>1, <1>2, <1>3 DEF Editor

\* The editor after any answer.
LEMMA AnsweredType ==
  ASSUME NEW e \in Editor, NEW q \in Request, NEW a \in Answer
  PROVE  Answered(e, q, a) \in Editor
<1>1. Opened(a) \in Editor
  BY DEF Opened, Editor, Answer
<1> QED
  BY <1>1, SavedType, NothingType DEF Answered

\* insertVersion keeps the hashes of stored versions distinct.
LEMMA InsertType ==
  ASSUME TypeOK, NEW b \in Bundles, InsertVersion(b), UNCHANGED removed
  PROVE  /\ versions' \in [VersionIds -> Bundles \cup {Null}]
         /\ (\A v, w \in VersionIds : Stored(v) /\ Stored(w) /\ versions[v] = versions[w] => v = w)'
<1>1. CASE UNCHANGED versions
  BY <1>1 DEF TypeOK, Stored
<1>2. CASE /\ \A v \in VersionIds : Stored(v) => versions[v] # b
           /\ \E v \in VersionIds :
                versions[v] = Null /\ versions' = [versions EXCEPT ![v] = b]
  <2>1. PICK v \in VersionIds : versions[v] = Null /\ versions' = [versions EXCEPT ![v] = b]
    BY <1>2
  <2>2. versions' \in [VersionIds -> Bundles \cup {Null}]
    BY <2>1 DEF TypeOK
  <2>3. ASSUME NEW x \in VersionIds, NEW w \in VersionIds,
               Stored(x)', Stored(w)', versions'[x] = versions'[w]
        PROVE  x = w
    <3>1. /\ x # v => Stored(x) /\ versions'[x] = versions[x]
          /\ w # v => Stored(w) /\ versions'[w] = versions[w]
          /\ versions'[v] = b
      BY <2>1, <2>3 DEF TypeOK, Stored
    <3> QED
      BY <1>2, <2>3, <3>1 DEF TypeOK
  <2> QED
    BY <2>2, <2>3
<1> QED
  BY <1>1, <1>2 DEF InsertVersion

\* No page, request or row is there at the start.
LEMMA TypeInit == Init => TypeOK
BY NothingType DEF Init, TypeOK, Stored

\* A step of a page keeps the types.
LEMMA PageType ==
  ASSUME TypeOK, AskingSound, NEW p \in Pages, PageStep(p)
  PROVE  TypeOK'
<1>0. BrowserType /\ NetworkType /\ TablesType
  BY TypeParts
<1>1. CASE NewDraft(p)
  <2>1. [id |-> Null, revision |-> 0, text |-> Starter, base |-> Null, dirty |-> TRUE] \in Editor
    BY EditingAssumption DEF Editor
  <2>2. BrowserType'
    BY <1>0, <1>1, <2>1 DEF NewDraft, BrowserType
  <2> QED
    BY <1>0, <1>1, <2>2, PartsKept, TypePartsNext DEF NewDraft
<1>2. ASSUME NEW d \in DraftIds, OpenDraft(p, d) PROVE TypeOK'
  BY <1>2, SendType DEF OpenDraft
<1>3. ASSUME NEW b \in Bundles, Edit(p, b) PROVE TypeOK'
  <2>1. [editor[p] EXCEPT !.text = b, !.dirty = TRUE] \in Editor
    BY <1>0 DEF BrowserType, Editor
  <2>2. editor' = [editor EXCEPT ![p] = [editor[p] EXCEPT !.text = b, !.dirty = TRUE]]
    BY <1>0, <1>3 DEF Edit, BrowserType
  <2>3. BrowserType'
    BY <1>0, <1>3, <2>1, <2>2 DEF Edit, BrowserType
  <2> QED
    BY <1>0, <1>3, <2>3, PartsKept, TypePartsNext DEF Edit
<1>4. CASE SaveDraft(p)
  <2> DEFINE e == editor[p]
             kind == IF e.id = Null THEN "create" ELSE "update"
  <2>1. /\ e.id \in DraftIds \cup {Null} /\ e.revision \in Nat
        /\ e.text \in Bundles \cup {Null} /\ e.base \in Bundles \cup {Null}
    BY <1>0 DEF BrowserType, Editor
  <2>2. Send(p, kind, e.id, e.revision, e.text, e.base)
    BY <1>4 DEF SaveDraft
  <2>3. kind \in {"create", "update"} /\ (kind # "create" => e.id \in DraftIds)
    BY <2>1
  <2> HIDE DEF e, kind
  <2> QED
    BY <2>1, <2>2, <2>3, SendType
<1>5. CASE PublishDraft(p)
  <2>1. editor[p].text \in Bundles \cup {Null}
    BY <1>0 DEF BrowserType, Editor
  <2>2. BrowserType'
    BY <1>0, <1>5, <2>1 DEF PublishDraft, BrowserType
  <2> QED
    BY <1>0, <1>5, <2>2, PartsKept, TypePartsNext DEF PublishDraft
<1>9. CASE ConfirmPublish(p)
  <2> DEFINE e == editor[p]
             b == asked[p]
  <2>1. /\ e.id \in DraftIds \cup {Null} /\ e.revision \in Nat /\ b \in Bundles \cup {Null}
        /\ e.id # Null
    BY <1>0, <1>9 DEF BrowserType, Editor, AskingSound, ConfirmPublish
  <2>2. Send(p, "publish", e.id, e.revision, b, Null)
    BY <1>9 DEF ConfirmPublish
  <2> HIDE DEF e, b
  <2> QED
    BY <2>1, <2>2, SendType
<1>10. CASE DeclinePublish(p)
  <2>1. BrowserType'
    BY <1>0, <1>10 DEF DeclinePublish, BrowserType
  <2> QED
    BY <1>0, <1>10, <2>1, PartsKept, TypePartsNext DEF DeclinePublish
<1>6. CASE Leave(p)
  <2>1. BrowserType'
    BY <1>0, <1>6, NothingType DEF Leave, BrowserType
  <2> QED
    BY <1>0, <1>6, <2>1, PartsKept, TypePartsNext DEF Leave
<1>7. CASE Receive(p)
  <2> DEFINE e == Answered(editor[p], pending[p], answer[p])
             c == answer[p].status = 409 /\ pending[p].kind = "update"
  <2>1. e \in Editor /\ c \in BOOLEAN
    BY <1>0, AnsweredType DEF BrowserType
  <2>2. /\ editor' = [editor EXCEPT ![p] = e]
        /\ conflict' = [conflict EXCEPT ![p] = c]
        /\ pending' = [pending EXCEPT ![p] = NoRequest]
        /\ answer' = [answer EXCEPT ![p] = NoAnswer]
        /\ UNCHANGED asked
    BY <1>0, <1>7 DEF Receive, BrowserType
  <2> HIDE DEF e, c
  <2>3. BrowserType'
    BY <1>0, <2>1, <2>2, NothingType DEF BrowserType
  <2> QED
    BY <1>0, <1>7, <2>3, PartsKept, TypePartsNext DEF Receive
<1>8. CASE GiveUp(p)
  <2>1. BrowserType'
    BY <1>0, <1>8, NothingType DEF GiveUp, BrowserType
  <2> QED
    BY <1>0, <1>8, <2>1, PartsKept, TypePartsNext DEF GiveUp
<1> QED
  BY <1>1, <1>2, <1>3, <1>4, <1>5, <1>6, <1>7, <1>8, <1>9, <1>10 DEF PageStep

\* A step of the server keeps the types.
LEMMA ServerType ==
  ASSUME TypeOK, ServerStep
  PROVE  TypeOK'
<1>0. BrowserType /\ NetworkType /\ TablesType
  BY TypeParts
<1>1. ASSUME NEW q \in requests, NEW d \in DraftIds, CreateDraft(q, d) PROVE TypeOK'
  <2>1. q.bundle \in Bundles \cup {Null}
    BY <1>0 DEF NetworkType, Request
  <2>2. TablesType'
    BY <1>0, <1>1, <2>1 DEF CreateDraft, TablesType, Draft, Stored
  <2>3. BrowserType' /\ NetworkType'
    BY <1>1, RespondType, EditingAssumption DEF CreateDraft
  <2> QED
    BY <2>2, <2>3, TypePartsNext
<1>2. ASSUME NEW q \in requests, GetDraft(q) PROVE TypeOK'
  <2>1. q.id \in DraftIds
    BY <1>0, <1>2 DEF NetworkType, GetDraft
  <2>2. drafts[q.id].revision \in Nat /\ drafts[q.id].bundle \in Bundles \cup {Null}
    BY <1>0, <2>1 DEF TablesType, Draft
  <2>3. BrowserType' /\ NetworkType'
    BY <1>2, <2>1, <2>2, RespondType DEF GetDraft
  <2>4. TablesType'
    BY <1>0, <1>2, PartsKept DEF GetDraft, database
  <2> QED
    BY <2>3, <2>4, TypePartsNext
<1>3. ASSUME NEW q \in requests, UpdateDraft(q) PROVE TypeOK'
  <2>1. q.id \in DraftIds /\ q.bundle \in Bundles \cup {Null}
    BY <1>0, <1>3 DEF NetworkType, Request, UpdateDraft
  <2>2. drafts[q.id].revision + 1 \in Nat
    BY <1>0, <2>1 DEF TablesType, Draft
  <2>3. BrowserType' /\ NetworkType'
    BY <1>3, <2>1, <2>2, RespondType DEF UpdateDraft
  <2>4. drafts' \in [DraftIds -> Draft]
    BY <1>0, <1>3, <2>1, <2>2 DEF UpdateDraft, TablesType, Draft
  <2>5. TablesType'
    BY <1>0, <1>3, <2>4 DEF UpdateDraft, TablesType, Stored
  <2> QED
    BY <2>3, <2>5, TypePartsNext
<1>4. ASSUME NEW q \in requests, Publish(q) PROVE TypeOK'
  <2>1. BrowserType' /\ NetworkType'
    BY <1>4, RespondType DEF Publish
  <2>2. TablesType'
    <3>1. CASE UNCHANGED versions
      BY <1>0, <1>4, <3>1, PartsKept DEF Publish, database
    <3>2. CASE drafts[q.id].bundle \in Valid /\ InsertVersion(drafts[q.id].bundle)
      BY <1>0, <1>4, <3>2, InsertType, EditingAssumption DEF Publish, TablesType
    <3> QED
      BY <1>4, <3>1, <3>2 DEF Publish
  <2> QED
    BY <2>1, <2>2, TypePartsNext
<1>5. ASSUME NEW b \in Bundles, ImportStudy(b) PROVE TypeOK'
  <2>1. TablesType'
    BY <1>0, <1>5, InsertType DEF ImportStudy, TablesType
  <2> QED
    BY <1>0, <1>5, <2>1, PartsKept, TypePartsNext DEF ImportStudy
<1>6. ASSUME NEW r \in RunIds, NEW v \in VersionIds, CreateRun(r, v) PROVE TypeOK'
  <2>1. TablesType'
    BY <1>0, <1>6 DEF CreateRun, TablesType, Stored
  <2> QED
    BY <1>0, <1>6, <2>1, PartsKept, TypePartsNext DEF CreateRun
<1>7. ASSUME NEW v \in VersionIds, RemoveStudy(v) PROVE TypeOK'
  <2>1. TablesType'
    BY <1>0, <1>7 DEF RemoveStudy, TablesType, Stored
  <2> QED
    BY <1>0, <1>7, <2>1, PartsKept, TypePartsNext DEF RemoveStudy
<1> QED
  BY <1>1, <1>2, <1>3, <1>4, <1>5, <1>6, <1>7 DEF ServerStep

\* Every step keeps the types.
LEMMA TypeStep == TypeOK /\ AskingSound /\ [Next]_vars => TypeOK'
<1>1. ASSUME TypeOK, UNCHANGED vars PROVE TypeOK'
  BY <1>1 DEF TypeOK, vars, browser, network, database, Stored
<1> QED
  BY <1>1, PageType, ServerType DEF Next


-----------------------------------------------------------------------------
(* What the pages, answers and requests know of a draft stays true, since a *)
(* draft changes only together with its revision.                          *)

\* updateDraft and createDraft are all that writes a draft.
DraftsGrow ==
  \A d \in DraftIds : drafts'[d] = drafts[d] \/ drafts'[d].revision > drafts[d].revision

\* The parts of KnowledgeSound with the next state's drafts.
KnowsNext(id, revision, bundle) ==
  /\ revision <= drafts'[id].revision
  /\ revision = drafts'[id].revision => bundle = drafts'[id].bundle

EditorNext(e) ==
  e.id # Null => KnowsNext(e.id, e.revision, e.base) /\ (~e.dirty => e.text = e.base)

AnswerNext(q, a) ==
  a.status = 200 =>
    /\ q.kind \in {"create", "update"} => a.id # Null /\ KnowsNext(a.id, a.revision, q.bundle)
    /\ q.kind = "get" => a.id # Null /\ KnowsNext(a.id, a.revision, a.bundle)

RequestNext(q) ==
  /\ q.kind = "update" => KnowsNext(q.id, q.revision, q.base)
  /\ q.kind = "publish" => KnowsNext(q.id, q.revision, q.bundle)

\* KnowledgeSound of the next state.
LEMMA KnowledgeNext ==
  ASSUME \A p \in Pages : EditorNext(editor'[p]) /\ AnswerNext(pending'[p], answer'[p]),
         \A q \in requests' : RequestNext(q)
  PROVE  KnowledgeSound'
BY DEF KnowledgeSound, EditorNext, AnswerNext, RequestNext, KnowsNext, EditorSound, AnswerSound,
       RequestSound, Knows

\* A draft is written together with its revision.
LEMMA Growth == TypeOK /\ [Next]_vars => DraftsGrow
<1> SUFFICES ASSUME TypeOK, [Next]_vars PROVE DraftsGrow
  OBVIOUS
<1>0. /\ drafts \in [DraftIds -> Draft]
      /\ \A q \in requests : q.kind # "create" => q.id \in DraftIds
  BY DEF TypeOK, Draft
<1>1. CASE UNCHANGED drafts
  BY <1>1 DEF DraftsGrow
<1>2. ASSUME NEW q \in requests, NEW d \in DraftIds, CreateDraft(q, d) PROVE DraftsGrow
  BY <1>0, <1>2 DEF CreateDraft, DraftsGrow, Draft
<1>3. ASSUME NEW q \in requests, UpdateDraft(q) PROVE DraftsGrow
  BY <1>0, <1>3 DEF UpdateDraft, DraftsGrow, Draft
<1>4. CASE \E p \in Pages : PageStep(p)
  BY <1>1, <1>4 DEF PageStep, NewDraft, OpenDraft, Edit, SaveDraft, PublishDraft, ConfirmPublish,
                   DeclinePublish, Leave, Receive, GiveUp, Send, database
<1>5. CASE ServerStep
  BY <1>1, <1>2, <1>3, <1>5 DEF ServerStep, GetDraft, Publish, ImportStudy, CreateRun, RemoveStudy
<1> QED
  BY <1>1, <1>4, <1>5 DEF Next, vars, database

\* What was known stays known.
LEMMA KnowsKept ==
  ASSUME TypeOK, TypeOK', DraftsGrow, NEW d \in DraftIds, NEW r \in Nat, NEW b, Knows(d, r, b)
  PROVE  KnowsNext(d, r, b)
<1>1. drafts[d].revision \in Nat /\ drafts'[d].revision \in Nat
  BY DEF TypeOK
<1>2. drafts'[d] = drafts[d] \/ drafts'[d].revision > drafts[d].revision
  BY DEF DraftsGrow
<1> QED
  BY <1>1, <1>2 DEF Knows, KnowsNext

\* The same of an editor.
LEMMA EditorKept ==
  ASSUME TypeOK, TypeOK', DraftsGrow, NEW e \in Editor, EditorSound(e)
  PROVE  EditorNext(e)
<1>1. e.id # Null => e.id \in DraftIds /\ e.revision \in Nat
  BY DEF Editor
<1> QED
  BY <1>1, KnowsKept DEF EditorSound, EditorNext

\* The same of an answer.
LEMMA AnswerKept ==
  ASSUME TypeOK, TypeOK', DraftsGrow, NEW q, NEW a \in Answer, AnswerSound(q, a)
  PROVE  AnswerNext(q, a)
<1>1. a.id # Null => a.id \in DraftIds /\ a.revision \in Nat
  BY DEF Answer
<1> QED
  BY <1>1, KnowsKept DEF AnswerSound, AnswerNext

\* The same of a request.
LEMMA RequestKept ==
  ASSUME TypeOK, TypeOK', DraftsGrow, NEW q \in requests, RequestSound(q)
  PROVE  RequestNext(q)
<1>1. q.kind # "create" => q.id \in DraftIds /\ q.revision \in Nat
  BY DEF TypeOK, Request
<1> QED
  BY <1>1, KnowsKept DEF RequestSound, RequestNext

\* All of them together.
LEMMA AllKept ==
  ASSUME TypeOK, TypeOK', DraftsGrow, KnowledgeSound
  PROVE  /\ \A p \in Pages : EditorNext(editor[p]) /\ AnswerNext(pending[p], answer[p])
         /\ \A q \in requests : RequestNext(q)
<1>1. \A p \in Pages : editor[p] \in Editor /\ answer[p] \in Answer
  BY DEF TypeOK
<1> QED
  BY <1>1, EditorKept, AnswerKept, RequestKept DEF KnowledgeSound

\* Nothing is known where there is nothing.
LEMMA NothingNext == EditorNext(NoEditor) /\ \A q : AnswerNext(q, NoAnswer)
BY DEF EditorNext, AnswerNext, NoEditor, NoAnswer

\* A request that repeats what its page knows.
LEMMA SendKnowledge ==
  ASSUME TypeOK, TypeOK', DraftsGrow, KnowledgeSound, NEW p \in Pages, NEW kind, NEW id,
         NEW revision, NEW bundle, NEW base, Send(p, kind, id, revision, bundle, base),
         kind = "update" => KnowsNext(id, revision, base),
         kind = "publish" => KnowsNext(id, revision, bundle)
  PROVE  KnowledgeSound'
<1> DEFINE q == [page |-> p, n |-> sent + 1, kind |-> kind, id |-> id,
                 revision |-> revision, bundle |-> bundle, base |-> base]
<1>1. RequestNext(q)
  BY DEF RequestNext
<1>2. /\ requests' = requests \cup {q}
      /\ pending' = [pending EXCEPT ![p] = q]
      /\ answer' = [answer EXCEPT ![p] = NoAnswer]
      /\ editor' = editor
  BY DEF Send
<1> HIDE DEF q
<1>3. pending \in [Pages -> Request] /\ answer \in [Pages -> Answer]
  BY DEF TypeOK
<1>4. \A x \in Pages : EditorNext(editor'[x]) /\ AnswerNext(pending'[x], answer'[x])
  BY <1>2, <1>3, AllKept, NothingNext
<1>5. \A r \in requests' : RequestNext(r)
  BY <1>1, <1>2, AllKept
<1> QED
  BY <1>4, <1>5, KnowledgeNext

\* An answer that says what its handler did.
LEMMA RespondKnowledge ==
  ASSUME TypeOK, TypeOK', DraftsGrow, KnowledgeSound, NEW q \in requests, NEW status, NEW id,
         NEW revision, NEW bundle, Respond(q, status, id, revision, bundle),
         AnswerNext(q, [status |-> status, id |-> id, revision |-> revision, bundle |-> bundle])
  PROVE  KnowledgeSound'
<1> DEFINE a == [status |-> status, id |-> id, revision |-> revision, bundle |-> bundle]
<1>1. AnswerNext(q, a)
  OBVIOUS
<1>2. /\ answer' = answer \/ (pending[q.page] = q /\ answer' = [answer EXCEPT ![q.page] = a])
      /\ requests' = requests \ {q}
      /\ pending' = pending /\ editor' = editor
  BY DEF Respond
<1> HIDE DEF a
<1>3. answer \in [Pages -> Answer] /\ q.page \in Pages
  BY DEF TypeOK
<1>4. \A x \in Pages : EditorNext(editor'[x]) /\ AnswerNext(pending'[x], answer'[x])
  BY <1>1, <1>2, <1>3, AllKept
<1>5. \A r \in requests' : RequestNext(r)
  BY <1>2, AllKept
<1> QED
  BY <1>4, <1>5, KnowledgeNext

\* A step that changes no page and no request.
LEMMA IdleKnowledge ==
  ASSUME TypeOK, TypeOK', DraftsGrow, KnowledgeSound, UNCHANGED <<browser, network>>
  PROVE  KnowledgeSound'
BY AllKept, KnowledgeNext DEF browser, network

\* saveDraft: the editor knows what was saved, and is clean if it shows that.
LEMMA SavedSound ==
  ASSUME NEW e \in Editor, NEW q, NEW a, q.kind \in {"create", "update"}, a.status = 200,
         AnswerNext(q, a)
  PROVE  EditorNext(Saved(e, q, a))
<1>1. a.id # Null /\ KnowsNext(a.id, a.revision, q.bundle)
  BY DEF AnswerNext
<1>2. /\ Saved(e, q, a).id = a.id /\ Saved(e, q, a).revision = a.revision
      /\ Saved(e, q, a).base = q.bundle /\ Saved(e, q, a).text = e.text
      /\ Saved(e, q, a).dirty = (e.text # q.bundle)
  BY DEF Saved, Editor
<1>3. ~Saved(e, q, a).dirty => e.text = q.bundle
  BY <1>2
<1> QED
  BY <1>1, <1>2, <1>3 DEF EditorNext

\* The editor after any answer.
LEMMA AnsweredSound ==
  ASSUME NEW e \in Editor, NEW q \in Request, NEW a, EditorNext(e), AnswerNext(q, a)
  PROVE  EditorNext(Answered(e, q, a))
<1>1. CASE a.status # 200
  BY <1>1 DEF Answered
<1>2. CASE a.status = 200 /\ q.kind \in {"create", "update"}
  BY <1>2, SavedSound DEF Answered
<1>3. CASE a.status = 200 /\ q.kind = "get"
  BY <1>3 DEF Answered, Opened, EditorNext, AnswerNext
<1>4. CASE a.status = 200 /\ q.kind \in {"none", "publish"}
  BY <1>4, NothingNext DEF Answered
<1> QED
  BY <1>1, <1>2, <1>3, <1>4 DEF Request

\* A step that changes only pages, each to an editor that knows.
LEMMA PageKnowledge ==
  ASSUME TypeOK, TypeOK', DraftsGrow, KnowledgeSound, UNCHANGED requests,
         NEW p \in Pages, NEW e \in Editor, EditorNext(e),
         editor' = [editor EXCEPT ![p] = e],
         \/ UNCHANGED <<pending, answer>>
         \/ /\ pending' = [pending EXCEPT ![p] = NoRequest]
            /\ answer' = [answer EXCEPT ![p] = NoAnswer]
  PROVE  KnowledgeSound'
<1>1. editor \in [Pages -> Editor] /\ pending \in [Pages -> Request] /\ answer \in [Pages -> Answer]
  BY DEF TypeOK
<1>2. \A x \in Pages : EditorNext(editor'[x])
  BY <1>1, AllKept
<1>3. \A x \in Pages : AnswerNext(pending'[x], answer'[x])
  BY <1>1, AllKept, NothingNext
<1>4. \A r \in requests' : RequestNext(r)
  BY AllKept
<1> QED
  BY <1>2, <1>3, <1>4, KnowledgeNext

\* A step of a page keeps what is known true.
LEMMA PageSound ==
  ASSUME TypeOK, TypeOK', DraftsGrow, KnowledgeSound, AskingSound, NEW p \in Pages, PageStep(p)
  PROVE  KnowledgeSound'
<1>0. /\ editor \in [Pages -> Editor] /\ pending[p] \in Request /\ answer[p] \in Answer
      /\ editor[p] \in Editor /\ EditorNext(editor[p]) /\ AnswerNext(pending[p], answer[p])
  BY AllKept DEF TypeOK
<1>1. CASE NewDraft(p)
  <2> DEFINE e == [id |-> Null, revision |-> 0, text |-> Starter, base |-> Null, dirty |-> TRUE]
  <2>1. e \in Editor /\ EditorNext(e)
    BY EditingAssumption DEF Editor, EditorNext
  <2>2. editor' = [editor EXCEPT ![p] = e] /\ UNCHANGED <<pending, answer, requests>>
    BY <1>1 DEF NewDraft, network
  <2> HIDE DEF e
  <2> QED
    BY <2>1, <2>2, PageKnowledge
<1>2. ASSUME NEW d \in DraftIds, OpenDraft(p, d) PROVE KnowledgeSound'
  BY <1>2, SendKnowledge DEF OpenDraft
<1>3. ASSUME NEW b \in Bundles, Edit(p, b) PROVE KnowledgeSound'
  <2> DEFINE e == [editor[p] EXCEPT !.text = b, !.dirty = TRUE]
  <2>1. e \in Editor
    BY <1>0 DEF Editor
  <2>2. e.id = editor[p].id /\ e.revision = editor[p].revision /\ e.base = editor[p].base /\ e.dirty
    BY <1>0 DEF Editor
  <2>3. EditorNext(e)
    BY <1>0, <2>2 DEF EditorNext
  <2>4. editor' = [editor EXCEPT ![p] = e] /\ UNCHANGED <<pending, answer, requests>>
    BY <1>0, <1>3 DEF Edit, network
  <2> HIDE DEF e
  <2> QED
    BY <2>1, <2>3, <2>4, PageKnowledge
<1>4. CASE SaveDraft(p)
  <2> DEFINE e == editor[p]
             kind == IF e.id = Null THEN "create" ELSE "update"
  <2>1. Send(p, kind, e.id, e.revision, e.text, e.base)
    BY <1>4 DEF SaveDraft
  <2>2. kind = "update" => KnowsNext(e.id, e.revision, e.base)
    BY <1>0 DEF EditorNext
  <2>3. kind # "publish"
    OBVIOUS
  <2> HIDE DEF e, kind
  <2> QED
    BY <2>1, <2>2, <2>3, SendKnowledge
<1>5. CASE PublishDraft(p) \/ DeclinePublish(p)
  <2>1. editor' = [editor EXCEPT ![p] = editor[p]] /\ UNCHANGED <<pending, answer, requests>>
    BY <1>0, <1>5 DEF PublishDraft, DeclinePublish, network
  <2> QED
    BY <1>0, <2>1, PageKnowledge
<1>9. CASE ConfirmPublish(p)
  <2> DEFINE e == editor[p]
             b == asked[p]
  <2>1. Send(p, "publish", e.id, e.revision, b, Null) /\ e.id # Null /\ e.base = b
    BY <1>9 DEF ConfirmPublish, AskingSound
  <2>2. KnowsNext(e.id, e.revision, b)
    BY <1>0, <2>1 DEF EditorNext
  <2> HIDE DEF e, b
  <2> QED
    BY <2>1, <2>2, SendKnowledge
<1>6. CASE Leave(p)
  BY <1>6, PageKnowledge, NothingType, NothingNext DEF Leave, network
<1>7. CASE Receive(p)
  <2> DEFINE e == Answered(editor[p], pending[p], answer[p])
  <2>1. e \in Editor /\ EditorNext(e)
    BY <1>0, AnsweredType, AnsweredSound
  <2>2. /\ editor' = [editor EXCEPT ![p] = e]
        /\ pending' = [pending EXCEPT ![p] = NoRequest]
        /\ answer' = [answer EXCEPT ![p] = NoAnswer]
        /\ UNCHANGED requests
    BY <1>0, <1>7 DEF Receive, network
  <2> HIDE DEF e
  <2> QED
    BY <2>1, <2>2, PageKnowledge
<1>8. CASE GiveUp(p)
  <2>1. editor' = [editor EXCEPT ![p] = editor[p]]
    BY <1>0, <1>8 DEF GiveUp
  <2> QED
    BY <1>0, <1>8, <2>1, PageKnowledge DEF GiveUp, network
<1> QED
  BY <1>1, <1>2, <1>3, <1>4, <1>5, <1>6, <1>7, <1>8, <1>9 DEF PageStep

\* A step of the server keeps what is known true.
LEMMA ServerSound ==
  ASSUME TypeOK, TypeOK', DraftsGrow, KnowledgeSound, ServerStep
  PROVE  KnowledgeSound'
<1>0. /\ drafts \in [DraftIds -> Draft]
      /\ \A q \in requests : q.kind # "create" => q.id \in DraftIds /\ q.id # Null
  BY EditingAssumption DEF TypeOK, Draft
<1>1. ASSUME NEW q \in requests, NEW d \in DraftIds, CreateDraft(q, d) PROVE KnowledgeSound'
  <2>1. drafts'[d] = [revision |-> 1, bundle |-> q.bundle] /\ d # Null
    BY <1>0, <1>1, EditingAssumption DEF CreateDraft
  <2>2. AnswerNext(q, [status |-> 200, id |-> d, revision |-> 1, bundle |-> Null])
    BY <1>1, <2>1 DEF AnswerNext, KnowsNext, CreateDraft
  <2> QED
    BY <1>1, <2>2, RespondKnowledge DEF CreateDraft
<1>2. ASSUME NEW q \in requests, GetDraft(q) PROVE KnowledgeSound'
  <2>1. drafts[q.id].revision \in Nat
    BY <1>0, <1>2 DEF GetDraft, Draft
  <2>2. AnswerNext(q, [status |-> 200, id |-> q.id, revision |-> drafts[q.id].revision,
                       bundle |-> drafts[q.id].bundle])
    BY <1>0, <1>2, <2>1 DEF AnswerNext, KnowsNext, GetDraft
  <2> QED
    BY <1>2, <2>2, RespondKnowledge DEF GetDraft
<1>3. ASSUME NEW q \in requests, UpdateDraft(q) PROVE KnowledgeSound'
  <2>1. CASE Respond(q, 409, Null, 0, Null)
    <3>1. AnswerNext(q, [status |-> 409, id |-> Null, revision |-> 0, bundle |-> Null])
      BY DEF AnswerNext
    <3> QED
      BY <2>1, <3>1, RespondKnowledge
  <2>2. CASE /\ drafts' = [drafts EXCEPT ![q.id] = [revision |-> @.revision + 1, bundle |-> q.bundle]]
             /\ Respond(q, 200, q.id, drafts[q.id].revision + 1, Null)
    <3>1. /\ drafts'[q.id] = [revision |-> drafts[q.id].revision + 1, bundle |-> q.bundle]
          /\ drafts[q.id].revision \in Nat /\ q.id # Null /\ q.kind = "update"
      BY <1>0, <1>3, <2>2 DEF UpdateDraft, Draft
    <3>2. AnswerNext(q, [status |-> 200, id |-> q.id, revision |-> drafts[q.id].revision + 1,
                         bundle |-> Null])
      BY <3>1 DEF AnswerNext, KnowsNext
    <3> QED
      BY <2>2, <3>2, RespondKnowledge
  <2> QED
    BY <1>3, <2>1, <2>2 DEF UpdateDraft
<1>4. ASSUME NEW q \in requests, Publish(q) PROVE KnowledgeSound'
  <2>1. ASSUME NEW status, Respond(q, status, Null, 0, Null) PROVE KnowledgeSound'
    <3>1. AnswerNext(q, [status |-> status, id |-> Null, revision |-> 0, bundle |-> Null])
      BY <1>4 DEF AnswerNext, Publish
    <3> QED
      BY <2>1, <3>1, RespondKnowledge
  <2> QED
    BY <1>4, <2>1 DEF Publish
<1> QED
  BY <1>1, <1>2, <1>3, <1>4, IdleKnowledge DEF ServerStep, ImportStudy, CreateRun, RemoveStudy

\* Every step keeps what is known true.
LEMMA KnowledgeStep ==
  ASSUME TypeOK, TypeOK', KnowledgeSound, AskingSound, [Next]_vars
  PROVE  KnowledgeSound'
<1>1. DraftsGrow
  BY Growth
<1>2. CASE UNCHANGED vars
  BY <1>1, <1>2, IdleKnowledge DEF vars
<1> QED
  BY <1>1, <1>2, PageSound, ServerSound DEF Next

\* A page asks only about what it shows as saved, and does nothing else meanwhile:
\* imports change its text, not what that is based on.
LEMMA AskingStep ==
  ASSUME TypeOK, KnowledgeSound, AskingSound, [Next]_vars
  PROVE  AskingSound'
<1>0. /\ editor \in [Pages -> Editor] /\ asked \in [Pages -> Bundles \cup {Null}]
      /\ pending \in [Pages -> Request]
      /\ \A x \in Pages : Asking(x) => /\ pending[x] = NoRequest
                                       /\ editor[x].id # Null /\ editor[x].base = asked[x]
  BY DEF TypeOK, AskingSound, Waiting
<1>1. ASSUME UNCHANGED <<asked, pending>>,
             \A x \in Pages : Asking(x) => /\ editor'[x].id = editor[x].id
                                           /\ editor'[x].base = editor[x].base
      PROVE  AskingSound'
  BY <1>0, <1>1 DEF AskingSound, Asking, Waiting
<1>2. ASSUME NEW p \in Pages, NEW q,
             asked' = [asked EXCEPT ![p] = Null], pending' = [pending EXCEPT ![p] = q],
             UNCHANGED editor
      PROVE  AskingSound'
  BY <1>0, <1>2 DEF AskingSound, Asking, Waiting
<1>3. ASSUME NEW p \in Pages, PageStep(p) PROVE AskingSound'
  <2>1. CASE NewDraft(p) \/ Leave(p) \/ Receive(p) \/ GiveUp(p)
    <3>1. /\ ~Asking(p) /\ UNCHANGED asked
          /\ pending' = pending \/ pending' = [pending EXCEPT ![p] = NoRequest]
          /\ \A x \in Pages : x # p => editor'[x] = editor[x]
      BY <1>0, <2>1 DEF NewDraft, Leave, Receive, GiveUp, Busy, Waiting
    <3> QED
      BY <1>0, <3>1 DEF AskingSound, Asking, Waiting
  <2>2. ASSUME NEW kind, NEW id, NEW revision, NEW bundle, NEW base,
               Send(p, kind, id, revision, bundle, base)
        PROVE  AskingSound'
    BY <1>2, <2>2 DEF Send
  <2>3. ASSUME NEW b, Edit(p, b) PROVE AskingSound'
    <3>1. \A x \in Pages : editor'[x].id = editor[x].id /\ editor'[x].base = editor[x].base
      BY <1>0, <2>3 DEF Edit, Editor
    <3> QED
      BY <1>1, <2>3, <3>1 DEF Edit
  <2>4. CASE PublishDraft(p)
    <3>1. /\ ~Waiting(p) /\ editor[p].id # Null /\ editor[p].base = editor[p].text
          /\ asked' = [asked EXCEPT ![p] = editor[p].text] /\ UNCHANGED <<editor, pending>>
      BY <2>4 DEF PublishDraft, Busy, KnowledgeSound, EditorSound
    <3> QED
      BY <1>0, <3>1 DEF AskingSound, Asking, Waiting
  <2>5. CASE DeclinePublish(p)
    <3>1. /\ asked' = [asked EXCEPT ![p] = Null] /\ UNCHANGED editor
          /\ pending' = [pending EXCEPT ![p] = pending[p]]
      BY <1>0, <2>5 DEF DeclinePublish
    <3> QED
      BY <1>2, <3>1
  <2> QED
    BY <1>3, <2>1, <2>2, <2>3, <2>4, <2>5 DEF PageStep, OpenDraft, SaveDraft, ConfirmPublish
<1>4. CASE ServerStep
  <2>1. UNCHANGED <<editor, asked, pending>>
    BY <1>4 DEF ServerStep, CreateDraft, GetDraft, UpdateDraft, Publish, ImportStudy, CreateRun,
                RemoveStudy, Respond, browser
  <2> QED
    BY <1>1, <2>1
<1>5. CASE UNCHANGED vars
  BY <1>1, <1>5 DEF vars, browser
<1> QED
  BY <1>3, <1>4, <1>5 DEF Next

-----------------------------------------------------------------------------
(* The versions of runs. *)

\* One step of RunsFrozen.
FrozenStep ==
  \A r \in RunIds : runs[r] # Null =>
    /\ runs'[r] = runs[r]
    /\ versions'[runs[r]] = versions[runs[r]]
    /\ runs[r] \notin removed'

\* insertVersion writes no version that is there.
LEMMA InsertKeeps ==
  ASSUME TypeOK, NEW b, InsertVersion(b), NEW v \in VersionIds, versions[v] # Null
  PROVE  versions'[v] = versions[v]
BY DEF InsertVersion, TypeOK

\* The version of a run stays, and a new run has one.
LEMMA RunsStep ==
  ASSUME TypeOK, RunsStored, [Next]_vars
  PROVE  FrozenStep /\ RunsStored'
<1>0. /\ runs \in [RunIds -> VersionIds \cup {Null}]
      /\ \A r \in RunIds : runs[r] # Null =>
           runs[r] \in VersionIds /\ versions[runs[r]] # Null /\ runs[r] \notin removed
  BY DEF TypeOK, RunsStored, Stored
<1>1. CASE UNCHANGED <<versions, removed, runs>>
  BY <1>0, <1>1 DEF FrozenStep, RunsStored, Stored
<1>2. ASSUME NEW b, InsertVersion(b), UNCHANGED <<removed, runs>> PROVE FrozenStep /\ RunsStored'
  <2>1. \A v \in VersionIds : versions[v] # Null => versions'[v] = versions[v]
    BY <1>2, InsertKeeps
  <2> QED
    BY <1>0, <1>2, <2>1 DEF FrozenStep, RunsStored, Stored
<1>3. ASSUME NEW r \in RunIds, NEW v \in VersionIds, CreateRun(r, v) PROVE FrozenStep /\ RunsStored'
  <2>1. /\ runs[r] = Null /\ runs' = [runs EXCEPT ![r] = v]
        /\ versions[v] # Null /\ v \notin removed /\ UNCHANGED <<versions, removed>>
    BY <1>3 DEF CreateRun, Stored
  <2> QED
    BY <1>0, <2>1 DEF FrozenStep, RunsStored, Stored
<1>4. ASSUME NEW v \in VersionIds, RemoveStudy(v) PROVE FrozenStep /\ RunsStored'
  BY <1>0, <1>4 DEF RemoveStudy, Unreferenced, FrozenStep, RunsStored, Stored
<1>5. CASE \E p \in Pages : PageStep(p)
  BY <1>1, <1>5 DEF PageStep, NewDraft, OpenDraft, Edit, SaveDraft, PublishDraft, ConfirmPublish,
                   DeclinePublish, Leave, Receive, GiveUp, Send, database
<1>6. CASE ServerStep
  BY <1>1, <1>2, <1>3, <1>4, <1>6 DEF ServerStep, CreateDraft, GetDraft, UpdateDraft, Publish,
                                   ImportStudy
<1> QED
  BY <1>1, <1>5, <1>6 DEF Next, vars, database

-----------------------------------------------------------------------------
(* The theorems. *)

\* The inductive invariant is one.
THEOREM Invariance == Spec => []IInv
<1>1. Init => IInv
  <2> SUFFICES ASSUME Init PROVE IInv
    OBVIOUS
  <2>1. KnowledgeSound
    BY DEF Init, KnowledgeSound, EditorSound, AnswerSound, NoEditor, NoAnswer
  <2>2. AskingSound /\ RunsStored
    BY DEF Init, AskingSound, Asking, RunsStored
  <2> QED
    BY <2>1, <2>2, TypeInit DEF IInv
<1>2. IInv /\ [Next]_vars => IInv'
  BY TypeStep, KnowledgeStep, AskingStep, RunsStep DEF IInv
<1> QED
  BY <1>1, <1>2, PTL DEF Spec

\* Every row, request and page keeps its type, and the hashes of the stored
\* versions stay distinct (insertVersion).
THEOREM TypeCorrect == Spec => []TypeOK
<1>1. IInv => TypeOK
  BY DEF IInv
<1> QED
  BY <1>1, Invariance, PTL

\* saveDraft: an editor that says "Saved" at the server's revision shows what
\* the server has.
THEOREM SavedIsSaved == Spec => []CleanMeansSaved
<1>1. IInv => CleanMeansSaved
  BY DEF IInv, KnowledgeSound, EditorSound, Knows, CleanMeansSaved
<1> QED
  BY <1>1, Invariance, PTL

\* updateDraft: what replaces a saved draft started from it.
THEOREM UpdatesKept == Spec => NoLostUpdate
<1> DEFINE Step ==
      \A d \in DraftIds :
        drafts[d].revision > 0 /\ drafts'[d] # drafts[d] =>
          \E q \in requests \ requests' :
            /\ q.kind = "update" /\ q.id = d
            /\ q.base = drafts[d].bundle
            /\ drafts'[d].bundle = q.bundle
<1>1. IInv /\ [Next]_vars => Step
  <2> SUFFICES ASSUME IInv, [Next]_vars, NEW d \in DraftIds,
                      drafts[d].revision > 0, drafts'[d] # drafts[d]
               PROVE  \E q \in requests \ requests' :
                        /\ q.kind = "update" /\ q.id = d
                        /\ q.base = drafts[d].bundle
                        /\ drafts'[d].bundle = q.bundle
    OBVIOUS
  <2>0. /\ drafts \in [DraftIds -> Draft]
        /\ \A q \in requests : q.kind # "create" => q.id \in DraftIds
        /\ \A q \in requests : RequestSound(q)
    BY DEF IInv, TypeOK, Draft, KnowledgeSound
  <2>1. drafts' # drafts
    OBVIOUS
  <2>2. ~\E p \in Pages : PageStep(p)
    BY <2>1 DEF PageStep, NewDraft, OpenDraft, Edit, SaveDraft, PublishDraft, ConfirmPublish,
                   DeclinePublish, Leave, Receive, GiveUp, Send, database
  <2>3. \/ \E q \in requests, x \in DraftIds : CreateDraft(q, x)
        \/ \E q \in requests : UpdateDraft(q)
    BY <2>1, <2>2 DEF Next, ServerStep, GetDraft, Publish, ImportStudy, CreateRun, RemoveStudy,
                      vars, database
  <2>4. ASSUME NEW q \in requests, NEW x \in DraftIds, CreateDraft(q, x) PROVE FALSE
    BY <2>0, <2>4 DEF CreateDraft, Draft
  <2>5. PICK q \in requests : UpdateDraft(q)
    BY <2>3, <2>4
  <2>6. /\ q.kind = "update" /\ CurrentUpdate(q)
        /\ drafts' = [drafts EXCEPT ![q.id] = [revision |-> @.revision + 1, bundle |-> q.bundle]]
        /\ requests' = requests \ {q}
    BY <2>1, <2>5 DEF UpdateDraft, Respond
  <2>7. q.id = d
    BY <2>0, <2>6
  <2>8. drafts'[d].bundle = q.bundle
    BY <2>0, <2>6, <2>7
  <2>9. q.base = drafts[d].bundle
    BY <2>0, <2>6, <2>7 DEF RequestSound, Knows, CurrentUpdate
  <2> QED
    BY <2>6, <2>7, <2>8, <2>9
<1>2. IInv /\ [Next]_vars => [Step]_vars
  BY <1>1
<1> HIDE DEF Step
<1>3. Spec => [][Step]_vars
  BY <1>2, Invariance, PTL DEF Spec
<1> QED
  BY <1>3 DEF NoLostUpdate, Step

\* publishDraft and publish: what is frozen is what the page showed when its dialog
\* opened, whatever other pages save and an import adds before the owner agrees.
THEOREM FrozenAsAsked == Spec => PublishedAsAsked
<1> DEFINE Step ==
      \A q \in requests \ requests', v \in VersionIds :
        versions'[v] # versions[v] => q.kind = "publish" /\ versions'[v] = q.bundle
<1>1. IInv /\ [Next]_vars => Step
  <2> SUFFICES ASSUME IInv, [Next]_vars, NEW q \in requests \ requests', NEW v \in VersionIds,
                      versions'[v] # versions[v]
               PROVE  q.kind = "publish" /\ versions'[v] = q.bundle
    OBVIOUS
  <2>0. versions \in [VersionIds -> Bundles \cup {Null}] /\ RequestSound(q)
    BY DEF IInv, TypeOK, KnowledgeSound
  <2>1. versions' # versions /\ requests' # requests
    OBVIOUS
  <2>2. ~\E p \in Pages : PageStep(p)
    BY <2>1 DEF PageStep, NewDraft, OpenDraft, Edit, SaveDraft, PublishDraft, ConfirmPublish,
                   DeclinePublish, Leave, Receive, GiveUp, Send, database
  <2>3. PICK x \in requests : Publish(x)
    BY <2>1, <2>2 DEF Next, ServerStep, CreateDraft, GetDraft, UpdateDraft, ImportStudy, CreateRun,
                      RemoveStudy, vars, database, network
  <2>4. /\ x.kind = "publish" /\ CurrentPublish(x) /\ InsertVersion(drafts[x.id].bundle)
        /\ requests' = requests \ {x}
    BY <2>1, <2>3 DEF Publish, Respond
  <2>5. x = q
    BY <2>4
  <2>6. versions'[v] = drafts[q.id].bundle
    BY <2>0, <2>4, <2>5 DEF InsertVersion
  <2>7. drafts[q.id].bundle = q.bundle
    BY <2>0, <2>4, <2>5 DEF RequestSound, Knows, CurrentPublish
  <2> QED
    BY <2>4, <2>5, <2>6, <2>7
<1>2. IInv /\ [Next]_vars => [Step]_vars
  BY <1>1
<1> HIDE DEF Step
<1>3. Spec => [][Step]_vars
  BY <1>2, Invariance, PTL DEF Spec
<1> QED
  BY <1>3 DEF PublishedAsAsked, Step

\* createRun, publish and RemoveStudy: the version of a run never changes.
THEOREM RunsKeepVersions == Spec => RunsFrozen
<1>1. IInv /\ [Next]_vars => [FrozenStep]_vars
  BY RunsStep DEF IInv
<1>2. Spec => [][FrozenStep]_vars
  BY <1>1, Invariance, PTL DEF Spec
<1> QED
  BY <1>2 DEF RunsFrozen, FrozenStep
=============================================================================
