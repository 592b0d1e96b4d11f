----------------------------- MODULE DraftEditing ------------------------------
(***************************************************************************)
(* Editing, publishing and removing studies: the editor of the owner's     *)
(* page (web/assets/admin.js), the requests it makes (common.js), the      *)
(* handlers createDraft, updateDraft, getDraft and publish (admin.go),     *)
(* insertVersion and Import (db.go) and RemoveStudy (studies.go).          *)
(*                                                                         *)
(* A page runs one operation at a time (perform) but its text fields stay  *)
(* open, so the owner types while a request is on its way, and a file      *)
(* import that is already reading completes whenever it is done, also      *)
(* while the dialog of a publication is open.  A request may stay          *)
(* unhandled, or be handled after the page has given up on it (api times   *)
(* out after 20 seconds).  A handler is one transaction and one action.    *)
(*                                                                         *)
(* Data abstraction: a bundle is a value; Valid are the bundles that       *)
(* study.Validate accepts.  There is one policy, so the publication hash   *)
(* stands for the bundle.                                                  *)
(***************************************************************************)
EXTENDS Integers, FiniteSets

CONSTANTS
  Pages,       \* open admin pages of owners
  DraftIds,    \* random draft IDs
  VersionIds,  \* random version IDs
  RunIds,      \* runs that may be created
  Bundles,     \* study bundles in use
  Valid,       \* the ones that pass validation
  Starter,     \* starterBundle()
  MaxSends,    \* bound on the number of requests
  Null         \* null, a row that was never inserted

ASSUME EditingAssumption ==
  /\ Valid \subseteq Bundles
  /\ Starter \in Bundles
  /\ MaxSends \in Nat
  /\ Null \notin DraftIds /\ Null \notin VersionIds /\ Null \notin Bundles

VARIABLES
  editor,    \* the editor of each page
  asked,     \* while the dialog of a publication is open, what the page showed then
  pending,   \* the request that the operation of each page waits for
  answer,    \* its answer, on its way to the page
  conflict,  \* the notice that offers to load the latest revision
  sent,      \* number of requests so far
  requests,  \* requests that the server has not handled, and may never
  drafts,    \* rows of drafts; revision 0 for no row
  versions,  \* bundle of each version, Null before it is inserted
  removed,   \* versions that were deleted
  runs       \* version of each run, Null before the run is created

browser == <<editor, asked, pending, answer, conflict>>
network == <<sent, requests>>
database == <<drafts, versions, removed, runs>>
vars == <<browser, network, database>>

NoEditor == [id |-> Null, revision |-> 0, text |-> Null, base |-> Null, dirty |-> FALSE]
NoAnswer == [status |-> 0, id |-> Null, revision |-> 0, bundle |-> Null]
NoRequest ==
  [page |-> Null, n |-> 0, kind |-> "none", id |-> Null, revision |-> 0,
   bundle |-> Null, base |-> Null]

Editing(p) == editor[p] # NoEditor
Asking(p) == asked[p] # Null
Waiting(p) == pending[p] # NoRequest
\* perform: an operation is in progress.
Busy(p) == Asking(p) \/ Waiting(p)
Stored(v) == versions[v] # Null /\ v \notin removed

Init ==
  /\ editor = [p \in Pages |-> NoEditor]
  /\ asked = [p \in Pages |-> Null]
  /\ pending = [p \in Pages |-> NoRequest]
  /\ answer = [p \in Pages |-> NoAnswer]
  /\ conflict = [p \in Pages |-> FALSE]
  /\ sent = 0
  /\ requests = {}
  /\ drafts = [d \in DraftIds |-> [revision |-> 0, bundle |-> Null]]
  /\ versions = [v \in VersionIds |-> Null]
  /\ removed = {}
  /\ runs = [r \in RunIds |-> Null]

-----------------------------------------------------------------------------
(* The page. *)

\* mutate and api: the operation waits for its request. For the properties a request
\* carries what the page showed (bundle of a publish) or started from (base of an
\* update).
Send(p, kind, id, revision, bundle, base) ==
  LET q == [page |-> p, n |-> sent + 1, kind |-> kind, id |-> id,
            revision |-> revision, bundle |-> bundle, base |-> base]
  IN  /\ sent < MaxSends
      /\ sent' = sent + 1
      /\ requests' = requests \cup {q}
      /\ asked' = [asked EXCEPT ![p] = Null]
      /\ pending' = [pending EXCEPT ![p] = q]
      /\ answer' = [answer EXCEPT ![p] = NoAnswer]
      /\ conflict' = [conflict EXCEPT ![p] = FALSE]
      /\ UNCHANGED <<editor, database>>

\* The button "New draft".
NewDraft(p) ==
  /\ ~Editing(p) /\ ~Busy(p)
  /\ editor' = [editor EXCEPT ![p] =
       [id |-> Null, revision |-> 0, text |-> Starter, base |-> Null, dirty |-> TRUE]]
  /\ UNCHANGED <<asked, pending, answer, conflict, network, database>>

\* openDraft: "Edit draft" in the list, or "Load latest revision" in the notice
\* after a conflict, where the owner agrees to leave unsaved changes.
OpenDraft(p, d) ==
  /\ ~Busy(p)
  /\ drafts[d].revision > 0
  /\ ~Editing(p) \/ (conflict[p] /\ editor[p].id = d)
  /\ Send(p, "get", d, 0, Null, Null)

\* Typing, or an import of files that completes (importTrees): markDirty, whatever
\* operation is in progress. A dialog stops the owner, but not an import.
Edit(p, text) ==
  /\ Editing(p)
  /\ text # editor[p].text
  /\ editor' = [editor EXCEPT ![p].text = text, ![p].dirty = TRUE]
  /\ UNCHANGED <<asked, pending, answer, conflict, network, database>>

\* saveDraft up to its request.
SaveDraft(p) ==
  LET e == editor[p]
  IN  /\ Editing(p) /\ ~Busy(p)
      /\ Send(p, IF e.id = Null THEN "create" ELSE "update", e.id, e.revision, e.text, e.base)

\* publishDraft up to its dialog, which asks for a saved editor only.
PublishDraft(p) ==
  /\ ~Busy(p)
  /\ editor[p].id # Null /\ ~editor[p].dirty
  /\ asked' = [asked EXCEPT ![p] = editor[p].text]
  /\ conflict' = [conflict EXCEPT ![p] = FALSE]
  /\ UNCHANGED <<editor, pending, answer, network, database>>

\* The owner agrees: the request is for the revision of the editor, which is not
\* looked at again.
ConfirmPublish(p) ==
  /\ Asking(p)
  /\ Send(p, "publish", editor[p].id, editor[p].revision, asked[p], Null)

\* The owner cancels the dialog.
DeclinePublish(p) ==
  /\ Asking(p)
  /\ asked' = [asked EXCEPT ![p] = Null]
  /\ UNCHANGED <<editor, pending, answer, conflict, network, database>>

\* switchView: the owner agrees to leave unsaved changes, if there are any.
Leave(p) ==
  /\ Editing(p) /\ ~Busy(p)
  /\ editor' = [editor EXCEPT ![p] = NoEditor]
  /\ conflict' = [conflict EXCEPT ![p] = FALSE]
  /\ UNCHANGED <<asked, pending, answer, network, database>>

\* Mutation: a saved editor is clean, whatever was typed meanwhile.
CleanAfterSave(e, q, a) ==
  [e EXCEPT !.id = a.id, !.revision = a.revision, !.base = q.bundle, !.dirty = FALSE]

\* saveDraft: the editor after the draft was saved.
Saved(e, q, a) ==
  [e EXCEPT !.id = a.id, !.revision = a.revision, !.base = q.bundle,
            !.dirty = e.text # q.bundle]

\* openDraft: the editor with the draft as the server has it.
Opened(a) ==
  [id |-> a.id, revision |-> a.revision, text |-> a.bundle, base |-> a.bundle, dirty |-> FALSE]

\* The editor after the answer to request q; publishDraft closes it.
Answered(e, q, a) ==
  IF a.status # 200 THEN e
  ELSE CASE q.kind \in {"create", "update"} -> Saved(e, q, a)
         [] q.kind = "get" -> Opened(a)
         [] OTHER -> NoEditor

\* The answer arrives and the operation ends.
Receive(p) ==
  /\ Waiting(p) /\ answer[p] # NoAnswer
  /\ editor' = [editor EXCEPT ![p] = Answered(@, pending[p], answer[p])]
  /\ conflict' = [conflict EXCEPT ![p] = answer[p].status = 409 /\ pending[p].kind = "update"]
  /\ pending' = [pending EXCEPT ![p] = NoRequest]
  /\ answer' = [answer EXCEPT ![p] = NoAnswer]
  /\ UNCHANGED <<asked, network, database>>

\* api fails: request or answer is lost, refused, or takes too long.
GiveUp(p) ==
  /\ Waiting(p)
  /\ pending' = [pending EXCEPT ![p] = NoRequest]
  /\ answer' = [answer EXCEPT ![p] = NoAnswer]
  /\ UNCHANGED <<editor, asked, conflict, network, database>>

-----------------------------------------------------------------------------
(* The server. *)

\* The request is done; the answer is for the page that still waits for it.
Respond(q, status, id, revision, bundle) ==
  /\ requests' = requests \ {q}
  /\ answer' = IF pending[q.page] = q
               THEN [answer EXCEPT ![q.page] =
                      [status |-> status, id |-> id, revision |-> revision, bundle |-> bundle]]
               ELSE answer
  /\ UNCHANGED <<editor, asked, pending, conflict, sent>>

\* POST /admin/api/drafts.
CreateDraft(q, d) ==
  /\ q \in requests /\ q.kind = "create"
  /\ drafts[d].revision = 0
  /\ drafts' = [drafts EXCEPT ![d] = [revision |-> 1, bundle |-> q.bundle]]
  /\ Respond(q, 200, d, 1, Null)
  /\ UNCHANGED <<versions, removed, runs>>

\* GET /admin/api/drafts/{id}.
GetDraft(q) ==
  /\ q \in requests /\ q.kind = "get"
  /\ Respond(q, 200, q.id, drafts[q.id].revision, drafts[q.id].bundle)
  /\ UNCHANGED <<drafts, versions, removed, runs>>

\* Mutation: the revision is not compared.
AnyRevision(q) == TRUE

\* updateDraft: the request knows the revision it replaces.
CurrentUpdate(q) == drafts[q.id].revision = q.revision

\* PUT /admin/api/drafts/{id}.
UpdateDraft(q) ==
  /\ q \in requests /\ q.kind = "update"
  /\ IF CurrentUpdate(q)
     THEN /\ drafts' = [drafts EXCEPT ![q.id] = [revision |-> @.revision + 1, bundle |-> q.bundle]]
          /\ Respond(q, 200, q.id, drafts[q.id].revision + 1, Null)
     ELSE /\ Respond(q, 409, Null, 0, Null)
          /\ UNCHANGED drafts
  /\ UNCHANGED <<versions, removed, runs>>

\* insertVersion: the version with this hash, or a new one.
InsertVersion(b) ==
  \/ /\ \E v \in VersionIds : Stored(v) /\ versions[v] = b
     /\ UNCHANGED versions
  \/ /\ \A v \in VersionIds : Stored(v) => versions[v] # b
     /\ \E v \in VersionIds :
          versions[v] = Null /\ versions' = [versions EXCEPT ![v] = b]

\* publish: the revision that the page has shown.
CurrentPublish(q) == drafts[q.id].revision = q.revision

\* POST /admin/api/drafts/{id}/publish.
Publish(q) ==
  /\ q \in requests /\ q.kind = "publish"
  /\ \/ /\ ~CurrentPublish(q)
        /\ Respond(q, 409, Null, 0, Null)
        /\ UNCHANGED versions
     \/ /\ CurrentPublish(q)
        /\ drafts[q.id].bundle \notin Valid
        /\ Respond(q, 422, Null, 0, Null)
        /\ UNCHANGED versions
     \/ /\ CurrentPublish(q)
        /\ drafts[q.id].bundle \in Valid
        /\ InsertVersion(drafts[q.id].bundle)
        /\ Respond(q, 200, Null, 0, Null)
  /\ UNCHANGED <<drafts, removed, runs>>

\* treetest import, and serve with a study: Import.
ImportStudy(b) ==
  /\ b \in Valid
  /\ InsertVersion(b)
  /\ UNCHANGED <<browser, network, drafts, removed, runs>>

\* createRun: the run uses a version that is there.
CreateRun(r, v) ==
  /\ runs[r] = Null
  /\ Stored(v)
  /\ runs' = [runs EXCEPT ![r] = v]
  /\ UNCHANGED <<browser, network, drafts, versions, removed>>

\* Mutation: the runs of the version are not counted.
MayRemove(v) == TRUE

\* RemoveStudy: a version that no run uses.
Unreferenced(v) == \A r \in RunIds : runs[r] # v

\* treetest study remove.
RemoveStudy(v) ==
  /\ Stored(v)
  /\ Unreferenced(v)
  /\ removed' = removed \cup {v}
  /\ UNCHANGED <<browser, network, drafts, versions, runs>>

-----------------------------------------------------------------------------
PageStep(p) ==
  \/ NewDraft(p)
  \/ \E d \in DraftIds : OpenDraft(p, d)
  \/ \E b \in Bundles : Edit(p, b)
  \/ SaveDraft(p)
  \/ PublishDraft(p)
  \/ ConfirmPublish(p)
  \/ DeclinePublish(p)
  \/ Leave(p)
  \/ Receive(p)
  \/ GiveUp(p)

ServerStep ==
  \/ \E q \in requests, d \in DraftIds : CreateDraft(q, d)
  \/ \E q \in requests : GetDraft(q)
  \/ \E q \in requests : UpdateDraft(q)
  \/ \E q \in requests : Publish(q)
  \/ \E b \in Bundles : ImportStudy(b)
  \/ \E r \in RunIds, v \in VersionIds : CreateRun(r, v)
  \/ \E v \in VersionIds : RemoveStudy(v)

Next == ServerStep \/ \E p \in Pages : PageStep(p)

Spec == Init /\ [][Next]_vars

-----------------------------------------------------------------------------
(* Properties. *)

Editor ==
  [id: DraftIds \cup {Null}, revision: Nat, text: Bundles \cup {Null},
   base: Bundles \cup {Null}, dirty: BOOLEAN]

Request ==
  [page: Pages \cup {Null}, n: Nat, kind: {"none", "get", "create", "update", "publish"},
   id: DraftIds \cup {Null}, revision: Nat, bundle: Bundles \cup {Null},
   base: Bundles \cup {Null}]

Answer ==
  [status: {0, 200, 409, 422}, id: DraftIds \cup {Null}, revision: Nat,
   bundle: Bundles \cup {Null}]

\* Every row has its schema (db.go): among them, published hashes are UNIQUE.
TypeOK ==
  /\ editor \in [Pages -> Editor]
  /\ asked \in [Pages -> Bundles \cup {Null}]
  /\ pending \in [Pages -> Request]
  /\ answer \in [Pages -> Answer]
  /\ conflict \in [Pages -> BOOLEAN]
  /\ sent \in Nat
  /\ requests \subseteq Request
  /\ \A q \in requests : q.page \in Pages /\ (q.kind # "create" => q.id \in DraftIds)
  /\ drafts \in [DraftIds -> [revision: Nat, bundle: Bundles \cup {Null}]]
  /\ versions \in [VersionIds -> Bundles \cup {Null}]
  /\ removed \subseteq VersionIds
  /\ runs \in [RunIds -> VersionIds \cup {Null}]
  /\ \A v, w \in VersionIds : Stored(v) /\ Stored(w) /\ versions[v] = versions[w] => v = w

\* README.md: "Draft saves use revisions to detect concurrent edits".  A saved
\* draft is replaced only by an update that started from what it replaces, even
\* when updates are lost, repeated or handled after their page gave up.
NoLostUpdate ==
  [][\A d \in DraftIds :
       drafts[d].revision > 0 /\ drafts'[d] # drafts[d] =>
         \E q \in requests \ requests' :
           /\ q.kind = "update" /\ q.id = d
           /\ q.base = drafts[d].bundle
           /\ drafts'[d].bundle = q.bundle]_vars

\* An editor that says "Saved" at the server's revision shows what the server
\* has, though the owner may have typed while the save was on its way (saveDraft).
CleanMeansSaved ==
  \A p \in Pages :
    LET e == editor[p]
    IN  e.id # Null /\ ~e.dirty /\ e.revision = drafts[e.id].revision
          => e.text = drafts[e.id].bundle

\* publishDraft: "Revision N will be frozen".  A publication that creates a version
\* freezes what its page showed, saved as that revision, when its dialog opened:
\* neither what another page has saved meanwhile nor what an import puts into the
\* editor behind the dialog (the second is then lost, see UnsavedKept).
PublishedAsAsked ==
  [][\A q \in requests \ requests', v \in VersionIds :
       versions'[v] # versions[v] => q.kind = "publish" /\ versions'[v] = q.bundle]_vars

\* admin.js: "Editing a draft never changes an existing version or run".  The
\* version of a run stays as it was published, through edits, publications,
\* imports and removals.
RunsFrozen ==
  [][\A r \in RunIds : runs[r] # Null =>
       /\ runs'[r] = runs[r]
       /\ versions'[runs[r]] = versions[runs[r]]
       /\ runs[r] \notin removed']_vars

\* mayLeaveEditor asks before unsaved changes are left: "Your draft has changes
\* that have not been saved to the server. Stay here to save or download them
\* first".  No operation that ends closes an editor with unsaved changes.
UnsavedKept ==
  [][\A p \in Pages :
       Busy(p) /\ Editing(p) /\ editor[p].dirty => editor'[p] # NoEditor]_vars

-----------------------------------------------------------------------------
(* The inductive invariant. *)

\* What anyone knows of a draft at the server's revision is what the server has.
Knows(id, revision, bundle) ==
  /\ revision <= drafts[id].revision
  /\ revision = drafts[id].revision => bundle = drafts[id].bundle

EditorSound(e) ==
  e.id # Null => Knows(e.id, e.revision, e.base) /\ (~e.dirty => e.text = e.base)

AnswerSound(q, a) ==
  a.status = 200 =>
    /\ q.kind \in {"create", "update"} => a.id # Null /\ Knows(a.id, a.revision, q.bundle)
    /\ q.kind = "get" => a.id # Null /\ Knows(a.id, a.revision, a.bundle)

RequestSound(q) ==
  /\ q.kind = "update" => Knows(q.id, q.revision, q.base)
  /\ q.kind = "publish" => Knows(q.id, q.revision, q.bundle)

\* While its dialog is open a page waits for nothing, so its editor stays based on
\* what the dialog was opened for, whatever an import adds.
AskingSound ==
  \A p \in Pages : Asking(p) => /\ ~Waiting(p)
                                /\ editor[p].id # Null
                                /\ editor[p].base = asked[p]

KnowledgeSound ==
  /\ \A p \in Pages : EditorSound(editor[p]) /\ AnswerSound(pending[p], answer[p])
  /\ \A q \in requests : RequestSound(q)

\* A run's version is in the table.
RunsStored == \A r \in RunIds : runs[r] # Null => Stored(runs[r])

IInv == TypeOK /\ KnowledgeSound /\ AskingSound /\ RunsStored
=============================================================================
