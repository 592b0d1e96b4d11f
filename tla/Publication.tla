------------------------------ MODULE Publication -------------------------------
(***************************************************************************)
(* The editor and the publication of DraftEditing with the study format of *)
(* StudyBundles: which bundles the handlers accept, and what an owner sees *)
(* of the ones that are edited.                                            *)
(***************************************************************************)
EXTENDS DraftEditing, StudyBundles

CONSTANTS
  Source,      \* the content of every bundle of the editing model
  TreeTexts,   \* other tree files that an owner may write
  Candidates   \* other bundles that an owner may try to publish

\* What holds of each bundle of the editing model, and of the other inputs; Valid,
\* what its handlers accept, is what Validate accepts.
Shows == [b \in Bundles |->
            \A name \in DOMAIN Source[b].trees : Faithful(Source[b].trees[name])]
Runs == [b \in Bundles |-> Runnable(Source[b])]
Previews == \A lines \in TreeTexts : Faithful(lines)
Accepts == Valid = {b \in Bundles : Validate(Source[b])}
Acceptances == \A b \in Candidates : Validate(b) => Runnable(b)

\* What the preview in the editor shows is what publication would freeze, for what
\* is edited and for any other tree file, with no line nested otherwise or left out
\* (ParseTree is "preserving labels and sibling order"); and the two disagree about
\* whether a file is right only over the lines that Faithful names (previewTree in
\* core.mjs, "deliberately advisory", against ParseTree).
PreviewFaithful ==
  /\ Previews
  /\ \A p \in Pages : Editing(p) => Shows[editor[p].text]

\* README.md: "Every listed answer must be reachable" and "Completed blocks balance
\* assigned exposure".  No version is stored, and no other bundle passes
\* validation, that assigns a session tasks it cannot answer in its tree or a
\* block that favours a task or an arm (Validate, publish, allocateV1, join).
VersionsRunnable ==
  /\ Accepts /\ Acceptances
  /\ \A v \in VersionIds : Stored(v) => Runs[versions[v]]
=============================================================================
