-------------------------- MODULE MCParticipantClient --------------------------
(***************************************************************************)
(* Small instances of ParticipantClient: a tree of two pages, one below    *)
(* the other, of which the lower can be selected.                          *)
(***************************************************************************)
EXTENDS ParticipantClient, TLC

CONSTANTS n1, n2, MaxEpoch

MCNodes == {n1, n2}
MCParent == [n \in MCNodes |-> IF n = n2 THEN n1 ELSE Root]
MCSelectable == {n2}
MCEpochs == 1..MaxEpoch
MCEventIds == MCEpochs \X (0..MaxEventsPerAttempt)
MCCommands == {"start", "finish"} \X MCEpochs \X (0..(TaskCount - 1))

\* The tree is shown at 1, entered and selected in at 2, left at 4.
MCClicks == [select |-> 3, back |-> 4, visibility_hidden |-> 2]
MCNoClicks == [c \in {} |-> 0]
=============================================================================
