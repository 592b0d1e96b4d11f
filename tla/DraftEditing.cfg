\* Two pages edit, publish and remove; answers are lost and requests are late.
SPECIFICATION Spec
CONSTANTS
  Pages = {p1, p2}
  DraftIds = {d1}
  VersionIds = {v1, v2}
  RunIds = {r1}
  Bundles = {b0, b1}
  b0 = b0
  b1 = b1
  Valid = {b0}
  Source <- MCSource
  TreeTexts <- MCTreeTexts
  Candidates <- MCCandidates
  Starter = b0
  MaxSends = 4
  Null = Null
SYMMETRY Symmetry
INVARIANTS
  CleanMeansSaved
  PreviewFaithful
  VersionsRunnable
PROPERTIES
  NoLostUpdate
  PublishedAsAsked
  RunsFrozen
