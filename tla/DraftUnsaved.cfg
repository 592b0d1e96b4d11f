\* Unsaved changes when a publication ends.
SPECIFICATION Spec
CONSTANTS
  Pages = {p1}
  DraftIds = {d1}
  VersionIds = {v1}
  RunIds = {}
  Bundles = {b0, b1}
  b0 = b0
  b1 = b1
  Valid = {b0}
  Source <- MCSource
  TreeTexts = {}
  Candidates = {}
  Starter = b0
  MaxSends = 3
  Null = Null
PROPERTIES
  UnsavedKept
