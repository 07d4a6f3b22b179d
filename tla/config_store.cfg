CONSTANTS
  Body = {"default", "bare", "home"}
  Default = "default"
  Bare = "bare"
  Filled = "home"
  MaxEdits = 2
  MaxUploads = 1
  MaxFailures = 1
SPECIFICATION Spec
INVARIANTS
  NothingUnsaved
  RestartFindsKept
PROPERTIES
  ChangeIsSaved
