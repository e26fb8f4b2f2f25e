CONSTANTS
  Users = {u1}
  Calls = {c1, c2}
  MaxDocs = 2
  Edits <- SomeEdits
  None = None
  MaxPhotos = 1
  MaxImages = 2
  Posts = {q1, q2}
SPECIFICATION GallerySpec
CONSTRAINT Few
SYMMETRY Symmetry
INVARIANTS
  VerifiedWereSeen
  PicturesAreKept
  NothingStaysBehind
CHECK_DEADLOCK FALSE
