SPECIFICATION Spec
CONSTANTS
  c1 = c1
  c2 = c2
  c3 = c3
  Copies = {c1, c2}
  User <- OwnUser
  NoUser = NoUser
  MaxEdits = 3
  MaxRevisions = 3
SYMMETRY CopiesSymmetric
INVARIANTS
  TypeOK
  CheckedOutIsLocked
PROPERTIES
  CommitRecordsLastSave
  SavedWorkIsKept
