SPECIFICATION Spec
CONSTANTS
  r1 = r1
  r2 = r2
  e1 = e1
  e2 = e2
  e3 = e3
  n1 = n1
  n2 = n2
  NoName = NoName
  Requests <- MCRequests
  Endpoints <- MCEndpoints
  Imports <- MCImports
  Names <- MCNames
  Slug <- MCSlug
SYMMETRY Symmetry
INVARIANTS
  TypeOK
  AnswersAreTrue
  ImportedAreServed
  StaleOnlyByRemoval
