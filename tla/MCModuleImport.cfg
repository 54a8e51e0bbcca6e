CONSTANTS
  Families <- MCFamilies
  Directories <- MCDirectories
SPECIFICATION Spec
INVARIANTS
  Verdict
  OnceAndInOrder
  NamesRight
