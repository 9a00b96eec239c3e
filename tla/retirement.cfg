SPECIFICATION Spec
CONSTANTS
  Ids = {"p1", "p2"}
  Listed0 = {"p1"}
  MaxCommits = 3
  Torn = Torn
INVARIANTS TypeOK LintSeesRemovals
PROPERTY RetiresOrPutsBack
