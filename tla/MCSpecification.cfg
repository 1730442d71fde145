\* The bounds are explained in README.md (run "specification").
CONSTANTS
  Libs = {"l1", "l2"}
  Ucs = {"u1", "u2"}
  Feats = {"f1", "f2"}
  Bls = {"b1", "b2"}
  ParentsOf <- MCParentsOf
  Needs <- MCNeeds
  MAX_REVIEW_ITERATIONS = 2
  MaxCommands = 2
  MaxEdits = 2
SPECIFICATION Spec
INVARIANTS
  ReviewInv
  HeadHasLastProposal
PROPERTIES
  ClosedOverDone
