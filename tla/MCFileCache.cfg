SPECIFICATION Spec
CONSTANTS
  Requests = {r1, r2, r3}
  Size = 2
  Kinds <- MCKinds
SYMMETRY MCSymmetry
INVARIANTS PartialHasWriter SoloIsWhole SomethingToSend
