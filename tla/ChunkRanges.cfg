CONSTANT Size = 8
SPECIFICATION Spec
INVARIANTS RangesInv RangesExact RangesCanonical CompleteExact
PROPERTY KeepsSet
