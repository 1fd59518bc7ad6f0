SPECIFICATION Spec
CONSTANTS
  MaxReps = 6
  MaxEase = 340
  MaxNow = 3
INVARIANTS
  TypeOK
  InRange
  ReviewIsEarned
  GradesOrdered
PROPERTIES
  SuccessLengthens
