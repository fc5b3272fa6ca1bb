SPECIFICATION Spec
CONSTANTS
  MaxDocs = 3
  MaxDamage = 1
  Absent = Absent
  Invalid = Invalid
  Unsafe = Unsafe
  Empty = Empty
  Down = Down
CHECK_DEADLOCK FALSE
INVARIANTS AcknowledgedSurvives PreviousGenerationSurvives FinalUnlessOvertaken
PROPERTIES ImplementsRegister
