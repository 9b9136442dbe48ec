\* The six frequencies of the dialog over ten days, half an hour at a time.
SPECIFICATION Spec
CONSTANTS
  None = None
  Invalid = Invalid
  Step = 30
  Last = 14400
INVARIANT OfferedIsKept
