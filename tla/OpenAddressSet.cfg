CONSTANTS
    KeyCount = 10
    MinSlots = 4
    MaxSlots = 8
SPECIFICATION Spec
INVARIANT LookupExact
PROPERTY OneKeyAtATime
