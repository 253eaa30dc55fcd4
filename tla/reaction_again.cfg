CONSTANTS
  Payloads <- Reactions
  MaxTries = 1
SPECIFICATION Spec
INVARIANT
  DroppedIsDuplicate
