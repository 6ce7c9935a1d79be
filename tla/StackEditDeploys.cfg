\* Two stacks: what is deployed from the editor without a look at its changes.
SPECIFICATION EditorSpec
CONSTANTS
  Editable = {"a", "b"}
  MaxTexts = 1
  MaxClicks = 1
CHECK_DEADLOCK FALSE
INVARIANTS
  DeploysReviewed
