SPECIFICATION Spec
CONSTANTS
  Tag = {"input", "slider", "codeview"}
  Stages <- MCStages
  Codeview = {"codeview"}
  MaxId = 2
  MaxElement = 2
  MaxCallback = 4
INVARIANT all_items_exist
CHECK_DEADLOCK FALSE
