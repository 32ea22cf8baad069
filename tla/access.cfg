SPECIFICATION Spec
CONSTANTS
  Token <- MCToken
  Service = "svc"
  Slot = {j1}
  Programs <- MCPrograms
  PermissionEdits <- MCPermissionEdits
  ModuleEdits <- MCModuleEdits
  MaxEdits = 1
INVARIANTS TypeOK AnswersAsTyped WritesInScope GoneMeansNothingLeft
PROPERTIES DeclaredFlowServed ChecksPass
CHECK_DEADLOCK FALSE
