CONSTANTS
  app = app
  side = side
  resources = resources
  probe = probe
  k1 = k1
  k2 = k2
  v1 = v1
  v1s = v1s
  v2 = v2
  Nothing = Nothing
  Null = Null
  NoTemplate = NoTemplate
  Containers <- MCContainers
  Fields <- MCFields
  StructFields <- MCStructFields
  Paths <- MCPaths
  Values <- MCValues
  Canon <- MCCanon
  Default <- MCDefault
  Failing = app
  FirstSpec <- MCFirstSpec
  Images = {new, old}
  Patches <- LimitPatches
  Edits <- MCEdits
  Clients = {r1}
  Disturbances = {}
  MaxDisturbances = 1
SPECIFICATION Spec
PROPERTIES UndoRestoresSpec
