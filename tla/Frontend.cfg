SPECIFICATION MCSpec
CONSTANTS
  acceptedAlgorithms <- MCAlgorithms
  Parts <- MCParts
  NameTexts <- MCNames
  KeyTexts <- MCKeys
  Undefined = Undefined
  Tabs = {t1, t2}
  NotSet = NotSet
  MaxItems = 2
  EnvVars = {"URL", "OIDC", "PUBLIC"}
  Paths = {"/", "/active", "/active/x", "/account", "/other"}
INVARIANTS
  
  ThemeSurvives
  AccordionsFollowUser
  
  
