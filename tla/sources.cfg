SPECIFICATION Spec
CONSTANTS
  Rule = {}
  File = {}
  Symbol = {}
  Name <- MCName
  Parts <- MCParts
  TestNamed <- MCTestNamed
  Scans <- MCScans
  MaxEdits = 2
INVARIANTS TypeOK ExtrasInScope SpelledFromRoot CommentsApply NoForeignComment
PROPERTY StepsRunOut
