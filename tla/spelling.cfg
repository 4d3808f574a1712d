SPECIFICATION Spec
CONSTANTS
  Rule = {}
  File = {}
  Symbol = {}
  Name <- MCName
  Parts <- MCParts
  TestNamed <- MCTestNamed
  Scans <- SingleFileScans
  MaxEdits = 0
INVARIANT CommentsQuiet
