SPECIFICATION Spec
CONSTANTS
  Side = 4
  Patterns <- MCPatterns
PROPERTIES PlaysLife NinthCycle
