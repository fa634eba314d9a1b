SPECIFICATION Spec
CONSTANTS
  Tasks = {"main", "child"}
  Main = "main"
  Headers <- MCHeaders
  Lenient <- MCLenient
  MaxScopes = 3
CHECK_DEADLOCK FALSE
INVARIANTS ContextSound
PROPERTIES ScopesBalanced OtelContextIsOwn
