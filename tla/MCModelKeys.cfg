SPECIFICATION KeysSpec
CONSTANTS
  Name <- MCName
  Camelized <- MCCamelized
  Decamelized <- MCDecamelized
  NoKey = NoKey
  Class <- MCClass
  Annotation <- MCAnnotation
  Objects <- MCObjects
  Unknown = {"version"}
  Depth = 8
INVARIANTS
  AttributesAreRenamed
  KeysComeBack
\* A message is sent once.
CHECK_DEADLOCK FALSE
