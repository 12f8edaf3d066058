SPECIFICATION KeysSpec
CONSTANTS
  Name <- MCName
  Camelized <- MCCamelized
  Decamelized <- MCDecamelized
  NoKey = NoKey
  Class <- MCClass
  Annotation <- MCAnnotation
  Objects <- MCObjects
  Unknown = {"version"}
  Depth = 8
INVARIANT UserDataIsKept
CHECK_DEADLOCK FALSE
