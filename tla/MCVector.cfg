CONSTANTS
  Values = {v1, v2}
  MaxCount = 9
  NoRet = NoRet
  InitialSize = 8
  Null = Null
SPECIFICATION Spec
INVARIANT TypeOK
PROPERTY ImplementsAbsVector
