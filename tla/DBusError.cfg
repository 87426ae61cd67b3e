CONSTANTS
  n1 = n1
  n2 = n2
  t1 = t1
  t2 = t2
  f1 = f1
  f2 = f2
  Names <- MCNames
  Texts <- MCTexts
  Formats <- MCFormats
  NoParent = NoParent
  NoText = NoText
SPECIFICATION Spec
INVARIANT RaisedErrorIntact
INVARIANT NothingLeaked
