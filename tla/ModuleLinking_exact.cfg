SPECIFICATION Spec
CONSTANTS
  Families <- MCFamilies
  Scan <- FileSpecifiers
  Requests <- MCRequests
  Texts <- SpecifierTexts
  BuffersOf <- BufferExpression
  CollectionOf <- CollectionExpression
INVARIANTS RequestsAreLinked FailuresExact
