SPECIFICATION Spec
CONSTANTS
  Families <- MCFamilies
  Worlds <- MCWorlds
  Evaluate <- MCEvaluate
  Truth <- StaticBoolean
  Number <- NumericValue
  BigIntOf <- BigIntValue
  Text <- StringText
  TypeofOf <- TypeofString
  Key <- EqualityKey
  NullishOf <- NullishState
  LengthOf <- ArrayLength
  SizeOf <- CollectionSizeOf
  StateOf <- KnownState
  Reading <- ReadResult
  Prunable <- PrunableStatement
  PrimitiveResult <- PrimitivePure
  IsPure <- Pure
  PureNew <- NewPure
  BuiltLength <- ArrayLength
  AbsentDescriptor <- AbsentOwnDescriptor
  StaticCall <- StaticCallPure
  ObjectRead <- ObjectIdentity
  ObjectSpread <- SpreadPure
  PrimitiveValue <- PrimitivePure
  LengthOperand <- LengthPure
  DescriptorFlag <- DescriptorFlagRead
  EmptyMap <- EmptyMapSource
  ElementResult <- ElementOf
  StringCoercion <- StringCoercionPure
  ErrorOptionsPure <- ErrorOptions
INVARIANTS StaticValueExact NothingIsLost
