SPECIFICATION TypedSpec
CONSTANTS
  Declarations <- MCDeclarations
  Declared <- MCDeclared
  Customs <- MCCustoms
  Topics <- MCTopics
  Dollar <- MCDollar
  Values <- MCValues
  Split <- MCSplit
  MaxCapacity = 2
  ClientCodec = "wincode"
  Numerals <- MCNumerals
  Payloads <- MCPayloads
  Unencodable <- MCUnencodable
  EmptyForm <- MCEmptyForm
  Foreign <- MCForeign
  MaxMessages = 2
\* A generated method may panic, which ends the task it runs in, and a
\* subscription that has ended stays so.
CHECK_DEADLOCK FALSE
INVARIANTS
  TopicKeepsCodec
