CONSTANTS
  Null = Null
  code = code  value = value  blockId = blockId  txId = txId  event = event
  Accounts <- MCAccounts
  MaxDepth = 5
  Calls <- MCCalls
  Transports = {"http", "grpc"}
  Placeholders = {"0xToken", "FlowToken"}
  ConfigLimit = Null
  KnownTypes = {"Array", "UInt8"}
  Values <- MCValues
  RetryLimit = 2
  DefaultLimit = 100
  RefBlock = blockId
  Keys <- MCKeys
  SharedKeys <- MCShared
  MaxSequence = 1
SPECIFICATION IxFairSpec
INVARIANTS PayloadsSigned RolesResolved SignaturesVerify SequenceOfProposer WalletsAgree OneTransaction TransportsAgree
PROPERTIES CallSettles
CHECK_DEADLOCK FALSE
