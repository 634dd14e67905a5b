CONSTANTS
  Null = Null
  code = code  value = value  blockId = blockId  txId = txId  event = event
  Accounts <- MCAccounts
  MaxDepth = 5
  Calls <- VoucherCalls
  Transports = {"http", "grpc"}
  Placeholders = {"0xToken", "FlowToken"}
  ConfigLimit = Null
  KnownTypes = {"Array", "UInt8"}
  Values <- MCValues
  RetryLimit = 2
  DefaultLimit = 100
  RefBlock = blockId
  Keys <- MCKeys
  SharedKeys <- MCShared
  MaxSequence = 1
SPECIFICATION IxSpec
INVARIANTS VoucherNamesTransaction
CHECK_DEADLOCK FALSE
