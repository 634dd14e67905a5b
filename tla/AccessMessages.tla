---------------------------- MODULE AccessMessages ----------------------------
(*****************************************************************************)
(* The requests and responses of the access API and, for each method of its  *)
(* service, which of them it takes and returns.                              *)
(*****************************************************************************)
EXTENDS MessageFields

PingRequest == << >>
PingResponse == << >>
GetNodeVersionInfoRequest == << >>
GetNodeVersionInfoResponse == <<Sub("info", 1, "NodeVersionInfo")>>
GetLatestBlockHeaderRequest == <<Bool("isSealed", 1)>>
GetBlockHeaderByIDRequest == <<Bytes("id", 1)>>
GetBlockHeaderByHeightRequest == <<Uint64("height", 1)>>
BlockHeaderResponse ==
  <<Sub("block", 1, "BlockHeader"), Enum("blockStatus", 2), Sub("metadata", 3, "Metadata")>>
GetLatestBlockRequest == <<Bool("isSealed", 1), Bool("fullBlockResponse", 2)>>
GetBlockByIDRequest == <<Bytes("id", 1), Bool("fullBlockResponse", 2)>>
GetBlockByHeightRequest == <<Uint64("height", 1), Bool("fullBlockResponse", 2)>>
BlockResponse ==
  <<Sub("block", 1, "Block"), Enum("blockStatus", 2), Sub("metadata", 3, "Metadata")>>
GetCollectionByIDRequest == <<Bytes("id", 1)>>
CollectionResponse == <<Sub("collection", 1, "Collection"), Sub("metadata", 2, "Metadata")>>
SendTransactionRequest == <<Sub("transaction", 1, "Transaction")>>
SendTransactionResponse == <<Bytes("id", 1), Sub("metadata", 2, "Metadata")>>
GetTransactionRequest ==
  <<Bytes("id", 1), Bytes("blockId", 2), Bytes("collectionId", 3),
    Enum("eventEncodingVersion", 4)>>
GetSystemTransactionRequest == <<Bytes("blockId", 1)>>
GetSystemTransactionResultRequest == <<Bytes("blockId", 1), Enum("eventEncodingVersion", 2)>>
GetTransactionByIndexRequest ==
  <<Bytes("blockId", 1), Uint32("index", 2), Enum("eventEncodingVersion", 3)>>
GetTransactionsByBlockIDRequest == <<Bytes("blockId", 1), Enum("eventEncodingVersion", 2)>>
TransactionResultsResponse ==
  <<Many(Sub("transactionResults", 1, "TransactionResultResponse")),
    Sub("metadata", 2, "Metadata")>>
TransactionsResponse ==
  <<Many(Sub("transactions", 1, "Transaction")), Sub("metadata", 2, "Metadata")>>
TransactionResponse == <<Sub("transaction", 1, "Transaction"), Sub("metadata", 2, "Metadata")>>
TransactionResultResponse ==
  <<Enum("status", 1), Uint32("statusCode", 2), Text("errorMessage", 3),
    Many(Sub("events", 4, "Event")), Bytes("blockId", 5), Bytes("transactionId", 6),
    Bytes("collectionId", 7), Uint64("blockHeight", 8), Sub("metadata", 9, "Metadata"),
    Uint64("computationUsage", 10)>>
GetAccountRequest == <<Bytes("address", 1)>>
GetAccountResponse == <<Sub("account", 1, "Account"), Sub("metadata", 2, "Metadata")>>
GetAccountAtLatestBlockRequest == <<Bytes("address", 1)>>
AccountResponse == <<Sub("account", 1, "Account"), Sub("metadata", 2, "Metadata")>>
GetAccountAtBlockHeightRequest == <<Bytes("address", 1), Uint64("blockHeight", 2)>>
ExecuteScriptAtLatestBlockRequest == <<Bytes("script", 1), Many(Bytes("arguments", 2))>>
ExecuteScriptAtBlockIDRequest ==
  <<Bytes("blockId", 1), Bytes("script", 2), Many(Bytes("arguments", 3))>>
ExecuteScriptAtBlockHeightRequest ==
  <<Uint64("blockHeight", 1), Bytes("script", 2), Many(Bytes("arguments", 3))>>
ExecuteScriptResponse ==
  <<Bytes("value", 1), Sub("metadata", 2, "Metadata"), Uint64("computationUsage", 3)>>
GetEventsForHeightRangeRequest ==
  <<Text("type", 1), Uint64("startHeight", 2), Uint64("endHeight", 3),
    Enum("eventEncodingVersion", 4)>>
GetEventsForBlockIDsRequest ==
  <<Text("type", 1), Many(Bytes("blockIds", 2)), Enum("eventEncodingVersion", 3)>>
EventsResponse ==
  <<Many(Sub("results", 1, "EventsResponse_Result")), Sub("metadata", 2, "Metadata")>>
EventsResponse_Result ==
  <<Bytes("blockId", 1), Uint64("blockHeight", 2), Many(Sub("events", 3, "Event")),
    Sub("blockTimestamp", 4, "Timestamp")>>
GetNetworkParametersRequest == << >>
GetNetworkParametersResponse == <<Text("chainId", 1)>>
GetLatestProtocolStateSnapshotRequest == << >>
GetProtocolStateSnapshotByBlockIDRequest == <<Bytes("blockId", 1)>>
GetProtocolStateSnapshotByHeightRequest == <<Uint64("blockHeight", 1)>>
ProtocolStateSnapshotResponse == <<Bytes("serializedsnapshot", 1), Sub("metadata", 2, "Metadata")>>
GetExecutionResultForBlockIDRequest == <<Bytes("blockId", 1)>>
ExecutionResultForBlockIDResponse ==
  <<Sub("executionResult", 1, "ExecutionResult"), Sub("metadata", 2, "Metadata")>>
GetExecutionResultByIDRequest == <<Bytes("id", 1)>>
ExecutionResultByIDResponse ==
  <<Sub("executionResult", 1, "ExecutionResult"), Sub("metadata", 2, "Metadata")>>
SubscribeBlocksFromStartBlockIDRequest ==
  <<Bytes("startBlockId", 1), Enum("blockStatus", 2), Bool("fullBlockResponse", 3)>>
SubscribeBlocksFromStartHeightRequest ==
  <<Uint64("startBlockHeight", 1), Enum("blockStatus", 2), Bool("fullBlockResponse", 3)>>
SubscribeBlocksFromLatestRequest == <<Enum("blockStatus", 1), Bool("fullBlockResponse", 2)>>
SubscribeBlocksResponse == <<Sub("block", 1, "Block")>>
SubscribeBlockHeadersFromStartBlockIDRequest == <<Bytes("startBlockId", 1), Enum("blockStatus", 2)>>
SubscribeBlockHeadersFromStartHeightRequest ==
  <<Uint64("startBlockHeight", 1), Enum("blockStatus", 2)>>
SubscribeBlockHeadersFromLatestRequest == <<Enum("blockStatus", 1)>>
SubscribeBlockHeadersResponse == <<Sub("header", 1, "BlockHeader")>>
SubscribeBlockDigestsFromStartBlockIDRequest == <<Bytes("startBlockId", 1), Enum("blockStatus", 2)>>
SubscribeBlockDigestsFromStartHeightRequest ==
  <<Uint64("startBlockHeight", 1), Enum("blockStatus", 2)>>
SubscribeBlockDigestsFromLatestRequest == <<Enum("blockStatus", 1)>>
SubscribeBlockDigestsResponse ==
  <<Bytes("blockId", 1), Uint64("blockHeight", 2), Sub("blockTimestamp", 3, "Timestamp")>>
SendAndSubscribeTransactionStatusesRequest == <<Sub("transaction", 1, "Transaction")>>
SendAndSubscribeTransactionStatusesResponse ==
  <<Bytes("id", 1), Enum("status", 2), Uint64("messageIndex", 3)>>

-----------------------------------------------------------------------------
(* The classes of the module. *)
Messages ==
  {PingRequest, PingResponse, GetNodeVersionInfoRequest, GetNodeVersionInfoResponse,
   GetLatestBlockHeaderRequest, GetBlockHeaderByIDRequest, GetBlockHeaderByHeightRequest,
   BlockHeaderResponse, GetLatestBlockRequest, GetBlockByIDRequest, GetBlockByHeightRequest,
   BlockResponse, GetCollectionByIDRequest, CollectionResponse, SendTransactionRequest,
   SendTransactionResponse, GetTransactionRequest, GetSystemTransactionRequest,
   GetSystemTransactionResultRequest, GetTransactionByIndexRequest,
   GetTransactionsByBlockIDRequest, TransactionResultsResponse, TransactionsResponse,
   TransactionResponse, TransactionResultResponse, GetAccountRequest, GetAccountResponse,
   GetAccountAtLatestBlockRequest, AccountResponse, GetAccountAtBlockHeightRequest,
   ExecuteScriptAtLatestBlockRequest, ExecuteScriptAtBlockIDRequest,
   ExecuteScriptAtBlockHeightRequest, ExecuteScriptResponse, GetEventsForHeightRangeRequest,
   GetEventsForBlockIDsRequest, EventsResponse, EventsResponse_Result,
   GetNetworkParametersRequest, GetNetworkParametersResponse,
   GetLatestProtocolStateSnapshotRequest, GetProtocolStateSnapshotByBlockIDRequest,
   GetProtocolStateSnapshotByHeightRequest, ProtocolStateSnapshotResponse,
   GetExecutionResultForBlockIDRequest, ExecutionResultForBlockIDResponse,
   GetExecutionResultByIDRequest, ExecutionResultByIDResponse,
   SubscribeBlocksFromStartBlockIDRequest, SubscribeBlocksFromStartHeightRequest,
   SubscribeBlocksFromLatestRequest, SubscribeBlocksResponse,
   SubscribeBlockHeadersFromStartBlockIDRequest, SubscribeBlockHeadersFromStartHeightRequest,
   SubscribeBlockHeadersFromLatestRequest, SubscribeBlockHeadersResponse,
   SubscribeBlockDigestsFromStartBlockIDRequest, SubscribeBlockDigestsFromStartHeightRequest,
   SubscribeBlockDigestsFromLatestRequest, SubscribeBlockDigestsResponse,
   SendAndSubscribeTransactionStatusesRequest, SendAndSubscribeTransactionStatusesResponse}

(* The service: what each method takes and returns, and whether it streams. *)
AccessAPI ==
  [Ping |-> Unary(PingRequest, PingResponse),
   GetNodeVersionInfo |-> Unary(GetNodeVersionInfoRequest, GetNodeVersionInfoResponse),
   GetLatestBlockHeader |-> Unary(GetLatestBlockHeaderRequest, BlockHeaderResponse),
   GetBlockHeaderByID |-> Unary(GetBlockHeaderByIDRequest, BlockHeaderResponse),
   GetBlockHeaderByHeight |-> Unary(GetBlockHeaderByHeightRequest, BlockHeaderResponse),
   GetLatestBlock |-> Unary(GetLatestBlockRequest, BlockResponse),
   GetBlockByID |-> Unary(GetBlockByIDRequest, BlockResponse),
   GetBlockByHeight |-> Unary(GetBlockByHeightRequest, BlockResponse),
   GetCollectionByID |-> Unary(GetCollectionByIDRequest, CollectionResponse),
   SendTransaction |-> Unary(SendTransactionRequest, SendTransactionResponse),
   GetTransaction |-> Unary(GetTransactionRequest, TransactionResponse),
   GetTransactionResult |-> Unary(GetTransactionRequest, TransactionResultResponse),
   GetTransactionResultByIndex |->
      Unary(GetTransactionByIndexRequest, TransactionResultResponse),
   GetTransactionResultsByBlockID |->
      Unary(GetTransactionsByBlockIDRequest, TransactionResultsResponse),
   GetTransactionsByBlockID |-> Unary(GetTransactionsByBlockIDRequest, TransactionsResponse),
   GetSystemTransaction |-> Unary(GetSystemTransactionRequest, TransactionResponse),
   GetSystemTransactionResult |->
      Unary(GetSystemTransactionResultRequest, TransactionResultResponse),
   GetAccount |-> Unary(GetAccountRequest, GetAccountResponse),
   GetAccountAtLatestBlock |-> Unary(GetAccountAtLatestBlockRequest, AccountResponse),
   GetAccountAtBlockHeight |-> Unary(GetAccountAtBlockHeightRequest, AccountResponse),
   ExecuteScriptAtLatestBlock |->
      Unary(ExecuteScriptAtLatestBlockRequest, ExecuteScriptResponse),
   ExecuteScriptAtBlockID |-> Unary(ExecuteScriptAtBlockIDRequest, ExecuteScriptResponse),
   ExecuteScriptAtBlockHeight |->
      Unary(ExecuteScriptAtBlockHeightRequest, ExecuteScriptResponse),
   GetEventsForHeightRange |-> Unary(GetEventsForHeightRangeRequest, EventsResponse),
   GetEventsForBlockIDs |-> Unary(GetEventsForBlockIDsRequest, EventsResponse),
   GetNetworkParameters |-> Unary(GetNetworkParametersRequest, GetNetworkParametersResponse),
   GetLatestProtocolStateSnapshot |->
      Unary(GetLatestProtocolStateSnapshotRequest, ProtocolStateSnapshotResponse),
   GetProtocolStateSnapshotByBlockID |->
      Unary(GetProtocolStateSnapshotByBlockIDRequest, ProtocolStateSnapshotResponse),
   GetProtocolStateSnapshotByHeight |->
      Unary(GetProtocolStateSnapshotByHeightRequest, ProtocolStateSnapshotResponse),
   GetExecutionResultForBlockID |->
      Unary(GetExecutionResultForBlockIDRequest, ExecutionResultForBlockIDResponse),
   GetExecutionResultByID |->
      Unary(GetExecutionResultByIDRequest, ExecutionResultByIDResponse),
   SubscribeBlocksFromStartBlockID |->
      Streams(SubscribeBlocksFromStartBlockIDRequest, SubscribeBlocksResponse),
   SubscribeBlocksFromStartHeight |->
      Streams(SubscribeBlocksFromStartHeightRequest, SubscribeBlocksResponse),
   SubscribeBlocksFromLatest |->
      Streams(SubscribeBlocksFromLatestRequest, SubscribeBlocksResponse),
   SubscribeBlockHeadersFromStartBlockID |->
      Streams(SubscribeBlockHeadersFromStartBlockIDRequest, SubscribeBlockHeadersResponse),
   SubscribeBlockHeadersFromStartHeight |->
      Streams(SubscribeBlockHeadersFromStartHeightRequest, SubscribeBlockHeadersResponse),
   SubscribeBlockHeadersFromLatest |->
      Streams(SubscribeBlockHeadersFromLatestRequest, SubscribeBlockHeadersResponse),
   SubscribeBlockDigestsFromStartBlockID |->
      Streams(SubscribeBlockDigestsFromStartBlockIDRequest, SubscribeBlockDigestsResponse),
   SubscribeBlockDigestsFromStartHeight |->
      Streams(SubscribeBlockDigestsFromStartHeightRequest, SubscribeBlockDigestsResponse),
   SubscribeBlockDigestsFromLatest |->
      Streams(SubscribeBlockDigestsFromLatestRequest, SubscribeBlockDigestsResponse),
   SendAndSubscribeTransactionStatuses |->
      Streams(SendAndSubscribeTransactionStatusesRequest, SendAndSubscribeTransactionStatusesResponse)]
=============================================================================
