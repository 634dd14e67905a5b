-------------------------- MODULE ExecutionMessages ---------------------------
(*****************************************************************************)
(* The requests and responses of the execution API of packages/protobuf.     *)
(*****************************************************************************)
EXTENDS MessageFields

PingRequest == << >>
PingResponse == << >>
GetAccountAtBlockIDRequest == <<Bytes("blockId", 1), Bytes("address", 2)>>
GetAccountAtBlockIDResponse == <<Sub("account", 1, "Account")>>
ExecuteScriptAtBlockIDRequest ==
  <<Bytes("blockId", 1), Bytes("script", 2), Many(Bytes("arguments", 3))>>
ExecuteScriptAtBlockIDResponse == <<Bytes("value", 1), Uint64("computationUsage", 2)>>
GetEventsForBlockIDsResponse ==
  <<Many(Sub("results", 1, "GetEventsForBlockIDsResponse_Result")),
    Enum("eventEncodingVersion", 2)>>
GetEventsForBlockIDsResponse_Result ==
  <<Bytes("blockId", 1), Uint64("blockHeight", 2), Many(Sub("events", 3, "Event"))>>
GetEventsForBlockIDsRequest == <<Text("type", 1), Many(Bytes("blockIds", 2))>>
GetTransactionResultRequest == <<Bytes("blockId", 1), Bytes("transactionId", 2)>>
GetTransactionByIndexRequest == <<Bytes("blockId", 1), Uint32("index", 2)>>
GetTransactionResultResponse ==
  <<Uint32("statusCode", 1), Text("errorMessage", 2), Many(Sub("events", 3, "Event")),
    Enum("eventEncodingVersion", 4), Uint64("computationUsage", 5)>>
GetTransactionsByBlockIDRequest == <<Bytes("blockId", 1)>>
GetTransactionResultsResponse ==
  <<Many(Sub("transactionResults", 1, "GetTransactionResultResponse")),
    Enum("eventEncodingVersion", 2)>>
GetTransactionErrorMessageRequest == <<Bytes("blockId", 1), Bytes("transactionId", 2)>>
GetTransactionErrorMessageByIndexRequest == <<Bytes("blockId", 1), Uint32("index", 2)>>
GetTransactionErrorMessageResponse == <<Bytes("transactionId", 1), Text("errorMessage", 2)>>
GetTransactionErrorMessagesByBlockIDRequest == <<Bytes("blockId", 1)>>
GetTransactionErrorMessagesResponse ==
  <<Many(Sub("results", 1, "GetTransactionErrorMessagesResponse_Result"))>>
GetTransactionErrorMessagesResponse_Result ==
  <<Bytes("transactionId", 1), Uint32("index", 2), Text("errorMessage", 3)>>
GetRegisterAtBlockIDRequest ==
  <<Bytes("blockId", 1), Bytes("registerOwner", 2), Bytes("registerKey", 4)>>
GetRegisterAtBlockIDResponse == <<Bytes("value", 1)>>
GetLatestBlockHeaderRequest == <<Bool("isSealed", 1)>>
GetBlockHeaderByIDRequest == <<Bytes("id", 1)>>
BlockHeaderResponse == <<Sub("block", 1, "BlockHeader")>>

-----------------------------------------------------------------------------
(* The classes of the module. *)
Messages ==
  {PingRequest, PingResponse, GetAccountAtBlockIDRequest, GetAccountAtBlockIDResponse,
   ExecuteScriptAtBlockIDRequest, ExecuteScriptAtBlockIDResponse, GetEventsForBlockIDsResponse,
   GetEventsForBlockIDsResponse_Result, GetEventsForBlockIDsRequest,
   GetTransactionResultRequest, GetTransactionByIndexRequest, GetTransactionResultResponse,
   GetTransactionsByBlockIDRequest, GetTransactionResultsResponse,
   GetTransactionErrorMessageRequest, GetTransactionErrorMessageByIndexRequest,
   GetTransactionErrorMessageResponse, GetTransactionErrorMessagesByBlockIDRequest,
   GetTransactionErrorMessagesResponse, GetTransactionErrorMessagesResponse_Result,
   GetRegisterAtBlockIDRequest, GetRegisterAtBlockIDResponse, GetLatestBlockHeaderRequest,
   GetBlockHeaderByIDRequest, BlockHeaderResponse}

(* The service: what each method takes and returns, and whether it streams. *)
ExecutionAPI ==
  [Ping |-> Unary(PingRequest, PingResponse),
   GetAccountAtBlockID |-> Unary(GetAccountAtBlockIDRequest, GetAccountAtBlockIDResponse),
   ExecuteScriptAtBlockID |->
      Unary(ExecuteScriptAtBlockIDRequest, ExecuteScriptAtBlockIDResponse),
   GetEventsForBlockIDs |-> Unary(GetEventsForBlockIDsRequest, GetEventsForBlockIDsResponse),
   GetTransactionResult |-> Unary(GetTransactionResultRequest, GetTransactionResultResponse),
   GetTransactionResultByIndex |->
      Unary(GetTransactionByIndexRequest, GetTransactionResultResponse),
   GetTransactionResultsByBlockID |->
      Unary(GetTransactionsByBlockIDRequest, GetTransactionResultsResponse),
   GetTransactionErrorMessage |->
      Unary(GetTransactionErrorMessageRequest, GetTransactionErrorMessageResponse),
   GetTransactionErrorMessageByIndex |->
      Unary(GetTransactionErrorMessageByIndexRequest, GetTransactionErrorMessageResponse),
   GetTransactionErrorMessagesByBlockID |->
      Unary(GetTransactionErrorMessagesByBlockIDRequest, GetTransactionErrorMessagesResponse),
   GetRegisterAtBlockID |-> Unary(GetRegisterAtBlockIDRequest, GetRegisterAtBlockIDResponse),
   GetLatestBlockHeader |-> Unary(GetLatestBlockHeaderRequest, BlockHeaderResponse),
   GetBlockHeaderByID |-> Unary(GetBlockHeaderByIDRequest, BlockHeaderResponse)]
=============================================================================
