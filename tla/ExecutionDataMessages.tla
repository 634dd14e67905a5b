------------------------ MODULE ExecutionDataMessages -------------------------
(*****************************************************************************)
(* The requests and responses of the execution data API of                   *)
(* packages/protobuf.                                                        *)
(*****************************************************************************)
EXTENDS MessageFields

GetExecutionDataByBlockIDRequest == <<Bytes("blockId", 1), Enum("eventEncodingVersion", 2)>>
GetExecutionDataByBlockIDResponse == <<Sub("blockExecutionData", 1, "BlockExecutionData")>>
SubscribeExecutionDataRequest ==
  <<Bytes("startBlockId", 1), Uint64("startBlockHeight", 2), Enum("eventEncodingVersion", 3)>>
SubscribeExecutionDataResponse ==
  <<Uint64("blockHeight", 1), Sub("blockExecutionData", 2, "BlockExecutionData"),
    Sub("blockTimestamp", 3, "Timestamp")>>
SubscribeEventsRequest ==
  <<Bytes("startBlockId", 1), Uint64("startBlockHeight", 2), Sub("filter", 3, "EventFilter"),
    Uint64("heartbeatInterval", 4), Enum("eventEncodingVersion", 5)>>
SubscribeEventsResponse ==
  <<Bytes("blockId", 1), Uint64("blockHeight", 2), Many(Sub("events", 3, "Event")),
    Sub("blockTimestamp", 4, "Timestamp")>>
EventFilter == <<Many(Text("eventType", 1)), Many(Text("contract", 2)), Many(Text("address", 3))>>
GetRegisterValuesRequest == <<Uint64("blockHeight", 1), Many(Sub("registerIds", 2, "RegisterID"))>>
GetRegisterValuesResponse == <<Many(Bytes("values", 1))>>

-----------------------------------------------------------------------------
(* The classes of the module. *)
Messages ==
  {GetExecutionDataByBlockIDRequest, GetExecutionDataByBlockIDResponse,
   SubscribeExecutionDataRequest, SubscribeExecutionDataResponse, SubscribeEventsRequest,
   SubscribeEventsResponse, EventFilter, GetRegisterValuesRequest, GetRegisterValuesResponse}

(* The service: what each method takes and returns, and whether it streams. *)
ExecutionDataAPI ==
  [GetExecutionDataByBlockID |->
      Unary(GetExecutionDataByBlockIDRequest, GetExecutionDataByBlockIDResponse),
   SubscribeExecutionData |->
      Streams(SubscribeExecutionDataRequest, SubscribeExecutionDataResponse),
   SubscribeEvents |-> Streams(SubscribeEventsRequest, SubscribeEventsResponse),
   GetRegisterValues |-> Unary(GetRegisterValuesRequest, GetRegisterValuesResponse)]
=============================================================================
