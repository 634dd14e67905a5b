---------------------------- MODULE EntityMessages ----------------------------
(*****************************************************************************)
(* The messages of packages/protobuf that stand for what a node keeps: for   *)
(* each generated class the fields that serializeBinaryToWriter writes and   *)
(* deserializeBinaryFromReader reads, with the name of the accessor, the     *)
(* number on the wire and the type.                                          *)
(*****************************************************************************)
EXTENDS MessageFields

(* account_pb.js *)
Account ==
  <<Bytes("address", 1), Uint64("balance", 2), Bytes("code", 3),
    Many(Sub("keys", 4, "AccountKey")), Entries("contracts", 5)>>
AccountKey ==
  <<Uint32("index", 1), Bytes("publicKey", 2), Uint32("signAlgo", 3), Uint32("hashAlgo", 4),
    Uint32("weight", 5), Uint32("sequenceNumber", 6), Bool("revoked", 7)>>

(* block_pb.js *)
Block ==
  <<Bytes("id", 1), Bytes("parentId", 2), Uint64("height", 3),
    Sub("timestamp", 4, "Timestamp"),
    Many(Sub("collectionGuarantees", 5, "CollectionGuarantee")),
    Many(Sub("blockSeals", 6, "BlockSeal")), Many(Bytes("signatures", 7)),
    Many(Sub("executionReceiptMetalist", 8, "ExecutionReceiptMeta")),
    Many(Sub("executionResultList", 9, "ExecutionResult")),
    Sub("blockHeader", 10, "BlockHeader"), Bytes("protocolStateId", 11)>>

(* block_header_pb.js *)
BlockHeader ==
  <<Bytes("id", 1), Bytes("parentId", 2), Uint64("height", 3),
    Sub("timestamp", 4, "Timestamp"), Bytes("payloadHash", 5), Uint64("view", 6),
    Many(Bytes("parentVoterIds", 7)), Bytes("parentVoterSigData", 8), Bytes("proposerId", 9),
    Bytes("proposerSigData", 10), Text("chainId", 11), Bytes("parentVoterIndices", 12),
    Sub("lastViewTc", 13, "TimeoutCertificate"), Uint64("parentView", 14)>>
TimeoutCertificate ==
  <<Uint64("view", 1), Packed(Uint64("highQcViews", 2)),
    Sub("highestQc", 3, "QuorumCertificate"), Bytes("signerIndices", 4), Bytes("sigData", 5)>>
QuorumCertificate ==
  <<Uint64("view", 1), Bytes("blockId", 2), Bytes("signerIndices", 3), Bytes("sigData", 4)>>

(* block_seal_pb.js *)
BlockSeal ==
  <<Bytes("blockId", 1), Bytes("executionReceiptId", 2),
    Many(Bytes("executionReceiptSignatures", 3)), Many(Bytes("resultApprovalSignatures", 4)),
    Bytes("finalState", 5), Bytes("resultId", 6),
    Many(Sub("aggregatedApprovalSigs", 7, "AggregatedSignature"))>>
AggregatedSignature == <<Many(Bytes("verifierSignatures", 1)), Many(Bytes("signerIds", 2))>>

(* collection_pb.js *)
Collection == <<Bytes("id", 1), Many(Bytes("transactionIds", 2))>>
CollectionGuarantee ==
  <<Bytes("collectionId", 1), Many(Bytes("signatures", 2)), Bytes("referenceBlockId", 3),
    Bytes("signature", 4), Many(Bytes("signerIds", 5)), Bytes("signerIndices", 6)>>

(* transaction_pb.js *)
Transaction ==
  <<Bytes("script", 1), Many(Bytes("arguments", 2)), Bytes("referenceBlockId", 3),
    Uint64("gasLimit", 4), Sub("proposalKey", 5, "Transaction_ProposalKey"), Bytes("payer", 6),
    Many(Bytes("authorizers", 7)), Many(Sub("payloadSignatures", 8, "Transaction_Signature")),
    Many(Sub("envelopeSignatures", 9, "Transaction_Signature"))>>
Transaction_ProposalKey == <<Bytes("address", 1), Uint32("keyId", 2), Uint64("sequenceNumber", 3)>>
Transaction_Signature == <<Bytes("address", 1), Uint32("keyId", 2), Bytes("signature", 3)>>

(* event_pb.js *)
Event ==
  <<Text("type", 1), Bytes("transactionId", 2), Uint32("transactionIndex", 3),
    Uint32("eventIndex", 4), Bytes("payload", 5)>>

(* execution_result_pb.js *)
ExecutionResult ==
  <<Bytes("previousResultId", 1), Bytes("blockId", 2), Many(Sub("chunks", 3, "Chunk")),
    Many(Sub("serviceEvents", 4, "ServiceEvent")), Bytes("executionDataId", 5)>>
Chunk ==
  <<Uint32("collectionindex", 1), Bytes("startState", 2), Bytes("eventCollection", 3),
    Bytes("blockId", 4), Uint64("totalComputationUsed", 5), Uint32("numberOfTransactions", 6),
    Uint64("index", 7), Bytes("endState", 8), Bytes("executionDataId", 9),
    Bytes("stateDeltaCommitment", 10)>>
ServiceEvent == <<Text("type", 1), Bytes("payload", 2)>>
ExecutionReceiptMeta ==
  <<Bytes("executorId", 1), Bytes("resultId", 2), Many(Bytes("spocks", 3)),
    Bytes("executorSignature", 4)>>

(* metadata_pb.js *)
Metadata ==
  <<Bytes("latestFinalizedBlockId", 1), Uint64("latestFinalizedHeight", 2), Bytes("nodeId", 3)>>

(* node_version_info_pb.js *)
NodeVersionInfo ==
  <<Text("semver", 1), Text("commit", 2), Bytes("sporkId", 3), Uint64("protocolVersion", 4),
    Uint64("sporkRootBlockHeight", 5), Uint64("nodeRootBlockHeight", 6)>>

(* register_pb.js *)
RegisterID == <<Bytes("owner", 1), Bytes("key", 2)>>

(* block_execution_data_pb.js *)
BlockExecutionData ==
  <<Bytes("blockId", 1), Many(Sub("chunkExecutionData", 2, "ChunkExecutionData"))>>
ChunkExecutionData ==
  <<Sub("collection", 1, "ExecutionDataCollection"), Many(Sub("events", 2, "Event")),
    Sub("trieupdate", 3, "TrieUpdate"),
    Many(Sub("transactionResults", 4, "ExecutionDataTransactionResult"))>>
ExecutionDataCollection == <<Many(Sub("transactions", 1, "Transaction"))>>
TrieUpdate == <<Bytes("rootHash", 1), Many(Bytes("paths", 2)), Many(Sub("payloads", 3, "Payload"))>>
Payload == <<Many(Sub("keypart", 1, "KeyPart")), Bytes("value", 2)>>
KeyPart == <<Uint32("type", 1), Bytes("value", 2)>>
ExecutionDataTransactionResult ==
  <<Bytes("transactionId", 1), Bool("failed", 2), Uint64("computationUsed", 3)>>

-----------------------------------------------------------------------------
(* The classes of the module. *)
Messages ==
  {Account, AccountKey, Block, BlockHeader, TimeoutCertificate, QuorumCertificate, BlockSeal,
   AggregatedSignature, Collection, CollectionGuarantee, Transaction, Transaction_ProposalKey,
   Transaction_Signature, Event, ExecutionResult, Chunk, ServiceEvent, ExecutionReceiptMeta,
   Metadata, NodeVersionInfo, RegisterID, BlockExecutionData, ChunkExecutionData,
   ExecutionDataCollection, TrieUpdate, Payload, KeyPart, ExecutionDataTransactionResult}
=============================================================================
