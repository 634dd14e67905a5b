------------------------------ MODULE Signing ------------------------------
(***************************************************************************)
(* What is signed: the signers of a resolved transaction and the messages  *)
(* they get (packages/sdk/src/resolve/resolve-signatures.ts, voucher.ts),  *)
(* the encoding (encode/encode.ts) and what a wallet makes of a signable   *)
(* (wallet-utils).  An encoding is a record of the fields it encodes, a    *)
(* signature is the record of who signed which message.                    *)
(***************************************************************************)
EXTENDS Interaction

(* Inside signers are authorizers and proposer without the payers, outside *)
(* signers the payers, each id once.                                       *)
InsideSigners(ix)  == (ToSet(ix.authorizations) \cup ({ix.proposer} \ {Null})) \ ToSet(ix.payer)
OutsideSigners(ix) == ToSet(ix.payer)
findInsideSigners(ix) ==
  SelectSeq(Unique(ix.authorizations \o (IF ix.proposer = Null THEN << >> ELSE <<ix.proposer>>)),
            LAMBDA t : t \in InsideSigners(ix))
findOutsideSigners(ix) == Unique(ix.payer)

AddrOf(ix, prefixed, t) == IF prefixed THEN With(Acct(ix, t).addr) ELSE San(Acct(ix, t).addr)
Sig(ix, prefixed, t) ==
  [address |-> AddrOf(ix, prefixed, t), keyId |-> Acct(ix, t).keyId, sig |-> Acct(ix, t).signature]
SigsOf(ix, prefixed, ids) == [i \in DOMAIN ids |-> Sig(ix, prefixed, ids[i])]

(* The transaction with the addresses of its accounts: without the prefix  *)
(* where it is encoded (prepForEncoding), with it in a voucher.            *)
TransactionOf(ix, prefixed, inside, outside) ==
  [cadence |-> ix.cadence, refBlock |-> ix.refBlock, computeLimit |-> ix.computeLimit,
   arguments |-> [i \in DOMAIN ix.arguments |-> ix.arguments[i].asArgument],
   proposalKey |-> [address |-> AddrOf(ix, prefixed, ix.proposer),
                    keyId |-> Acct(ix, ix.proposer).keyId,
                    sequenceNum |-> Acct(ix, ix.proposer).sequenceNum],
   payer |-> AddrOf(ix, prefixed, ix.payer[1]),
   authorizers |-> Unique([i \in DOMAIN ix.authorizations |->
                           AddrOf(ix, prefixed, ix.authorizations[i])]),
   payloadSigs |-> SigsOf(ix, prefixed, inside), envelopeSigs |-> SigsOf(ix, prefixed, outside)]

(* prepForEncoding: a sequence number nobody found is encoded as 0. *)
prepForEncoding(ix) ==
  LET tx == TransactionOf(ix, FALSE, findInsideSigners(ix), << >>)
  IN [tx EXCEPT !.proposalKey.sequenceNum = IF @ = Null THEN 0 ELSE @]
createSignableVoucher(ix) ==
  TransactionOf(ix, TRUE, findInsideSigners(ix), findOutsideSigners(ix))

(* encode.ts: the payload, and the list of signers by which a signature    *)
(* gets its index.  A signer the list does not know is encoded as the      *)
(* first one is.                                                           *)
preparePayload(tx) ==
  [cadence |-> tx.cadence, refBlock |-> tx.refBlock, computeLimit |-> tx.computeLimit,
   arguments |-> tx.arguments,
   proposalKey |-> [tx.proposalKey EXCEPT !.address = San(@)], payer |-> San(tx.payer),
   authorizers |-> [i \in DOMAIN tx.authorizers |-> San(tx.authorizers[i])]]

collectSigners(tx) == Unique(<<tx.proposalKey.address, tx.payer>> \o tx.authorizers)

SignerIndex(tx, sig) ==
  LET signers == collectSigners(tx)
      at      == {i \in DOMAIN signers : signers[i] = San(sig.address)}
  IN IF at = {} THEN 0 ELSE (CHOOSE i \in at : TRUE) - 1

prepareSigs(tx, sigs) ==
  SortSeq([i \in DOMAIN sigs |->
             [signerIndex |-> SignerIndex(tx, sigs[i]), keyId |-> sigs[i].keyId, sig |-> sigs[i].sig]],
          LAMBDA a, b : \/ a.signerIndex < b.signerIndex
                        \/ a.signerIndex = b.signerIndex /\ a.keyId < b.keyId)

encodeTransactionPayload(tx)  == [payload |-> preparePayload(tx)]
encodeTransactionEnvelope(tx) ==
  [payload |-> preparePayload(tx), sigs |-> prepareSigs(tx, tx.payloadSigs)]

encodeTxIdFromVoucher(tx) ==
  [payload |-> preparePayload(tx), sigs |-> prepareSigs(tx, tx.payloadSigs),
   envelope |-> prepareSigs(tx, tx.envelopeSigs)]
voucherToTxId(voucher) == encodeTxIdFromVoucher(voucher)

(* buildSignable, and what the wallet's side makes of it: the message it   *)
(* encodes for an address, and whether it takes the signable for a         *)
(* transaction.                                                            *)
buildSignable(ix, t, message) ==
  [addr |-> San(Acct(ix, t).addr), keyId |-> Acct(ix, t).keyId, roles |-> Role(ix, t),
   message |-> message, voucher |-> createSignableVoucher(ix)]

SansPrefixes(v) ==
  LET sans(sigs) == [i \in DOMAIN sigs |-> [sigs[i] EXCEPT !.address = San(@)]]
  IN [v EXCEPT !.proposalKey.address = San(@), !.payer = San(@),
        !.authorizers = [i \in DOMAIN @ |-> San(@[i])], !.payloadSigs = sans(@)]

(* Mutant: the payer stays among the signers of the payload. *)
isPayloadSignerToo(voucher, addr) ==
  With(addr) \in ToSet(voucher.authorizers) \cup {voucher.proposalKey.address}
isPayloadSigner(voucher, addr) ==
  With(addr) \in (ToSet(voucher.authorizers) \cup {voucher.proposalKey.address}) \ {voucher.payer}
isEnvelopeSigner(voucher, addr) == With(addr) = With(voucher.payer)

encodeMessageFromSignable(signable, addr) ==
  CASE isPayloadSigner(signable.voucher, addr) -> encodeTransactionPayload(SansPrefixes(signable.voucher))
    [] isEnvelopeSigner(signable.voucher, addr) -> encodeTransactionEnvelope(SansPrefixes(signable.voucher))
    [] OTHER -> Null

validateSignableTransaction(signable) ==
  signable.message = IF "payer" \in signable.roles
                     THEN encodeTransactionEnvelope(signable.voucher)
                     ELSE encodeTransactionPayload(signable.voucher)
=============================================================================
