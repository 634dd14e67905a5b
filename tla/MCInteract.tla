----------------------------- MODULE MCInteract -----------------------------
(* Instances of Interact: the calls, and the accounts they are signed by. *)
EXTENDS Interact

CONSTANTS code, value, blockId, txId, event

Addr(n)  == [pre |-> FALSE, a |-> n]
AddrX(n) == [pre |-> TRUE, a |-> n]

(* Accounts: a key, with the roles it brings (Null: those of the account   *)
(* that is resolved), and a function with what it returns.                 *)
Key(addr, key, role) ==
  [tempId |-> Null, spread |-> FALSE, addr |-> addr, keyId |-> key, sequenceNum |-> Null,
   resolve |-> Null, role |-> role]
Fn(rs) ==
  [tempId |-> Null, spread |-> TRUE, addr |-> Null, keyId |-> Null, sequenceNum |-> Null,
   resolve |-> Function(rs), role |-> {}]
Spread(acct) == [acct EXCEPT !.spread = TRUE]

(* currentUser().authorization: an account "CURRENT_USER" that resolves to *)
(* the key of the authz service, or to what the pre-authz service lists.   *)
CurrentUser(rs) == Fn(<<[Fn(rs) EXCEPT !.tempId = <<"user", 0, 0>>, !.role = Null]>>)
Authz(n, k)     == CurrentUser(<<[Spread(Key(AddrX(n), k, Null)) EXCEPT !.tempId = <<"user", 0, 0>>]>>)
PreAuthz(first, payers, authorizers) ==
  CurrentUser(<<Key(first[1], first[2], {"proposer"})>>
    \o [i \in DOMAIN payers |-> Key(payers[i][1], payers[i][2], {"payer"})]
    \o [i \in DOMAIN authorizers |-> Key(authorizers[i][1], authorizers[i][2], {"authorizer"})])
Signer1(n, k) == Fn(<<Spread(Key(Addr(n), k, Null))>>)

Deep(n) ==
  LET deep[i \in 0 .. n] ==
        IF i = 0 THEN Spread(Key(Addr(1), 0, Null))
        ELSE [Fn(<<deep[i - 1]>>) EXCEPT !.tempId = <<"deep", i, 0>>, !.role = Null]
  IN deep[n]

Code(old, new) == [text |-> code, old |-> old, new |-> new]
Arg(nested, typed) == [value |-> value, nested |-> nested, typed |-> typed]

Mutate ==
  [api |-> "mutate", cadence |-> Code({}, {}), args |-> << >>, limit |-> Null, user |-> Authz(1, 0),
   authz |-> Null, proposer |-> Null, payer |-> Null, authorizations |-> Null]
Query == [api |-> "query", cadence |-> Code({}, {}), args |-> << >>, limit |-> Null]
Send(steps) == [api |-> "send", steps |-> steps]
Tx(accts)   == <<Step("transaction", Code({}, {}))>> \o accts

(* A function for the proposer that resolves to two keys of account n, who *)
(* has no other role here.                                                 *)
SeveralProposers(n) ==
  [Mutate EXCEPT !.proposer = Fn(<<Key(Addr(n), 0, {"proposer"}), Key(Addr(n), 1, {"proposer"})>>)]

Mutations ==
  {Mutate,
   [Mutate EXCEPT !.cadence = Code({}, {"FlowToken", "Unknown"}), !.args = <<Arg(2, TRUE)>>, !.limit = 7],
   [Mutate EXCEPT !.cadence = Code({"0xToken"}, {"FlowToken"})],
   [Mutate EXCEPT !.args = <<Arg(0, TRUE), Arg(3, TRUE)>>],
   [Mutate EXCEPT !.limit = 0, !.payer = Signer1(2, 0)],
   [Mutate EXCEPT !.payer = Signer1(2, 0), !.proposer = Signer1(3, 1),
                  !.authorizations = <<Signer1(1, 0), Signer1(4, 0), Signer1(1, 0)>>],
   [Mutate EXCEPT !.payer = Fn(<<Key(Addr(2), 0, {"payer"}), Key(Addr(2), 1, {"payer"})>>)],
   [Mutate EXCEPT !.payer = Fn(<<Key(Addr(2), 0, {"payer"}), Key(Addr(3), 0, {"payer"})>>)],
   [Mutate EXCEPT !.user = PreAuthz(<<AddrX(1), 0>>, <<<<AddrX(2), 0>>, <<AddrX(2), 1>>>>,
                                    <<<<AddrX(1), 0>>, <<AddrX(3), 0>>>>)],
   SeveralProposers(3), [Mutate EXCEPT !.authz = Fn(<<Deep(4)>>)], [Mutate EXCEPT !.authz = Fn(<<Deep(3)>>)]}

Transactions ==
  {Send(Tx(<<Step("proposer", Signer1(1, 0)), Step("payer", Signer1(2, 0)),
             Step("authorizer", Signer1(3, 0)), Step("ref", blockId), Step("voucherIntercept", Null),
             Step("validator", "accepts")>>)),
   Send(Tx(<<Step("proposer", [Key(Addr(1), 0, {}) EXCEPT !.sequenceNum = 0]),
             Step("payer", Signer1(2, 0))>>)),
   Send(Tx(<<Step("proposer", Signer1(1, 0)), Step("authorizer", Signer1(1, 0))>>)),
   Send(Tx(<<Step("payer", Signer1(2, 0)), Step("validator", "rejects")>>)),
   Send(Tx(<<Step("proposer", Signer1(1, 0)), Step("payer", Signer1(1, 0)), Step("validator", "rejects")>>)),
   Send(Tx(<<Step("proposer", Signer1(5, 0)), Step("payer", Signer1(1, 0))>>)),
   Send(Tx(<<Step("invariant", FALSE)>>))}

Reads ==
  {[Query EXCEPT !.cadence = Code({"0xToken"}, {}), !.args = <<Arg(1, TRUE)>>],
   [Query EXCEPT !.args = <<Arg(0, FALSE)>>, !.limit = 5],
   Send(<<Step("script", Code({}, {})), Step("atBlockHeight", 3)>>),
   Send(<<Step("script", Code({}, {})), Step("atBlockId", blockId)>>),
   Send(<<Step("getAccount", AddrX(1)), Step("atBlockHeight", 3)>>),
   Send(<<Step("getBlock", Null), Step("atBlockId", blockId), Step("atBlockHeight", 3)>>),
   Send(<<Step("getBlockHeader", TRUE)>>),
   Send(<<Step("getBlockHeader", Null), Step("atBlockId", blockId)>>),
   Send(<<[op |-> "getEvents", arg |-> event, from |-> 0, to |-> 3, given |-> TRUE]>>),
   Send(<<[op |-> "getEventsAtBlockIds", arg |-> event, ids |-> <<blockId>>, given |-> TRUE]>>),
   Send(<<[op |-> "getEventsAtBlockIds", arg |-> event, ids |-> << >>, given |-> TRUE]>>),
   Send(<<Step("getCollection", txId)>>), Send(<<Step("getTransaction", txId)>>),
   Send(<<Step("getTransactionStatus", txId)>>), Send(<<Step("ping", Null)>>),
   Send(<<Step("getNetworkParameters", Null)>>), [api |-> "nodeVersionInfo"]}

At(api, id, height) == [api |-> api, addr |-> AddrX(1), sealed |-> FALSE, id |-> id, height |-> height]
BlockReads ==
  {At("block", Null, Null), At("block", blockId, Null), At("block", Null, 3), At("account", Null, 3),
   At("account", blockId, 3), [At("block", Null, 3) EXCEPT !.sealed = TRUE],
   [At("block", Null, Null) EXCEPT !.sealed = TRUE]}

MCCalls == Mutations \cup Transactions \cup Reads \cup BlockReads
VoucherCalls ==
  {Send(Tx(<<Step("proposer", Signer1(1, 0)), Step("payer", Signer1(2, 0)), Step("voucherIntercept", Null)>>))}

(* An account and all its function may return. *)
RECURSIVE Within(_)
Within(acct) ==
  {acct} \cup IF isFn(acct.resolve) THEN UNION {Within(r) : r \in ToSet(acct.resolve.returns)} ELSE {}
Signers(c) == {s \in ToSet(Steps(c)) : s.op \in {"proposer", "payer", "authorizer"}}
AccountsOf(calls) == UNION {Within(s.arg) : s \in UNION {Signers(c) : c \in calls}}
MCAccounts == AccountsOf(MCCalls \cup VoucherCalls)

Leaf(type, inArray) == [type |-> type, inArray |-> inArray]
MCValues   == {<<Leaf("Array", FALSE), Leaf("UInt8", TRUE)>>, <<Leaf("Unheard", FALSE)>>}
MCShared   == {<<1, 0>>}
MCKeys     == {<<n, k>> : n \in 1 .. 4, k \in 0 .. 1}

-----------------------------------------------------------------------------
(* The keys an account stands for in a role: its own, or those of what its *)
(* function returns, as far as they have the role or inherit it.           *)
RECURSIVE KeysOf(_, _, _)
KeysOf(acct, inherited, role) ==
  LET roles == IF acct.role = Null THEN inherited ELSE acct.role IN
  IF role \notin roles THEN {}
  ELSE IF isFn(acct.resolve)
  THEN UNION {KeysOf(acct.resolve.returns[i], roles, role) : i \in DOMAIN acct.resolve.returns}
  ELSE {<<acct.addr.a, acct.keyId>>}

Given(role) ==
  LET steps == {s \in ToSet(Steps(call)) : s.op = role /\ s.given}
  IN UNION {KeysOf([s.arg EXCEPT !.role = @ \cup {role}], {}, role) : s \in steps}

(* When wallets are asked to sign, each role is taken by the keys that the *)
(* accounts given for it stand for, and by no other: resolve-accounts.ts   *)
(* has put them in place of the functions, and what it could not resolve,  *)
(* several keys for the proposer among it, has ended before.  The calls    *)
(* hold no such key that serves another role as well: README, divergences. *)
RolesResolved ==
  isTransaction(ix) /\ at \in {"inside", "insideSigning", "outsideSigning"} =>
    LET taken_by(ids) == {KeyOf(Acct(ix, t)) : t \in ToSet(ids)} IN
    /\ taken_by(ix.payer) = Given("payer")
    /\ taken_by(Proposers(ix)) = Given("proposer")
    /\ taken_by(ix.authorizations) = Given("authorizer")
=============================================================================
