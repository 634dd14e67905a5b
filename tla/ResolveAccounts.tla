-------------------------- MODULE ResolveAccounts --------------------------
(***************************************************************************)
(* The resolution of the accounts of a transaction                         *)
(* (packages/sdk/src/resolve/resolve-accounts.ts): breadth first, level by *)
(* level, an account that is a function is called, the accounts it returns *)
(* join the interaction and take its place in the roles they have.  Each   *)
(* step is an operator from an interaction to an interaction; the module   *)
(* Interact makes the steps.                                               *)
(*                                                                         *)
(* An authorization function is modelled by what it returns, a sequence of *)
(* accounts that may be functions themselves: resolve is Null, a function  *)
(* with what it `returns`, or the `ids` that took the function's place.    *)
(* An account returned `spread` is a copy of the account the function got: *)
(* it has its id and shares its role object unless it brings its own.      *)
(***************************************************************************)
EXTENDS Interaction

CONSTANTS
  MaxDepth,       \* MAX_DEPTH_LIMIT
  Accounts        \* the accounts programs give, and what their functions return

isFn(resolve)    == resolve # Null /\ resolve.fn
Function(rs)     == [fn |-> TRUE, returns |-> rs, ids |-> << >>]
Resolved(ids)    == [fn |-> FALSE, returns |-> << >>, ids |-> ids]
(* The functions return accounts, and an address is one.                   *)
IsAddr(addr) == "a" \in DOMAIN addr /\ San(addr) # Null
AccountsAssumption ==
  \A a \in Accounts : /\ isFn(a.resolve) => a.resolve.returns \in Seq(Accounts)
                      /\ a.addr # Null => IsAddr(a.addr)
ASSUME AccountsAssumption

IdOf(addr, key)  == <<"key", addr.a, key>>

(* addAccountToIx: an account with an address and a key goes by them; an   *)
(* account already there is kept, with the roles of both.                  *)
TempId(ix, acct) ==
  IF acct.addr # Null /\ acct.keyId # Null THEN IdOf(acct.addr, acct.keyId)
  ELSE IF acct.tempId # Null THEN acct.tempId
  ELSE Fresh(ix.uuids + 1)

addAccountToIx(ix, acct) ==
  LET t     == TempId(ix, acct)
      known == IF t \in Ids(ix) THEN ix
               ELSE [ix EXCEPT !.accounts = Append(@, [acct EXCEPT !.tempId = t]),
                               !.uuids = @ + 1]
  IN [known EXCEPT !.roles[Acct(known, t).role] = @ \cup ix.roles[acct.role]]

(* What a function returned, as an account: `from` is the one it got. *)
Returned(ix, from, r) ==
  [tempId |-> IF r.tempId = Null /\ r.spread THEN from.tempId ELSE r.tempId,
   addr |-> r.addr, keyId |-> r.keyId, sequenceNum |-> r.sequenceNum,
   signature |-> Null, resolve |-> r.resolve,
   role |-> IF r.role = Null THEN from.role ELSE Len(ix.roles)]
WithRole(ix, r) == IF r.role = Null THEN ix ELSE [ix EXCEPT !.roles = Append(@, r.role)]

(* resolveSingleAccount: the interaction with the accounts that were       *)
(* returned, and their ids.  An account that is no function, and one that  *)
(* was resolved before (a cache hit), gives nothing new.  The account is   *)
(* then added itself, under the id it has and with the roles it has: that  *)
(* changes nothing, but for a function a program gives with an address and *)
(* a key, which CallsAssumption (Interact) rules out.                      *)
Join(from, was, r) ==
  LET ix0  == WithRole(was.ix, r)
      acct == Returned(ix0, from, r)
  IN [ix |-> addAccountToIx(ix0, acct), ids |-> Append(was.ids, TempId(ix0, acct))]
Joined(ix, from) ==
  FoldLeft(LAMBDA was, r : Join(from, was, r), [ix |-> ix, ids |-> << >>], from.resolve.returns)

resolveSingleAccount(ix, t) ==
  LET found == Joined(ix, Acct(ix, t))
      accounts == [found.ix.accounts EXCEPT ![Place(found.ix, t)].resolve = Resolved(found.ids)]
  IN IF isFn(Acct(ix, t).resolve)
     THEN [ix  |-> [ix EXCEPT !.accounts = accounts, !.roles = found.ix.roles, !.uuids = found.ix.uuids],
           ids |-> found.ids]
     ELSE [ix |-> ix, ids |-> << >>]

HaveRole(ix, ids, role) == Among(ids, {t \in ToSet(ids) : role \in Role(ix, t)})
(* Mutant: the new ids are added, the old one is kept. *)
InPlaceOfKept(old, ids, new) == ids \o new
InPlaceOf(old, ids, new) ==
  FoldLeft(LAMBDA all, t : all \o (IF t = old THEN new ELSE <<t>>), << >>, ids)

(* replaceRoles: the payers first, then the proposer, then the             *)
(* authorizations.  Two proposers make it throw in between; the caller     *)
(* does not wait for it, so that this error goes unseen.                   *)
replaceRoles(ix, old, new) ==
  LET paid      == [ix EXCEPT !.payer = InPlaceOf(old, @, HaveRole(ix, new, "payer"))]
      proposers == HaveRole(ix, new, "proposer")
      proposed  == IF proposers = << >> THEN paid
                   ELSE [paid EXCEPT !.proposer = Head(proposers)]
  IN IF Len(proposers) > 1 THEN paid
     ELSE [proposed EXCEPT
             !.authorizations = InPlaceOf(old, @, HaveRole(ix, new, "authorizer"))]

(* One account of a level: resolved, and its place in the roles given to   *)
(* what it resolved to.                                                    *)
ResolveOne(ix, t) ==
  LET found == resolveSingleAccount(ix, t)
      new   == Unique(found.ids)
  IN [ix  |-> IF isFn(Acct(ix, t).resolve) THEN replaceRoles(found.ix, t, new) ELSE ix,
      new |-> new]

(* The end of a level: all payers must have the address of the first that  *)
(* has one, written the same way; one without an address after it has not. *)
PayersAgree(ix) ==
  LET addr(i)   == Acct(ix, ix.payer[i]).addr
      known(i)  == \E j \in 1 .. i - 1 : addr(j) # Null
      first(i)  == CHOOSE j \in 1 .. i - 1 :
                     addr(j) # Null /\ \A k \in 1 .. j - 1 : addr(k) = Null
  IN \A i \in DOMAIN ix.payer : known(i) => addr(i) = addr(first(i))

Proposers(ix) == IF ix.proposer = Null THEN << >> ELSE <<ix.proposer>>

(* The ids of the first level. *)
Frontier(ix) == Unique(ix.payer \o Proposers(ix) \o ix.authorizations)

removeUnusedIxAccounts(ix) ==
  LET used == ToSet(ix.payer \o Proposers(ix) \o ix.authorizations)
  IN [ix EXCEPT !.accounts = Among(@, {a \in ToSet(@) : a.tempId \in used})]

RolesTaken(ix) == ix.payer # << >> /\ ix.proposer # Null
=============================================================================
