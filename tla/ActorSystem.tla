---------------------------- MODULE ActorSystem ----------------------------
(***************************************************************************)
(* The registry and the mailboxes of packages/util-actor, as operators the *)
(* modules of the actors are written with.                                 *)
(*                                                                         *)
(* The code keeps one global table, FCL_REGISTRY: address -> actor.  Here  *)
(* every *incarnation* of an actor has an identity of its own, which the   *)
(* code does not have; an address is only what an incarnation answers to   *)
(* while it is in the table.  A letter to an address therefore goes to the *)
(* incarnation that holds the address when the letter is sent, if there is *)
(* one, and is dropped otherwise.                                          *)
(***************************************************************************)
EXTENDS Integers, Sequences

\* The value of "no address": an incarnation that was never spawned.
NoAddr == -1

\* send, for a letter whose address the incarnations in `holders` hold
\* (at most one does; none if the address is not registered).
send(mailbox, holders, letter) ==
  [c \in DOMAIN mailbox |->
     IF c \in holders THEN Append(mailbox[c], letter) ELSE mailbox[c]]

\* Mutant of parseAddr: the table is not looked up.
parseAddrUnchecked(addr, pid, used) == addr = pid

\* parseAddr(null): the first address from `pid` on that is not in the table.
\* `pid` is left at the address it returns, so that the address is the first
\* candidate again once its actor has been killed.
parseAddr(addr, pid, used) ==
  /\ addr >= pid
  /\ addr \notin used
  /\ \A a \in pid .. (addr - 1) : a \in used

\* The next letter of a mailbox and what is left behind it.
receive(queue) == Head(queue)
rest(queue)    == Tail(queue)
=============================================================================
