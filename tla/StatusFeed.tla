----------------------------- MODULE StatusFeed -----------------------------
(***************************************************************************)
(* What fcl.tx(id) promises the subscribers of one transaction, with no    *)
(* actors, letters, addresses or timers: the status known of it only       *)
(* rises; a callback is told the status known at the moment of the call,   *)
(* so never an older one; it is told at most one error, and nothing after  *)
(* it; and a once* promise settles at the first call that decides it.      *)
(***************************************************************************)
EXTENDS Integers

CONSTANTS Sub, Once, Goal

Empty    == -1
Error    == -3
Uncalled == -4

VARIABLES
  known,    \* the status known of the transaction
  phase,    \* each subscription: unopened, open, closed
  told,     \* what its callback was last called with
  promise   \* the once* promise: none, pending, resolved, rejected

vars == <<known, phase, told, promise>>

Init ==
  /\ known   = Empty
  /\ phase   = [c \in Sub |-> "unopened"]
  /\ told    = [c \in Sub |-> Uncalled]
  /\ promise = [c \in Sub |-> "none"]

\* A poll returns a later status.
Learn ==
  /\ known' \in known + 1 .. 5
  /\ UNCHANGED <<phase, told, promise>>

\* The program waits for a status: the promise exists before anything is told.
Await(c) ==
  /\ phase[c] = "unopened" /\ c \in Once /\ promise[c] = "none"
  /\ promise' = [promise EXCEPT ![c] = "pending"]
  /\ UNCHANGED <<known, phase, told>>

Open(c) ==
  /\ phase[c] = "unopened" /\ (c \in Once => promise[c] = "pending")
  /\ phase' = [phase EXCEPT ![c] = "open"]
  /\ UNCHANGED <<known, told, promise>>

\* The callback may throw, which closes the subscription.
Tell(c) ==
  /\ phase[c] = "open" /\ told[c] # Error
  /\ told' = [told EXCEPT ![c] = known]
  /\ phase' \in {phase, [phase EXCEPT ![c] = "closed"]}
  /\ \/ promise[c] # "pending" /\ UNCHANGED promise
     \/ promise[c] = "pending"
        /\ \/ known < Goal[c]  /\ UNCHANGED promise
           \/ known >= Goal[c] /\ promise' = [promise EXCEPT ![c] = "resolved"]
           \/ known >= 3       /\ promise' = [promise EXCEPT ![c] = "rejected"]
  /\ UNCHANGED known

Fail(c) ==
  /\ phase[c] = "open"
  /\ told'    = [told EXCEPT ![c] = Error]
  /\ phase'   = [phase EXCEPT ![c] = "closed"]
  /\ promise' \in {promise, [promise EXCEPT ![c] = IF @ = "pending" THEN "rejected" ELSE @]}
  /\ UNCHANGED known

Close(c) ==
  /\ phase[c] = "open"
  /\ phase' = [phase EXCEPT ![c] = "closed"]
  /\ UNCHANGED <<known, told, promise>>

Next == Learn \/ \E c \in Sub : Await(c) \/ Open(c) \/ Tell(c) \/ Fail(c) \/ Close(c)

Spec == Init /\ [][Next]_vars
=============================================================================
