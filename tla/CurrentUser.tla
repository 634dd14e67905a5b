---------------------------- MODULE CurrentUser ----------------------------
(***************************************************************************)
(* fcl.currentUser: the session actor, what it keeps in storage, and the   *)
(* calls of authenticate, unauthenticate, snapshot and subscribe           *)
(* (packages/fcl-core/src/current-user/index.js on util-actor).            *)
(*                                                                         *)
(* A step is the synchronous part of a handler or call between two awaits. *)
(* The web's storage, the configuration and the mailboxes are awaited in   *)
(* microtasks; the answer of a wallet or of the program's account proof    *)
(* resolver, the clock and a reload of the page come in macrotasks, which  *)
(* start only when no microtask is left.  A reload loses everything but    *)
(* the storage.                                                            *)
(***************************************************************************)
EXTENDS Integers, Sequences

CONSTANTS
  Call,         \* the calls of authenticate and snapshot a page may make
  Sub,          \* the subscriptions a page may open
  Kinds,        \* the sessions a wallet grants: [refreshable, expiresAt]
  InitStored,   \* what an earlier visit left in storage
  Nothing,      \* an empty storage
  Outdated,     \* a stored user of another f_vsn
  NoOne,        \* not a call or subscription: the sender of a letter nobody answers
  MaxLogouts,   \* bound: calls of unauthenticate
  MaxReloads,   \* bound: reloads of the page
  MaxTime       \* bound: the clock

ASSUME ConstantsAssumption ==
  /\ Kinds \subseteq [refreshable : BOOLEAN, expiresAt : Nat]
  /\ InitStored \subseteq [grant : {0, 1}, refreshable : BOOLEAN, expiresAt : Nat]
                           \cup {Nothing, Outdated}
  /\ {Nothing, Outdated} \cap [grant : Nat, refreshable : BOOLEAN, expiresAt : Nat] = {}
  /\ MaxLogouts \in Nat /\ MaxReloads \in Nat /\ MaxTime \in Nat

VARIABLES
  canStore,   \* the provider's `can`: FALSE on a server
  stored,     \* the user in storage
  actor,      \* CURRENT_USER: absent, spawned, loading, ready, storing, dead
  user,       \* the user it holds
  inbox,      \* its mailbox
  subs,       \* the subscribers it broadcasts to
  stage,      \* each subscriber: idle, spawned, waiting, ended, crashed
  mailbox,    \* its mailbox
  told,       \* what its callback was last called with
  pc,         \* where each call is
  held,       \* the user each call holds: its snapshot, then its result
  granted,    \* the session each call was granted, 0 for none
  now,        \* Date.now()
  loadedAt,   \* when this page loaded its user
  earlier,    \* the sessions granted by then
  grants,     \* sessions granted so far
  revoked,    \* sessions granted before the last unauthenticate()
  logouts, reloads

actorVars == <<actor, user, inbox, subs>>
subVars   == <<stage, mailbox, told>>
callVars  == <<pc, held, granted>>
pageVars  == <<actorVars, subVars, callVars, loadedAt, earlier>>
vars      == <<canStore, stored, pageVars, now, grants, revoked, logouts, reloads>>

\* DATA, and a session: its number stands for address, services and the rest.
DATA == [grant |-> 0, refreshable |-> FALSE, expiresAt |-> 0]
Session(n, kind) == [grant |-> n, refreshable |-> kind.refreshable, expiresAt |-> kind.expiresAt]
loggedIn(u) == u.grant > 0

User   == [grant : Nat, refreshable : BOOLEAN, expiresAt : Nat]
Tags   == {"SUBSCRIBE", "UNSUBSCRIBE", "SNAPSHOT", "SET_CURRENT_USER", "DEL_CURRENT_USER"}
Letter == [tag : Tags, from : Call \cup Sub \cup {NoOne}, data : User]

TypeOK ==
  /\ canStore \in BOOLEAN
  /\ stored   \in User \cup {Nothing, Outdated}
  /\ actor    \in {"absent", "spawned", "loading", "ready", "storing", "dead"}
  /\ user     \in User
  /\ inbox    \in Seq(Letter)
  /\ subs     \subseteq Sub
  /\ stage    \in [Sub -> {"idle", "spawned", "waiting", "ended", "crashed"}]
  /\ mailbox  \in [Sub -> Seq(User \cup {Nothing})]
  /\ told     \in [Sub -> User \cup {Nothing}]
  /\ pc       \in [Call -> {"idle", "asking", "asked", "refreshing", "proving", "atWallet",
                            "closing", "resolved", "rejected"}]
  /\ held     \in [Call -> User]
  /\ granted  \in [Call -> Nat]
  /\ now \in Nat /\ loadedAt \in Nat /\ grants \in Nat /\ revoked \in 0 .. grants
  /\ earlier \in 0 .. grants
  /\ logouts \in 0 .. MaxLogouts /\ reloads \in 0 .. MaxReloads

\* A page that has just been loaded: nothing of FCL runs yet.
FreshPage ==
  /\ actor'   = "absent"
  /\ user'    = DATA
  /\ inbox'   = << >>
  /\ subs'    = {}
  /\ stage'   = [s \in Sub |-> "idle"]
  /\ mailbox' = [s \in Sub |-> << >>]
  /\ told'    = [s \in Sub |-> Nothing]
  /\ pc'      = [c \in Call |-> "idle"]
  /\ held'    = [c \in Call |-> DATA]
  /\ granted' = [c \in Call |-> 0]

Init ==
  /\ canStore \in BOOLEAN
  /\ stored   \in IF canStore THEN InitStored ELSE {Nothing}
  /\ actor    = "absent"
  /\ user     = DATA
  /\ inbox    = << >>
  /\ subs     = {}
  /\ stage    = [s \in Sub |-> "idle"]
  /\ mailbox  = [s \in Sub |-> << >>]
  /\ told     = [s \in Sub |-> Nothing]
  /\ pc       = [c \in Call |-> "idle"]
  /\ held     = [c \in Call |-> DATA]
  /\ granted  = [c \in Call |-> 0]
  /\ now = 0 /\ loadedAt = 0 /\ earlier = 0 /\ revoked = 0 /\ logouts = 0 /\ reloads = 0
  /\ grants = 1     \* the session an earlier visit left is number 1

-----------------------------------------------------------------------------
(* Letters.  The EXIT of a subscriber is Nothing in its mailbox.            *)

Mail(tag, from)  == [tag |-> tag, from |-> from, data |-> DATA]
SetTo(u)         == [tag |-> "SET_CURRENT_USER", from |-> NoOne, data |-> u]
Post(letters)    == inbox' = inbox \o letters

\* Letters reach subscribers that are registered; the others drop them.
Tell(to, u) ==
  mailbox' = [s \in Sub |-> IF s \in to /\ stage[s] \in {"spawned", "waiting", "crashed"}
                              THEN Append(mailbox[s], u) ELSE mailbox[s]]

spawnCurrentUser == actor' = IF actor = "absent" THEN "spawned" ELSE actor

ActorRunnable == \/ actor \in {"spawned", "loading", "storing"}
                 \/ actor = "ready" /\ inbox # << >>
SubRunnable(s) == stage[s] = "spawned" \/ (stage[s] = "waiting" /\ mailbox[s] # << >>)

MicrotasksDrained ==
  /\ ~ ActorRunnable
  /\ \A s \in Sub : ~ SubRunnable(s)
  /\ \A c \in Call : pc[c] # "asked"

-----------------------------------------------------------------------------
(* The session actor.                                                       *)

\* Mutant of notExpired: a session is good at the moment it expires.
notExpiredYet(u) == u.expiresAt = 0 \/ u.expiresAt >= now

notExpired(u) == u.expiresAt = 0 \/ u.expiresAt > now

\* INIT, up to the await of the storage.
ActorStarts ==
  /\ actor = "spawned"
  /\ user'  = DATA
  /\ actor' = "loading"
  /\ UNCHANGED <<canStore, stored, inbox, subs, subVars, callVars,
                 now, loadedAt, earlier, grants, revoked, logouts, reloads>>

\* INIT, getStoredUser: no storage provider has the removeItem it calls for a
\* user of another version; the TypeError ends the function of the actor, which
\* stays registered.
ActorLoads ==
  /\ actor = "loading"
  /\ loadedAt' = now
  /\ earlier'  = grants
  /\ user'  = IF canStore /\ stored \notin {Nothing, Outdated} /\ notExpired(stored)
                THEN stored ELSE user
  /\ actor' = IF canStore /\ stored = Outdated THEN "dead" ELSE "ready"
  /\ UNCHANGED <<canStore, stored, inbox, subs, subVars, callVars,
                 now, grants, revoked, logouts, reloads>>

\* The letter of this tag is the next the actor takes.
Takes(tag) ==
  /\ actor = "ready" /\ inbox # << >> /\ Head(inbox).tag = tag
  /\ inbox' = Tail(inbox)
  /\ UNCHANGED <<canStore, stored, now, loadedAt, earlier, grants, revoked, logouts, reloads>>

ActorSubscribes ==
  /\ Takes("SUBSCRIBE")
  /\ subs' = subs \cup {Head(inbox).from}
  /\ Tell({Head(inbox).from}, user)
  /\ UNCHANGED <<actor, user, stage, told, callVars>>

ActorUnsubscribes ==
  /\ Takes("UNSUBSCRIBE")
  /\ subs' = subs \ {Head(inbox).from}
  /\ UNCHANGED <<actor, user, subVars, callVars>>

\* A reply continues the call that waits for it.
ActorReplies ==
  /\ Takes("SNAPSHOT")
  /\ LET c == Head(inbox).from IN
       /\ held' = [held EXCEPT ![c] = user]
       /\ pc'   = [pc EXCEPT ![c] = IF @ = "asking" THEN "asked" ELSE "resolved"]
  /\ UNCHANGED <<actor, user, subs, subVars, granted>>

\* Mutant of ActorSets: the subscribers are told before the user is stored.
ActorSetsAndTells ==
  /\ Takes("SET_CURRENT_USER")
  /\ user'  = Head(inbox).data
  /\ actor' = "storing"
  /\ Tell(subs, user')
  /\ UNCHANGED <<subs, stage, told, callVars>>

\* SET_CURRENT_USER and DEL_CURRENT_USER, up to the await of the storage.
ActorSets ==
  /\ Takes("SET_CURRENT_USER")
  /\ user'  = Head(inbox).data
  /\ actor' = "storing"
  /\ UNCHANGED <<subs, subVars, callVars>>

\* Mutant of ActorDeletes: the user in storage is left.
ActorDeletesUnstored ==
  /\ Takes("DEL_CURRENT_USER")
  /\ user' = DATA
  /\ Tell(subs, DATA)
  /\ UNCHANGED <<actor, subs, stage, told, callVars>>

ActorDeletes ==
  /\ Takes("DEL_CURRENT_USER")
  /\ user'  = DATA
  /\ actor' = "storing"
  /\ UNCHANGED <<subs, subVars, callVars>>

\* The rest of both: put, then broadcast.
ActorStores ==
  /\ actor = "storing"
  /\ stored' = IF canStore THEN user ELSE stored
  /\ Tell(subs, user)
  /\ actor' = "ready"
  /\ UNCHANGED <<canStore, user, inbox, subs, stage, told, callVars,
                 now, loadedAt, earlier, grants, revoked, logouts, reloads>>

Actor == \/ ActorStarts \/ ActorLoads
         \/ ActorSubscribes \/ ActorUnsubscribes \/ ActorReplies
         \/ ActorSets \/ ActorDeletes \/ ActorStores

-----------------------------------------------------------------------------
(* Subscriptions.                                                           *)

Subscribe(s) ==
  /\ stage[s] = "idle"
  /\ spawnCurrentUser
  /\ stage' = [stage EXCEPT ![s] = "spawned"]
  /\ UNCHANGED <<canStore, stored, user, inbox, subs, mailbox, told, callVars,
                 now, loadedAt, earlier, grants, revoked, logouts, reloads>>

SubStarts(s) ==
  /\ stage[s] = "spawned"
  /\ stage' = [stage EXCEPT ![s] = "waiting"]
  /\ Post(<<Mail("SUBSCRIBE", s)>>)
  /\ UNCHANGED <<canStore, stored, actor, user, subs, mailbox, told, callVars,
                 now, loadedAt, earlier, grants, revoked, logouts, reloads>>

\* The function subscribe returned.
Unsubscribe(s) ==
  /\ stage[s] \in {"spawned", "waiting"}
  /\ \A i \in 1 .. Len(mailbox[s]) : mailbox[s][i] # Nothing   \* called once
  /\ Tell({s}, Nothing)
  /\ UNCHANGED <<canStore, stored, actorVars, stage, told, callVars,
                 now, loadedAt, earlier, grants, revoked, logouts, reloads>>

\* A callback that throws leaves the subscriber registered, and subscribed.
SubCalls(s) ==
  /\ stage[s] = "waiting" /\ mailbox[s] # << >> /\ Head(mailbox[s]) # Nothing
  /\ told'    = [told EXCEPT ![s] = Head(mailbox[s])]
  /\ mailbox' = [mailbox EXCEPT ![s] = Tail(@)]
  /\ stage'  \in {stage, [stage EXCEPT ![s] = "crashed"]}
  /\ UNCHANGED <<canStore, stored, actorVars, callVars,
                 now, loadedAt, earlier, grants, revoked, logouts, reloads>>

SubExits(s) ==
  /\ stage[s] = "waiting" /\ mailbox[s] # << >> /\ Head(mailbox[s]) = Nothing
  /\ stage'   = [stage EXCEPT ![s] = "ended"]
  /\ mailbox' = [mailbox EXCEPT ![s] = << >>]
  /\ Post(<<Mail("UNSUBSCRIBE", s)>>)
  /\ UNCHANGED <<canStore, stored, actor, user, subs, told, callVars,
                 now, loadedAt, earlier, grants, revoked, logouts, reloads>>

-----------------------------------------------------------------------------
(* authenticate, unauthenticate and snapshot.                               *)

\* The parts of a call that post letters and change nothing else of the page.
Asks(c, from, to, letters) ==
  /\ pc[c] = from
  /\ pc' = [pc EXCEPT ![c] = to]
  /\ Post(letters)
  /\ UNCHANGED <<canStore, stored, user, subs, subVars, held, now, loadedAt, earlier, revoked,
                 logouts, reloads>>

\* authenticate() up to its snapshot; a snapshot() is only its last one.
Authenticate(c) ==
  /\ Asks(c, "idle", "asking", <<Mail("SNAPSHOT", c)>>)
  /\ spawnCurrentUser
  /\ UNCHANGED <<granted, grants>>

Snapshot(c) ==
  /\ Asks(c, "idle", "closing", <<Mail("SNAPSHOT", c)>>)
  /\ spawnCurrentUser
  /\ UNCHANGED <<granted, grants>>

\* The branches on the user of the snapshot.
Decides(c) ==
  /\ pc[c] = "asked"
  /\ pc' = [pc EXCEPT ![c] = IF ~ loggedIn(held[c]) THEN "proving"
                             ELSE IF held[c].refreshable THEN "refreshing" ELSE "resolved"]
  /\ UNCHANGED <<canStore, stored, actorVars, subVars, held, granted,
                 now, loadedAt, earlier, grants, revoked, logouts, reloads>>

\* getAccountProofData: the program's resolver answers, or fails the call.
AccountProof(c) ==
  /\ MicrotasksDrained /\ pc[c] = "proving"
  /\ \E next \in {"atWallet", "rejected"} : pc' = [pc EXCEPT ![c] = next]
  /\ UNCHANGED <<canStore, stored, actorVars, subVars, held, granted,
                 now, loadedAt, earlier, grants, revoked, logouts, reloads>>

\* Mutant of WalletGrants: the result is asked for before the user is set.
WalletGrantsLate(c, kind) ==
  /\ MicrotasksDrained
  /\ \E from \in {"refreshing", "atWallet"} :
       Asks(c, from, "closing", <<Mail("SNAPSHOT", c), SetTo(Session(grants + 1, kind))>>)
  /\ grants'  = grants + 1
  /\ granted' = [granted EXCEPT ![c] = grants + 1]
  /\ UNCHANGED actor

\* execService and buildUser succeed, for a login or a refresh: the user is set
\* and the result of the call is asked for in one go.  What the wallet sends is
\* taken, even a session that has expired already.
WalletGrants(c, kind) ==
  /\ MicrotasksDrained
  /\ \E from \in {"refreshing", "atWallet"} :
       Asks(c, from, "closing", <<SetTo(Session(grants + 1, kind)), Mail("SNAPSHOT", c)>>)
  /\ grants'  = grants + 1
  /\ granted' = [granted EXCEPT ![c] = grants + 1]
  /\ UNCHANGED actor

\* Mutant of WalletFails: the call is not finished when the wallet fails.
WalletFailsUnheard(c) ==
  /\ MicrotasksDrained
  /\ \E from \in {"refreshing", "atWallet"} : Asks(c, from, "closing", << >>)
  /\ UNCHANGED <<actor, granted, grants>>

\* The wallet declines, or its answer makes no user: the error is logged.
WalletFails(c) ==
  /\ MicrotasksDrained
  /\ \E from \in {"refreshing", "atWallet"} : Asks(c, from, "closing", <<Mail("SNAPSHOT", c)>>)
  /\ UNCHANGED <<actor, granted, grants>>

Unauthenticate ==
  /\ logouts < MaxLogouts
  /\ spawnCurrentUser
  /\ Post(<<Mail("DEL_CURRENT_USER", NoOne)>>)
  /\ revoked' = grants
  /\ logouts' = logouts + 1
  /\ UNCHANGED <<canStore, stored, user, subs, subVars, callVars,
                 now, loadedAt, earlier, grants, reloads>>

-----------------------------------------------------------------------------
(* The browser.                                                             *)

Reload ==
  /\ MicrotasksDrained /\ reloads < MaxReloads
  /\ FreshPage
  /\ reloads' = reloads + 1
  /\ UNCHANGED <<canStore, stored, now, loadedAt, earlier, grants, revoked, logouts>>

Tick ==
  /\ MicrotasksDrained /\ now < MaxTime
  /\ now' = now + 1
  /\ UNCHANGED <<canStore, stored, pageVars, grants, revoked, logouts, reloads>>

WalletAnswers(c) == WalletFails(c) \/ \E kind \in Kinds : WalletGrants(c, kind)

Next ==
  \/ Actor
  \/ \E s \in Sub : Subscribe(s) \/ SubStarts(s) \/ Unsubscribe(s) \/ SubCalls(s) \/ SubExits(s)
  \/ \E c \in Call : \/ Authenticate(c) \/ Snapshot(c) \/ Decides(c)
                     \/ AccountProof(c) \/ WalletAnswers(c)
  \/ Unauthenticate
  \/ Reload \/ Tick

Spec == Init /\ [][Next]_vars

-----------------------------------------------------------------------------
(* Properties.                                                              *)

\* A user that is good here: INIT would take it at the time the page was loaded,
\* or a wallet has granted it since.
Good(u) == u.expiresAt = 0 \/ u.expiresAt > loadedAt \/ u.grant > earlier

\* What the storage gives to this page.
Restored == IF stored \in {Nothing, Outdated} THEN DATA
            ELSE IF Good(stored) THEN stored ELSE DATA

\* The user that the letters of q, not all of them read, tell last to a subscriber
\* whose callback was last called with t.
Users(q)          == {i \in 1 .. Len(q) : q[i] # Nothing}
IsLatest(u, q, t) == IF Users(q) = {}
                       THEN u = t
                       ELSE \E i \in Users(q) : u = q[i] /\ \A j \in Users(q) : j <= i

\* Whatever a subscriber is told is in storage by then, so that a reload at any
\* moment shows the user it saw, unless that has expired; and it has been told of
\* every login and logout once the actor rests (SUBSCRIBE, SET_CURRENT_USER, DEL_CURRENT_USER).
ToldIsKept ==
  \A s \in subs : stage[s] # "ended" =>
    /\ canStore => IsLatest(Restored, mailbox[s], told[s])
    /\ actor = "ready" => IsLatest(user, mailbox[s], told[s])

\* A call whose wallet has granted a session resolves with that very session,
\* whatever logins, refreshes and logouts run beside it (authenticate).
LoginResolvesItself ==
  \A c \in Call : pc[c] = "resolved" /\ granted[c] # 0 => held[c].grant = granted[c]

\* unauthenticate() is final for every session granted before it: neither the
\* actor nor the storage holds one again, over reloads and calls under way.
LogoutHolds ==
  MicrotasksDrained =>
    /\ loggedIn(user) => user.grant > revoked
    /\ stored \notin {Nothing, Outdated} /\ loggedIn(stored) => stored.grant > revoked

\* No page works with a session of an earlier page that had expired when this one
\* loaded it, nor does a call of this page hold one (INIT, notExpired).
ExpiredStaysOut ==
  \A u \in {user} \cup {held[c] : c \in Call} :
    actor \in {"ready", "storing"} /\ loggedIn(u) => Good(u)

\* No call is forgotten: when the page rests, a call waits for nothing but the
\* wallet or the program's resolver, so that authenticate and snapshot settle once
\* these have answered (the replies of SNAPSHOT, the finally of authenticate).
CallsAnswered ==
  MicrotasksDrained => \A c \in Call : pc[c] \notin {"asking", "asked", "closing"}
=============================================================================
