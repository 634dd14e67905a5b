------------------------- MODULE CurrentUserProofs -------------------------
(***************************************************************************)
(* Theorems about CurrentUser, for any number of calls, subscriptions,     *)
(* logouts and reloads, and any sessions a wallet grants.                  *)
(***************************************************************************)
EXTENDS CurrentUser, TLAPS

-----------------------------------------------------------------------------
(* Letters and their senders.                                               *)

Sent == {l \in Letter : /\ l.tag = "SNAPSHOT" => l.from \in Call
                        /\ l.tag \in {"SUBSCRIBE", "UNSUBSCRIBE"} => l.from \in Sub}

LEMMA UserTypes ==
  /\ DATA \in User
  /\ \A n \in Nat, kind \in Kinds : Session(n, kind) \in User
  BY ConstantsAssumption DEF DATA, Session, User

LEMMA LetterTypes ==
  /\ \A c \in Call : Mail("SNAPSHOT", c) \in Sent
  /\ \A s \in Sub, tag \in {"SUBSCRIBE", "UNSUBSCRIBE"} : Mail(tag, s) \in Sent
  /\ Mail("DEL_CURRENT_USER", NoOne) \in Sent
  /\ \A u \in User : SetTo(u) \in Sent
  BY UserTypes DEF Sent, Letter, Tags, Mail, SetTo

Typed == TypeOK /\ inbox \in Seq(Sent)

LEMMA PostType ==
  ASSUME inbox \in Seq(Sent), NEW letters \in Seq(Sent), Post(letters)
  PROVE  inbox' \in Seq(Sent)
  BY DEF Post

LEMMA PostOneType ==
  ASSUME inbox \in Seq(Sent), NEW l \in Sent, Post(<<l>>)
  PROVE  inbox' \in Seq(Sent)
<1>1. <<l>> \in Seq(Sent)
  OBVIOUS
<1> QED
  BY <1>1, PostType

LEMMA SentLetters == Seq(Sent) \subseteq Seq(Letter)
<1>1. Sent \subseteq Letter
  BY DEF Sent
<1> QED
  BY <1>1

LEMMA TellType ==
  ASSUME mailbox \in [Sub -> Seq(User \cup {Nothing})], NEW to, NEW u \in User \cup {Nothing},
         Tell(to, u)
  PROVE  mailbox' \in [Sub -> Seq(User \cup {Nothing})]
  BY DEF Tell

LEMMA TakesTyped ==
  ASSUME Typed, NEW tag, Takes(tag)
  PROVE  /\ inbox' \in Seq(Sent)
         /\ Head(inbox) \in Sent /\ Head(inbox).tag = tag /\ Head(inbox).data \in User
  BY DEF Typed, Takes, Sent, Letter

-----------------------------------------------------------------------------
(* Type correctness.                                                        *)

LEMMA InitTyped == Init => Typed
<1> SUFFICES ASSUME Init PROVE Typed
  OBVIOUS
<1>1. stored \in User \cup {Nothing, Outdated}
  BY ConstantsAssumption DEF Init, User
<1>2. << >> \in Seq(Sent) /\ << >> \in Seq(Letter) /\ << >> \in Seq(User \cup {Nothing})
  OBVIOUS
<1> QED
  BY <1>1, <1>2, UserTypes, ConstantsAssumption DEF Init, Typed, TypeOK

LEMMA ActorTyped == ASSUME Typed, Actor PROVE Typed'
<1> USE SentLetters DEF Typed, TypeOK
<1>1. CASE ActorStarts
  BY <1>1, UserTypes DEF ActorStarts, subVars, callVars
<1>2. CASE ActorLoads
  BY <1>2, UserTypes DEF ActorLoads, subVars, callVars
<1>3. CASE ActorSubscribes
  <2>1. Head(inbox).from \in Sub /\ inbox' \in Seq(Sent)
    BY <1>3, TakesTyped DEF ActorSubscribes, Sent
  <2>2. mailbox' \in [Sub -> Seq(User \cup {Nothing})]
    BY <1>3, TellType DEF ActorSubscribes
  <2> QED
    BY <1>3, <2>1, <2>2 DEF ActorSubscribes, Takes, callVars
<1>4. CASE ActorUnsubscribes
  <2>1. inbox' \in Seq(Sent)
    BY <1>4, TakesTyped DEF ActorUnsubscribes
  <2> QED
    BY <1>4, <2>1 DEF ActorUnsubscribes, Takes, subVars, callVars
<1>5. CASE ActorReplies
  <2>1. Head(inbox).from \in Call /\ inbox' \in Seq(Sent)
    BY <1>5, TakesTyped DEF ActorReplies, Sent
  <2> QED
    BY <1>5, <2>1 DEF ActorReplies, Takes, subVars
<1>6. CASE ActorSets
  <2>1. Head(inbox).data \in User /\ inbox' \in Seq(Sent)
    BY <1>6, TakesTyped DEF ActorSets
  <2> QED
    BY <1>6, <2>1 DEF ActorSets, Takes, subVars, callVars
<1>7. CASE ActorDeletes
  <2>1. inbox' \in Seq(Sent)
    BY <1>7, TakesTyped DEF ActorDeletes
  <2> QED
    BY <1>7, <2>1, UserTypes DEF ActorDeletes, Takes, subVars, callVars
<1>8. CASE ActorStores
  <2>1. mailbox' \in [Sub -> Seq(User \cup {Nothing})]
    BY <1>8, TellType DEF ActorStores
  <2> QED
    BY <1>8, <2>1 DEF ActorStores, callVars
<1> QED
  BY <1>1, <1>2, <1>3, <1>4, <1>5, <1>6, <1>7, <1>8 DEF Actor

SubStep(s) == Subscribe(s) \/ SubStarts(s) \/ Unsubscribe(s) \/ SubCalls(s) \/ SubExits(s)

LEMMA SubTyped == ASSUME Typed, NEW s \in Sub, SubStep(s) PROVE Typed'
<1> USE SentLetters DEF Typed, TypeOK
<1>1. CASE Subscribe(s)
  BY <1>1 DEF Subscribe, spawnCurrentUser, callVars
<1>2. CASE SubStarts(s)
  <2>1. Mail("SUBSCRIBE", s) \in Sent /\ Post(<<Mail("SUBSCRIBE", s)>>)
    BY <1>2, LetterTypes DEF SubStarts
  <2>2. inbox' \in Seq(Sent)
    BY <2>1, PostOneType
  <2> QED
    BY <1>2, <2>2 DEF SubStarts, callVars
<1>3. CASE Unsubscribe(s)
  <2>1. mailbox' \in [Sub -> Seq(User \cup {Nothing})]
    BY <1>3, TellType DEF Unsubscribe
  <2> QED
    BY <1>3, <2>1 DEF Unsubscribe, actorVars, callVars
<1>4. CASE SubCalls(s)
  <2>1. /\ Head(mailbox[s]) \in User \cup {Nothing}
        /\ Tail(mailbox[s]) \in Seq(User \cup {Nothing})
    BY <1>4 DEF SubCalls
  <2> QED
    BY <1>4, <2>1 DEF SubCalls, actorVars, callVars
<1>5. CASE SubExits(s)
  <2>1. Mail("UNSUBSCRIBE", s) \in Sent /\ Post(<<Mail("UNSUBSCRIBE", s)>>)
    BY <1>5, LetterTypes DEF SubExits
  <2>2. inbox' \in Seq(Sent)
    BY <2>1, PostOneType
  <2> QED
    BY <1>5, <2>2 DEF SubExits, callVars
<1> QED
  BY <1>1, <1>2, <1>3, <1>4, <1>5 DEF SubStep

CallStep(c) == Authenticate(c) \/ Snapshot(c) \/ Decides(c) \/ AccountProof(c) \/ WalletAnswers(c)

LEMMA AsksTyped ==
  ASSUME Typed, NEW c \in Call, NEW from,
         NEW to \in {"asking", "closing"}, NEW letters \in Seq(Sent),
         Asks(c, from, to, letters),
         actor' \in {"absent", "spawned", "loading", "ready", "storing", "dead"},
         granted' \in [Call -> Nat], grants' \in Nat, grants' >= grants
  PROVE  Typed'
<1>1. inbox' \in Seq(Sent)
  BY PostType DEF Asks, Typed
<1>2. revoked' \in 0 .. grants' /\ earlier' \in 0 .. grants'
  BY DEF Asks, Typed, TypeOK
<1> QED
  BY <1>1, <1>2, SentLetters DEF Typed, TypeOK, Asks, subVars

LEMMA CallTyped == ASSUME Typed, NEW c \in Call, CallStep(c) PROVE Typed'
<1>1. <<Mail("SNAPSHOT", c)>> \in Seq(Sent)
  BY LetterTypes
<1>2. grants \in Nat /\ granted \in [Call -> Nat]
      /\ actor \in {"absent", "spawned", "loading", "ready", "storing", "dead"}
  BY DEF Typed, TypeOK
<1>3. CASE Authenticate(c)
  <2>1. /\ Asks(c, "idle", "asking", <<Mail("SNAPSHOT", c)>>)
        /\ actor' \in {"absent", "spawned", "loading", "ready", "storing", "dead"}
        /\ granted' \in [Call -> Nat] /\ grants' \in Nat /\ grants' >= grants
    BY <1>2, <1>3 DEF Authenticate, spawnCurrentUser
  <2> QED
    BY <1>1, <1>2, <2>1, AsksTyped
<1>4. CASE Snapshot(c)
  <2>1. /\ Asks(c, "idle", "closing", <<Mail("SNAPSHOT", c)>>)
        /\ actor' \in {"absent", "spawned", "loading", "ready", "storing", "dead"}
        /\ granted' \in [Call -> Nat] /\ grants' \in Nat /\ grants' >= grants
    BY <1>2, <1>4 DEF Snapshot, spawnCurrentUser
  <2> QED
    BY <1>1, <1>2, <2>1, AsksTyped
<1>5. CASE Decides(c)
  BY <1>5, SentLetters DEF Typed, TypeOK, Decides, actorVars, subVars
<1>6. CASE AccountProof(c)
  BY <1>6, SentLetters DEF Typed, TypeOK, AccountProof, actorVars, subVars
<1>7. CASE WalletFails(c)
  <2>1. PICK from : Asks(c, from, "closing", <<Mail("SNAPSHOT", c)>>)
    BY <1>7 DEF WalletFails
  <2>2. /\ actor' \in {"absent", "spawned", "loading", "ready", "storing", "dead"}
        /\ granted' \in [Call -> Nat] /\ grants' \in Nat /\ grants' >= grants
    BY <1>2, <1>7 DEF WalletFails
  <2> QED
    BY <1>1, <1>2, <2>1, <2>2, AsksTyped
<1>8. ASSUME NEW kind \in Kinds, WalletGrants(c, kind) PROVE Typed'
  <2>1. grants + 1 \in Nat /\ SetTo(Session(grants + 1, kind)) \in Sent
    BY <1>2, UserTypes, LetterTypes
  <2>2. <<SetTo(Session(grants + 1, kind)), Mail("SNAPSHOT", c)>> \in Seq(Sent)
    BY <2>1, LetterTypes
  <2>3. granted' \in [Call -> Nat] /\ grants' \in Nat /\ grants' >= grants /\ actor' = actor
    BY <1>2, <1>8 DEF WalletGrants
  <2> QED
    BY <1>2, <1>8, <2>2, <2>3, AsksTyped DEF WalletGrants
<1> QED
  BY <1>3, <1>4, <1>5, <1>6, <1>7, <1>8 DEF CallStep, WalletAnswers

LEMMA OutsideTyped == ASSUME Typed, Unauthenticate \/ Reload \/ Tick PROVE Typed'
<1> USE SentLetters DEF Typed, TypeOK
<1>1. CASE Unauthenticate
  <2>1. /\ Mail("DEL_CURRENT_USER", NoOne) \in Sent
        /\ Post(<<Mail("DEL_CURRENT_USER", NoOne)>>)
    BY <1>1, LetterTypes DEF Unauthenticate
  <2>2. inbox' \in Seq(Sent)
    BY <2>1, PostOneType
  <2> QED
    BY <1>1, <2>2, ConstantsAssumption DEF Unauthenticate, spawnCurrentUser, subVars, callVars
<1>2. CASE Reload
  <2>1. << >> \in Seq(Sent) /\ << >> \in Seq(User \cup {Nothing})
    OBVIOUS
  <2> QED
    BY <1>2, <2>1, UserTypes, ConstantsAssumption DEF Reload, FreshPage
<1>3. CASE Tick
  BY <1>3 DEF Tick, pageVars, actorVars, subVars, callVars
<1> QED
  BY <1>1, <1>2, <1>3

LEMMA StepTyped == Typed /\ [Next]_vars => Typed'
<1>1. Typed /\ UNCHANGED vars => Typed'
  BY DEF Typed, TypeOK, vars, pageVars, actorVars, subVars, callVars
<1> QED
  BY <1>1, ActorTyped, SubTyped, CallTyped, OutsideTyped DEF Next, SubStep, CallStep

\* Every variable of the session actor, its storage and its calls keeps its type.
THEOREM TypeCorrect == Spec => []TypeOK
<1>1. Typed => TypeOK
  BY DEF Typed
<1> QED
  BY <1>1, InitTyped, StepTyped, PTL DEF Spec

-----------------------------------------------------------------------------
(* Logouts.  A revoked session is still about in three places: with the     *)
(* actor, in a letter that sets it, and in storage.  For each of them the   *)
(* letter of the logout is on its way behind it, or, for the storage, the   *)
(* actor is about to overwrite it.                                          *)

RevokedBy(u, r)   == 0 < u.grant /\ u.grant <= r
DelAfter(q, i)    == \E j \in 1 .. Len(q) : j > i /\ q[j].tag = "DEL_CURRENT_USER"
SetsCovered(q, r) ==
  \A i \in 1 .. Len(q) :
    q[i].tag = "SET_CURRENT_USER" /\ RevokedBy(q[i].data, r) => DelAfter(q, i)

Rests ==
  /\ actor \in {"absent", "loading", "dead"} => user = DATA
  /\ actor = "absent" => /\ inbox = << >>
                         /\ \A t \in Sub : stage[t] = "idle"
                         /\ \A c \in Call : pc[c] = "idle"
  /\ actor = "dead" => stored = Outdated
  /\ ~ canStore => stored = Nothing

LogoutInv ==
  /\ SetsCovered(inbox, revoked)
  /\ RevokedBy(user, revoked) => DelAfter(inbox, 0)
  /\ stored \in User /\ RevokedBy(stored, revoked) =>
       DelAfter(inbox, 0) \/ actor = "storing"

LEMMA DataNotRevoked == \A r \in Nat : ~ RevokedBy(DATA, r)
  BY DEF DATA, RevokedBy

\* Letters posted behind the others uncover none of them.
LEMMA PostCovers ==
  ASSUME NEW q \in Seq(Sent), NEW letters \in Seq(Sent), NEW r \in Nat,
         SetsCovered(q, r),
         \A k \in 1 .. Len(letters) :
           letters[k].tag = "SET_CURRENT_USER" => ~ RevokedBy(letters[k].data, r)
  PROVE  /\ SetsCovered(q \o letters, r)
         /\ DelAfter(q, 0) => DelAfter(q \o letters, 0)
<1> DEFINE all == q \o letters
<1>1. /\ Len(all) = Len(q) + Len(letters) /\ Len(q) \in Nat /\ Len(letters) \in Nat
      /\ \A i \in 1 .. Len(q) : all[i] = q[i]
      /\ \A i \in Len(q) + 1 .. Len(all) : all[i] = letters[i - Len(q)]
  OBVIOUS
<1> HIDE DEF all
<1>2. ASSUME NEW i \in Nat, DelAfter(q, i) PROVE DelAfter(all, i)
  BY <1>1, <1>2 DEF DelAfter
<1>3. SetsCovered(all, r)
  <2> SUFFICES ASSUME NEW i \in 1 .. Len(all),
                      all[i].tag = "SET_CURRENT_USER", RevokedBy(all[i].data, r)
               PROVE  DelAfter(all, i)
    BY DEF SetsCovered
  <2>1. CASE i \in 1 .. Len(q)
    BY <1>1, <1>2, <2>1 DEF SetsCovered
  <2>2. CASE i \notin 1 .. Len(q)
    <3>1. i \in Len(q) + 1 .. Len(all) /\ i - Len(q) \in 1 .. Len(letters)
      BY <1>1, <2>2
    <3> QED
      BY <1>1, <3>1
  <2> QED
    BY <2>1, <2>2
<1> QED
  BY <1>2, <1>3 DEF all

\* A logout covers every letter before it.
LEMMA LogoutCovers ==
  ASSUME NEW q \in Seq(Sent), NEW l \in Sent, l.tag = "DEL_CURRENT_USER", NEW r \in Nat
  PROVE  /\ SetsCovered(q \o <<l>>, r)
         /\ DelAfter(q \o <<l>>, 0)
<1> DEFINE all == q \o <<l>>
<1>1. Len(all) = Len(q) + 1 /\ Len(q) \in Nat /\ all[Len(q) + 1] = l
  OBVIOUS
<1> HIDE DEF all
<1>2. ASSUME NEW i \in 0 .. Len(q) PROVE DelAfter(all, i)
  BY <1>1 DEF DelAfter
<1>3. SetsCovered(all, r)
  BY <1>1, <1>2 DEF SetsCovered
<1> QED
  BY <1>1, <1>2, <1>3 DEF all

\* What taking a letter leaves covered.
LEMMA TakeCovers ==
  ASSUME NEW q \in Seq(Sent), q # << >>, NEW r \in Nat, SetsCovered(q, r)
  PROVE  /\ SetsCovered(Tail(q), r)
         /\ DelAfter(q, 0) /\ Head(q).tag # "DEL_CURRENT_USER" => DelAfter(Tail(q), 0)
         /\ Head(q).tag = "SET_CURRENT_USER" /\ RevokedBy(Head(q).data, r) =>
              DelAfter(Tail(q), 0)
<1> DEFINE t == Tail(q)
<1>1. /\ Len(q) \in Nat \ {0} /\ Len(t) = Len(q) - 1 /\ Head(q) = q[1]
      /\ \A i \in 1 .. Len(t) : t[i] = q[i + 1]
  OBVIOUS
<1> HIDE DEF t
<1>2. ASSUME NEW i \in Nat, DelAfter(q, i + 1) PROVE DelAfter(t, i)
  <2>1. PICK j \in 1 .. Len(q) : j > i + 1 /\ q[j].tag = "DEL_CURRENT_USER"
    BY <1>2 DEF DelAfter
  <2>2. j - 1 \in 1 .. Len(t) /\ j - 1 > i /\ t[j - 1] = q[j]
    BY <1>1, <2>1
  <2> QED
    BY <2>1, <2>2 DEF DelAfter
<1>3. SetsCovered(t, r)
  <2> SUFFICES ASSUME NEW i \in 1 .. Len(t),
                      t[i].tag = "SET_CURRENT_USER", RevokedBy(t[i].data, r)
               PROVE  DelAfter(t, i)
    BY DEF SetsCovered
  <2>1. i + 1 \in 1 .. Len(q) /\ t[i] = q[i + 1]
    BY <1>1
  <2> QED
    BY <1>2, <2>1 DEF SetsCovered
<1>4. DelAfter(q, 0) /\ Head(q).tag # "DEL_CURRENT_USER" => DelAfter(q, 1)
  BY <1>1 DEF DelAfter
<1>5. Head(q).tag = "SET_CURRENT_USER" /\ RevokedBy(Head(q).data, r) => DelAfter(q, 1)
  BY <1>1 DEF SetsCovered
<1> QED
  BY <1>2, <1>3, <1>4, <1>5 DEF t

\* A step that only posts letters, none of which sets a revoked session.
LEMMA Posted ==
  ASSUME Typed, Rests, LogoutInv, NEW letters \in Seq(Sent), Post(letters),
         \A k \in 1 .. Len(letters) :
           letters[k].tag = "SET_CURRENT_USER" => ~ RevokedBy(letters[k].data, revoked),
         UNCHANGED <<canStore, stored, user, revoked>>,
         (actor' = actor /\ actor # "absent") \/ spawnCurrentUser
  PROVE  Rests' /\ LogoutInv'
<1>1. /\ revoked \in Nat /\ inbox \in Seq(Sent)
      /\ actor \in {"absent", "spawned", "loading", "ready", "storing", "dead"}
  BY DEF Typed, TypeOK
<1>2. /\ SetsCovered(inbox \o letters, revoked)
      /\ DelAfter(inbox, 0) => DelAfter(inbox \o letters, 0)
  BY <1>1, PostCovers DEF LogoutInv
<1>3. LogoutInv'
  BY <1>1, <1>2 DEF LogoutInv, Post, spawnCurrentUser
<1>4. Rests'
  BY <1>1 DEF Rests, spawnCurrentUser
<1> QED
  BY <1>3, <1>4

\* A step that leaves alone all that LogoutInv speaks of.
LEMMA Quiet ==
  ASSUME Rests, LogoutInv, UNCHANGED <<canStore, stored, actor, user, inbox, revoked>>,
         actor = "absent" => UNCHANGED <<stage, pc>>
  PROVE  Rests' /\ LogoutInv'
  BY DEF Rests, LogoutInv

LEMMA InitLogout == Init => Rests /\ LogoutInv
<1> SUFFICES ASSUME Init PROVE Rests /\ LogoutInv
  OBVIOUS
<1>1. stored \in User => ~ RevokedBy(stored, 0)
  BY DEF RevokedBy, User
<1>2. ~ RevokedBy(DATA, 0)
  BY DataNotRevoked
<1>3. SetsCovered(<< >>, 0)
  BY DEF SetsCovered
<1> QED
  BY <1>1, <1>2, <1>3 DEF Init, Rests, LogoutInv

LEMMA ActorLogout == ASSUME Typed, Rests, LogoutInv, Actor PROVE Rests' /\ LogoutInv'
<1>1. /\ revoked \in Nat /\ inbox \in Seq(Sent) /\ user \in User
      /\ stored \in User \cup {Nothing, Outdated} /\ canStore \in BOOLEAN
      /\ Nothing \notin User /\ Outdated \notin User
  BY ConstantsAssumption DEF Typed, TypeOK, User
<1>2. ~ RevokedBy(DATA, revoked)
  BY <1>1, DataNotRevoked
<1>3. CASE ActorStarts
  BY <1>2, <1>3 DEF ActorStarts, Rests, LogoutInv
<1>4. CASE ActorLoads
  BY <1>1, <1>2, <1>4 DEF ActorLoads, Rests, LogoutInv
<1>5. ASSUME NEW tag, Takes(tag)
      PROVE  /\ inbox # << >> /\ Head(inbox).tag = tag /\ inbox' = Tail(inbox)
             /\ actor = "ready" /\ UNCHANGED <<canStore, stored, revoked>>
             /\ SetsCovered(inbox', revoked)
             /\ DelAfter(inbox, 0) /\ tag # "DEL_CURRENT_USER" => DelAfter(inbox', 0)
             /\ tag = "SET_CURRENT_USER" /\ RevokedBy(Head(inbox).data, revoked) =>
                  DelAfter(inbox', 0)
  <2>1. inbox # << >> /\ SetsCovered(inbox, revoked)
    BY <1>5 DEF Takes, LogoutInv
  <2> QED
    BY <1>1, <1>5, <2>1, TakeCovers DEF Takes
<1>6. CASE ActorSubscribes \/ ActorUnsubscribes \/ ActorReplies
  <2>1. PICK tag \in {"SUBSCRIBE", "UNSUBSCRIBE", "SNAPSHOT"} :
          Takes(tag) /\ UNCHANGED <<actor, user>>
    BY <1>6 DEF ActorSubscribes, ActorUnsubscribes, ActorReplies
  <2>2. /\ actor = "ready" /\ UNCHANGED <<canStore, stored, revoked>>
        /\ SetsCovered(inbox', revoked) /\ (DelAfter(inbox, 0) => DelAfter(inbox', 0))
    BY <1>5, <2>1
  <2> QED
    BY <2>1, <2>2 DEF Rests, LogoutInv
<1>7. CASE ActorSets
  <2>1. Takes("SET_CURRENT_USER") /\ user' = Head(inbox).data /\ actor' = "storing"
    BY <1>7 DEF ActorSets
  <2>2. /\ UNCHANGED <<canStore, stored, revoked>> /\ SetsCovered(inbox', revoked)
        /\ RevokedBy(user', revoked) => DelAfter(inbox', 0)
    BY <1>5, <2>1
  <2> QED
    BY <2>1, <2>2 DEF Rests, LogoutInv
<1>8. CASE ActorDeletes
  <2>1. Takes("DEL_CURRENT_USER") /\ user' = DATA /\ actor' = "storing"
    BY <1>8 DEF ActorDeletes
  <2>2. UNCHANGED <<canStore, stored, revoked>> /\ SetsCovered(inbox', revoked)
    BY <1>5, <2>1
  <2> QED
    BY <1>2, <2>1, <2>2 DEF Rests, LogoutInv
<1>9. CASE ActorStores
  BY <1>1, <1>9 DEF ActorStores, Rests, LogoutInv
<1> QED
  BY <1>3, <1>4, <1>6, <1>7, <1>8, <1>9 DEF Actor

LEMMA SubLogout ==
  ASSUME Typed, Rests, LogoutInv, NEW s \in Sub, SubStep(s) PROVE Rests' /\ LogoutInv'
<1>1. stage \in [Sub -> {"idle", "spawned", "waiting", "ended", "crashed"}]
  BY DEF Typed, TypeOK
<1>2. CASE Subscribe(s)
  <2>1. inbox' = inbox /\ UNCHANGED <<canStore, stored, user, revoked>> /\ spawnCurrentUser
    BY <1>2 DEF Subscribe
  <2> QED
    BY <2>1 DEF spawnCurrentUser, Rests, LogoutInv
<1>3. CASE SubStarts(s)
  <2>1. <<Mail("SUBSCRIBE", s)>> \in Seq(Sent)
    BY LetterTypes
  <2>2. \A k \in 1 .. Len(<<Mail("SUBSCRIBE", s)>>) :
          <<Mail("SUBSCRIBE", s)>>[k].tag # "SET_CURRENT_USER"
    BY DEF Mail
  <2>3. /\ Post(<<Mail("SUBSCRIBE", s)>>) /\ UNCHANGED <<canStore, stored, user, revoked>>
        /\ actor' = actor /\ actor # "absent"
    BY <1>1, <1>3 DEF SubStarts, Rests
  <2> QED
    BY <2>1, <2>2, <2>3, Posted
<1>4. CASE Unsubscribe(s)
  <2>1. UNCHANGED <<canStore, stored, actor, user, inbox, revoked>> /\ UNCHANGED <<stage, pc>>
    BY <1>4 DEF Unsubscribe, actorVars, callVars
  <2> QED
    BY <2>1, Quiet
<1>5. CASE SubCalls(s)
  <2>1. UNCHANGED <<canStore, stored, actor, user, inbox, revoked>> /\ actor # "absent"
    BY <1>1, <1>5 DEF SubCalls, actorVars, Rests
  <2> QED
    BY <2>1, Quiet
<1>6. CASE SubExits(s)
  <2>1. <<Mail("UNSUBSCRIBE", s)>> \in Seq(Sent)
    BY LetterTypes
  <2>2. \A k \in 1 .. Len(<<Mail("UNSUBSCRIBE", s)>>) :
          <<Mail("UNSUBSCRIBE", s)>>[k].tag # "SET_CURRENT_USER"
    BY DEF Mail
  <2>3. /\ Post(<<Mail("UNSUBSCRIBE", s)>>) /\ UNCHANGED <<canStore, stored, user, revoked>>
        /\ actor' = actor /\ actor # "absent"
    BY <1>1, <1>6 DEF SubExits, Rests
  <2> QED
    BY <2>1, <2>2, <2>3, Posted
<1> QED
  BY <1>2, <1>3, <1>4, <1>5, <1>6 DEF SubStep

LEMMA CallLogout ==
  ASSUME Typed, Rests, LogoutInv, NEW c \in Call, CallStep(c) PROVE Rests' /\ LogoutInv'
<1> DEFINE ask == <<Mail("SNAPSHOT", c)>>
<1>1. /\ ask \in Seq(Sent)
      /\ \A k \in 1 .. Len(ask) : ask[k].tag # "SET_CURRENT_USER"
  BY LetterTypes DEF Mail
<1> HIDE DEF ask
<1>2. CASE Authenticate(c) \/ Snapshot(c)
  <2>1. /\ Post(ask) /\ UNCHANGED <<canStore, stored, user, revoked>> /\ spawnCurrentUser
    BY <1>2 DEF Authenticate, Snapshot, Asks, ask
  <2> QED
    BY <1>1, <2>1, Posted
<1>3. CASE Decides(c) \/ AccountProof(c)
  <2>1. UNCHANGED <<canStore, stored, actor, user, inbox, revoked>>
    BY <1>3 DEF Decides, AccountProof, actorVars
  <2>2. actor # "absent"
    BY <1>3 DEF Decides, AccountProof, Rests
  <2> QED
    BY <2>1, <2>2, Quiet
<1>4. CASE WalletFails(c)
  <2>1. /\ Post(ask) /\ UNCHANGED <<canStore, stored, user, revoked>>
        /\ actor' = actor /\ actor # "absent"
    BY <1>4 DEF WalletFails, Asks, Rests, ask
  <2> QED
    BY <1>1, <2>1, Posted
<1>5. ASSUME NEW kind \in Kinds, WalletGrants(c, kind) PROVE Rests' /\ LogoutInv'
  <2> DEFINE u   == Session(grants + 1, kind)
             set == <<SetTo(u), Mail("SNAPSHOT", c)>>
  <2>1. grants + 1 \in Nat /\ revoked \in Nat /\ revoked <= grants /\ u \in User
    BY UserTypes DEF Typed, TypeOK
  <2>2. set \in Seq(Sent)
    BY <2>1, LetterTypes
  <2>3. ~ RevokedBy(u, revoked)
    <3>1. u.grant = grants + 1 /\ grants \in Nat
      BY DEF Session, Typed, TypeOK
    <3> HIDE DEF u
    <3> QED
      BY <2>1, <3>1 DEF RevokedBy
  <2>4. \A k \in 1 .. Len(set) :
          set[k].tag = "SET_CURRENT_USER" => ~ RevokedBy(set[k].data, revoked)
    <3>1. Len(set) = 2 /\ set[1] = SetTo(u) /\ set[2] = Mail("SNAPSHOT", c)
      OBVIOUS
    <3>2. set[1].data = u /\ set[2].tag # "SET_CURRENT_USER"
      BY <3>1 DEF SetTo, Mail
    <3>3. \A k \in 1 .. 2 : k = 1 \/ k = 2
      OBVIOUS
    <3> QED
      BY <2>3, <3>1, <3>2, <3>3
  <2>5. /\ Post(set) /\ UNCHANGED <<canStore, stored, user, revoked>>
        /\ actor' = actor /\ actor # "absent"
    BY <1>5 DEF WalletGrants, Asks, Rests
  <2> QED
    BY <2>2, <2>4, <2>5, Posted
<1> QED
  BY <1>2, <1>3, <1>4, <1>5 DEF CallStep, WalletAnswers

LEMMA OutsideLogout ==
  ASSUME Typed, Rests, LogoutInv, Unauthenticate \/ Reload \/ Tick
  PROVE  Rests' /\ LogoutInv'
<1>1. /\ revoked \in Nat /\ grants \in Nat /\ inbox \in Seq(Sent)
      /\ actor \in {"absent", "spawned", "loading", "ready", "storing", "dead"}
      /\ Outdated \notin User
  BY ConstantsAssumption DEF Typed, TypeOK, User
<1>2. CASE Unauthenticate
  <2> DEFINE l == Mail("DEL_CURRENT_USER", NoOne)
  <2>1. l \in Sent /\ l.tag = "DEL_CURRENT_USER"
    BY LetterTypes DEF Mail
  <2>2. inbox' = inbox \o <<l>> /\ spawnCurrentUser /\ UNCHANGED <<canStore, stored, user>>
    BY <1>2 DEF Unauthenticate, Post
  <2>3. revoked' \in Nat
    BY <1>1, <1>2 DEF Unauthenticate
  <2> HIDE DEF l
  <2>4. SetsCovered(inbox', revoked') /\ DelAfter(inbox', 0)
    BY <1>1, <2>1, <2>2, <2>3, LogoutCovers
  <2> QED
    BY <1>1, <2>2, <2>4 DEF spawnCurrentUser, Rests, LogoutInv
<1>3. CASE Reload
  <2>1. /\ actor' = "absent" /\ user' = DATA /\ inbox' = << >>
        /\ stage' = [s \in Sub |-> "idle"] /\ pc' = [c \in Call |-> "idle"]
        /\ UNCHANGED <<canStore, stored, revoked>>
    BY <1>3 DEF Reload, FreshPage
  <2>2. actor \in {"absent", "dead"} \/ (actor = "ready" /\ inbox = << >>)
    BY <1>1, <1>3 DEF Reload, MicrotasksDrained, ActorRunnable
  <2>3. stored \in User => ~ RevokedBy(stored, revoked)
    BY <1>1, <2>2 DEF Rests, LogoutInv, DelAfter
  <2>4. SetsCovered(<< >>, revoked) /\ ~ RevokedBy(DATA, revoked)
    BY <1>1, DataNotRevoked DEF SetsCovered
  <2> QED
    BY <2>1, <2>3, <2>4 DEF Rests, LogoutInv
<1>4. CASE Tick
  <2>1. UNCHANGED <<canStore, stored, actor, user, inbox, revoked, stage, pc>>
    BY <1>4 DEF Tick, pageVars, actorVars, subVars, callVars
  <2> QED
    BY <2>1, Quiet
<1> QED
  BY <1>2, <1>3, <1>4

LEMMA StepLogout == Typed /\ Rests /\ LogoutInv /\ [Next]_vars => Rests' /\ LogoutInv'
<1>1. ASSUME Rests, LogoutInv, UNCHANGED vars PROVE Rests' /\ LogoutInv'
  BY <1>1 DEF Rests, LogoutInv, vars, pageVars, actorVars, subVars, callVars
<1> QED
  BY <1>1, ActorLogout, SubLogout, CallLogout, OutsideLogout DEF Next, SubStep, CallStep

LEMMA LogoutShown == Typed /\ Rests /\ LogoutInv => LogoutHolds
<1> SUFFICES ASSUME Typed, Rests, LogoutInv, MicrotasksDrained
             PROVE  /\ loggedIn(user) => user.grant > revoked
                    /\ stored \notin {Nothing, Outdated} /\ loggedIn(stored) =>
                         stored.grant > revoked
  BY DEF LogoutHolds
<1>1. /\ user \in User /\ stored \in User \cup {Nothing, Outdated} /\ revoked \in Nat
      /\ actor \in {"absent", "spawned", "loading", "ready", "storing", "dead"}
      /\ Outdated \notin User
  BY ConstantsAssumption DEF Typed, TypeOK, User
<1>2. actor \in {"absent", "dead"} \/ (actor = "ready" /\ inbox = << >>)
  BY <1>1 DEF MicrotasksDrained, ActorRunnable
<1>3. ~ RevokedBy(user, revoked)
  BY <1>1, <1>2, DataNotRevoked DEF Rests, LogoutInv, DelAfter
<1>4. stored \in User => ~ RevokedBy(stored, revoked)
  BY <1>1, <1>2 DEF Rests, LogoutInv, DelAfter
<1> QED
  BY <1>1, <1>3, <1>4 DEF RevokedBy, loggedIn, User

\* No session granted before an unauthenticate() comes back, neither with the
\* actor nor in storage, through reloads and any calls under way.
THEOREM LogoutIsFinal == Spec => []LogoutHolds
<1> QED
  BY InitTyped, InitLogout, StepTyped, StepLogout, LogoutShown, PTL DEF Spec

-----------------------------------------------------------------------------
(* The calls: what authenticate and snapshot resolve with, that they are    *)
(* answered, and what subscribers are told.                                 *)

(* Before the actor has its user, and when it has died of the storage,      *)
(* nothing it could answer or pass on is about.                             *)

Unloaded == actor \notin {"ready", "storing"}

Young == Unloaded =>
  /\ user = DATA
  /\ \A c \in Call : held[c] = DATA /\ granted[c] = 0 /\ pc[c] \in {"idle", "asking", "closing"}
  /\ \A i \in 1 .. Len(inbox) : inbox[i].data = DATA

\* A session that is good on this page; and so for all that is with the actor, with
\* a call, or on its way to the actor.
Fits(u) == loggedIn(u) => Good(u)

AllFit ==
  /\ Fits(user)
  /\ \A c \in Call : Fits(held[c])
  /\ \A i \in 1 .. Len(inbox) : Fits(inbox[i].data)

\* The SNAPSHOT of a call that was granted a session comes right behind the
\* letter that sets it.
FollowsItsOwn(q, u, g) ==
  \A i \in 1 .. Len(q), c \in Call :
    q[i].tag = "SNAPSHOT" /\ q[i].from = c /\ g[c] # 0 =>
      \/ i = 1 /\ u.grant = g[c]
      \/ i > 1 /\ q[i - 1].tag = "SET_CURRENT_USER" /\ q[i - 1].data.grant = g[c]

OwnSession ==
  /\ \A c \in Call : granted[c] # 0 => pc[c] \in {"closing", "resolved"}
  /\ LoginResolvesItself
  /\ FollowsItsOwn(inbox, user, granted)

\* A call that waits for the actor has its SNAPSHOT in the mailbox.
HasAsked(q, c) == \E i \in 1 .. Len(q) : q[i].tag = "SNAPSHOT" /\ q[i].from = c
Waiting == \A c \in Call : pc[c] \in {"asking", "closing"} => HasAsked(inbox, c)

CallInv == Young /\ AllFit /\ OwnSession /\ Waiting

LEMMA Types ==
  ASSUME Typed
  PROVE  /\ inbox \in Seq(Sent) /\ user \in User
         /\ actor \in {"absent", "spawned", "loading", "ready", "storing", "dead"}
         /\ pc \in [Call -> {"idle", "asking", "asked", "refreshing", "proving", "atWallet",
                             "closing", "resolved", "rejected"}]
         /\ held \in [Call -> User] /\ granted \in [Call -> Nat]
         /\ now \in Nat /\ loadedAt \in Nat /\ grants \in Nat /\ earlier \in 0 .. grants
  BY DEF Typed, TypeOK

LEMMA DataFits == Fits(DATA)
  BY DEF Fits, Good, DATA, loggedIn

\* Letters of q keep their place when others are posted behind them.
LEMMA Joined ==
  ASSUME NEW q \in Seq(Sent), NEW letters \in Seq(Sent)
  PROVE  /\ Len(q) \in Nat /\ Len(letters) \in Nat /\ Len(q \o letters) = Len(q) + Len(letters)
         /\ \A i \in 1 .. Len(q) : (q \o letters)[i] = q[i]
         /\ \A i \in 1 .. Len(q \o letters) :
              i \in 1 .. Len(q) \/ (/\ i - Len(q) \in 1 .. Len(letters)
                                    /\ (q \o letters)[i] = letters[i - Len(q)])
  OBVIOUS

\* Letters of the tail come one place earlier than they did.
LEMMA Moved ==
  ASSUME NEW q \in Seq(Sent), q # << >>
  PROVE  /\ Len(q) \in Nat \ {0} /\ Len(Tail(q)) = Len(q) - 1 /\ Head(q) = q[1]
         /\ \A i \in 1 .. Len(Tail(q)) : i + 1 \in 1 .. Len(q) /\ Tail(q)[i] = q[i + 1]
  OBVIOUS

-----------------------------------------------------------------------------
(* Steps that post letters.                                                 *)

\* Those of subscriptions and of logouts, which change nothing else here.
LEMMA PostedBeside ==
  ASSUME Typed, CallInv, NEW letters \in Seq(Sent), Post(letters),
         \A k \in 1 .. Len(letters) : letters[k].data = DATA /\ letters[k].tag # "SNAPSHOT",
         UNCHANGED <<user, pc, held, granted, loadedAt, earlier, now>>,
         actor' = actor \/ spawnCurrentUser
  PROVE  CallInv'
<1> DEFINE all == inbox \o letters
<1>1. inbox' = all /\ inbox \in Seq(Sent)
  BY Types DEF Post
<1>2. /\ Len(inbox) \in Nat /\ Len(letters) \in Nat /\ Len(all) = Len(inbox) + Len(letters)
      /\ \A i \in 1 .. Len(inbox) : all[i] = inbox[i]
      /\ \A i \in 1 .. Len(all) :
           i \in 1 .. Len(inbox) \/ (all[i].data = DATA /\ all[i].tag # "SNAPSHOT")
  BY <1>1, Joined
<1> HIDE DEF all
<1>3. Unloaded' => Unloaded
  BY Types DEF Unloaded, spawnCurrentUser
<1>4. Young'
  BY <1>1, <1>2, <1>3 DEF CallInv, Young
<1>5. AllFit'
  BY <1>1, <1>2, DataFits DEF CallInv, AllFit, Fits, Good
<1>6. FollowsItsOwn(all, user, granted)
  BY <1>2 DEF CallInv, OwnSession, FollowsItsOwn
<1>7. OwnSession'
  BY <1>1, <1>6 DEF CallInv, OwnSession, LoginResolvesItself
<1>8. Waiting'
  BY <1>1, <1>2 DEF CallInv, Waiting, HasAsked
<1> QED
  BY <1>4, <1>5, <1>7, <1>8 DEF CallInv

\* The SNAPSHOT of a call that was granted nothing.
LEMMA AskedAlone ==
  ASSUME Typed, CallInv, NEW c \in Call, NEW from, NEW to \in {"asking", "closing"},
         Asks(c, from, to, <<Mail("SNAPSHOT", c)>>),
         granted' = granted, granted[c] = 0, actor' = actor \/ spawnCurrentUser
  PROVE  CallInv'
<1> DEFINE ask == Mail("SNAPSHOT", c)
           all == inbox \o <<ask>>
<1>1. /\ inbox' = all /\ inbox \in Seq(Sent) /\ pc' = [pc EXCEPT ![c] = to]
      /\ UNCHANGED <<user, held, granted, loadedAt, earlier, now>>
  BY Types DEF Asks, Post
<1>2. ask.tag = "SNAPSHOT" /\ ask.from = c /\ ask.data = DATA /\ <<ask>> \in Seq(Sent)
  BY LetterTypes DEF Mail
<1> HIDE DEF ask
<1>3. /\ Len(inbox) \in Nat /\ Len(all) = Len(inbox) + 1
      /\ \A i \in 1 .. Len(inbox) : all[i] = inbox[i]
      /\ \A i \in 1 .. Len(all) : i \in 1 .. Len(inbox) \/ all[i] = ask
      /\ all[Len(inbox) + 1] = ask
  BY <1>1, <1>2, Joined
<1> HIDE DEF all
<1>4. Unloaded' => Unloaded
  BY Types DEF Unloaded, spawnCurrentUser
<1>5. pc \in [Call -> {"idle", "asking", "asked", "refreshing", "proving", "atWallet",
                       "closing", "resolved", "rejected"}]
  BY Types
<1>6. Young'
  BY <1>1, <1>2, <1>3, <1>4, <1>5 DEF CallInv, Young
<1>7. AllFit'
  BY <1>1, <1>2, <1>3, DataFits DEF CallInv, AllFit, Fits, Good
<1>8. FollowsItsOwn(all, user, granted)
  BY <1>2, <1>3 DEF CallInv, OwnSession, FollowsItsOwn
<1>9. OwnSession'
  BY <1>1, <1>5, <1>8 DEF CallInv, OwnSession, LoginResolvesItself
<1>10. Waiting'
  <2>1. HasAsked(all, c) /\ \A d \in Call : HasAsked(inbox, d) => HasAsked(all, d)
    BY <1>2, <1>3 DEF HasAsked
  <2> QED
    BY <1>1, <1>5, <2>1 DEF CallInv, Waiting
<1> QED
  BY <1>6, <1>7, <1>9, <1>10 DEF CallInv

\* The letters of a granted session.  The wallet answers in a macrotask, so that
\* the mailbox was empty.
LEMMA AskedGranted ==
  ASSUME Typed, Rests, CallInv, NEW c \in Call, NEW kind \in Kinds, WalletGrants(c, kind)
  PROVE  CallInv'
<1> DEFINE u == Session(grants + 1, kind)
           all == <<SetTo(u), Mail("SNAPSHOT", c)>>
<1>1. /\ pc[c] \in {"refreshing", "atWallet"} /\ pc' = [pc EXCEPT ![c] = "closing"]
      /\ granted' = [granted EXCEPT ![c] = grants + 1] /\ actor' = actor
      /\ UNCHANGED <<user, held, loadedAt, earlier, now>> /\ inbox' = inbox \o all
      /\ MicrotasksDrained
  BY DEF WalletGrants, Asks, Post
<1>2. ~ Unloaded
  BY <1>1 DEF CallInv, Young
<1>3. actor = "ready" /\ inbox = << >>
  BY <1>1, <1>2 DEF MicrotasksDrained, ActorRunnable, Unloaded
<1>4. u.grant = grants + 1 /\ Fits(u)
  BY Types DEF Session, Fits, Good
<1>5. grants + 1 \in Nat \ {0} /\ u \in User
  BY Types, UserTypes
<1> HIDE DEF u
<1>6. /\ inbox' = all /\ Len(all) = 2
      /\ all[1].tag = "SET_CURRENT_USER" /\ all[1].data = u
      /\ all[2].tag = "SNAPSHOT" /\ all[2].from = c /\ all[2].data = DATA
  BY <1>1, <1>3, <1>5, LetterTypes DEF SetTo, Mail
<1> HIDE DEF all
<1>7. \A i \in 1 .. 2 : i = 1 \/ i = 2
  OBVIOUS
<1>8. /\ pc \in [Call -> {"idle", "asking", "asked", "refreshing", "proving", "atWallet",
                          "closing", "resolved", "rejected"}]
      /\ granted \in [Call -> Nat]
  BY Types
<1>9. Young'
  BY <1>1, <1>2 DEF Young, Unloaded
<1>10. AllFit'
  BY <1>1, <1>4, <1>6, <1>7, DataFits DEF CallInv, AllFit, Fits, Good
<1>11. FollowsItsOwn(all, user, granted')
  BY <1>1, <1>4, <1>6, <1>7, <1>8 DEF FollowsItsOwn
<1>12. OwnSession'
  BY <1>1, <1>6, <1>8, <1>11 DEF CallInv, OwnSession, LoginResolvesItself
<1>13. Waiting'
  <2>1. HasAsked(all, c) /\ \A d \in Call : ~ HasAsked(inbox, d)
    BY <1>3, <1>6 DEF HasAsked
  <2> QED
    BY <1>1, <1>6, <1>8, <2>1 DEF CallInv, Waiting
<1> QED
  BY <1>9, <1>10, <1>12, <1>13 DEF CallInv

-----------------------------------------------------------------------------
(* The actor.                                                               *)

LEMMA InitCalls == Init => CallInv
<1> SUFFICES ASSUME Init PROVE CallInv
  OBVIOUS
<1>1. \A i \in 1 .. Len(inbox) : FALSE
  BY DEF Init
<1>2. Young /\ AllFit
  BY <1>1, DataFits DEF Init, Young, AllFit
<1>3. OwnSession
  BY <1>1 DEF Init, OwnSession, LoginResolvesItself, FollowsItsOwn
<1>4. Waiting
  BY DEF Init, Waiting
<1> QED
  BY <1>2, <1>3, <1>4 DEF CallInv

LEMMA ActorStartsCalls ==
  ASSUME Typed, CallInv, ActorStarts \/ ActorLoads PROVE CallInv'
<1>1. /\ UNCHANGED <<inbox, pc, held, granted, now>>
      /\ Unloaded
  BY DEF ActorStarts, ActorLoads, callVars, Unloaded
<1>2. /\ user = DATA
      /\ \A c \in Call : held[c] = DATA /\ granted[c] = 0 /\ pc[c] \in {"idle", "asking", "closing"}
      /\ \A i \in 1 .. Len(inbox) : inbox[i].data = DATA
  BY <1>1 DEF CallInv, Young
<1>3. Young'
  BY <1>1, <1>2 DEF ActorStarts, ActorLoads, Young, Unloaded
<1>4. AllFit'
  <2>1. Fits(DATA)'
    BY DEF Fits, DATA, loggedIn
  <2>2. Fits(user)'
    BY <1>1, <1>2, <2>1 DEF ActorStarts, ActorLoads, Fits, Good, notExpired
  <2> QED
    BY <1>1, <1>2, <2>1, <2>2 DEF AllFit, Fits, Good
<1>5. OwnSession' /\ Waiting'
  BY <1>1, <1>2
     DEF CallInv, OwnSession, LoginResolvesItself, FollowsItsOwn, Waiting
<1> QED
  BY <1>3, <1>4, <1>5 DEF CallInv

\* A letter is taken, and the actor's user is the one it sets, if it does so.
LEMMA Taken ==
  ASSUME Typed, CallInv, NEW tag, Takes(tag),
         user' = IF tag = "SET_CURRENT_USER" THEN Head(inbox).data
                 ELSE IF tag = "DEL_CURRENT_USER" THEN DATA ELSE user,
         actor' \in {"ready", "storing"}, granted' = granted
  PROVE  /\ Young'
         /\ Fits(user')
         /\ \A i \in 1 .. Len(inbox') : Fits(inbox'[i].data)
         /\ FollowsItsOwn(inbox', user', granted')
         /\ tag = "SNAPSHOT" /\ granted[Head(inbox).from] # 0 =>
              user.grant = granted[Head(inbox).from]
         /\ \A c \in Call : HasAsked(inbox, c) =>
              HasAsked(inbox', c) \/ (tag = "SNAPSHOT" /\ Head(inbox).from = c)
<1>1. inbox \in Seq(Sent) /\ inbox # << >> /\ inbox' = Tail(inbox) /\ Head(inbox).tag = tag
  BY Types DEF Takes
<1> DEFINE t == Tail(inbox)
<1>2. /\ Len(inbox) \in Nat \ {0} /\ Len(t) = Len(inbox) - 1 /\ Head(inbox) = inbox[1]
      /\ \A i \in 1 .. Len(t) : i + 1 \in 1 .. Len(inbox) /\ t[i] = inbox[i + 1]
  BY <1>1, Moved
<1> HIDE DEF t
<1>3. Young'
  BY DEF Young, Unloaded
<1>4. Fits(user')
  BY <1>2, DataFits DEF CallInv, AllFit
<1>5. \A i \in 1 .. Len(t) : Fits(t[i].data)
  BY <1>2 DEF CallInv, AllFit
<1>6. FollowsItsOwn(t, user', granted)
  <2> SUFFICES ASSUME NEW i \in 1 .. Len(t), NEW c \in Call,
                      t[i].tag = "SNAPSHOT", t[i].from = c, granted[c] # 0
               PROVE  \/ i = 1 /\ user'.grant = granted[c]
                      \/ i > 1 /\ t[i - 1].tag = "SET_CURRENT_USER"
                               /\ t[i - 1].data.grant = granted[c]
    BY DEF FollowsItsOwn
  <2>1. i + 1 \in 1 .. Len(inbox) /\ inbox[i + 1] = t[i] /\ i + 1 > 1 /\ (i + 1) - 1 = i
    BY <1>2
  <2>2. inbox[i].tag = "SET_CURRENT_USER" /\ inbox[i].data.grant = granted[c]
    BY <2>1 DEF CallInv, OwnSession, FollowsItsOwn
  <2>3. CASE i = 1
    BY <1>1, <1>2, <2>2, <2>3
  <2>4. CASE i # 1
    <3>1. i - 1 \in 1 .. Len(t) /\ t[i - 1] = inbox[i] /\ i > 1
      BY <1>2, <2>4
    <3> QED
      BY <2>2, <3>1
  <2> QED
    BY <2>3, <2>4
<1>7. ASSUME tag = "SNAPSHOT", granted[Head(inbox).from] # 0
      PROVE  user.grant = granted[Head(inbox).from]
  <2>1. Head(inbox).from \in Call
    BY <1>7, TakesTyped DEF Sent
  <2>2. 1 \in 1 .. Len(inbox) /\ inbox[1].tag = "SNAPSHOT"
    BY <1>1, <1>2, <1>7
  <2> QED
    BY <1>2, <1>7, <2>1, <2>2 DEF CallInv, OwnSession, FollowsItsOwn
<1>8. ASSUME NEW c \in Call, HasAsked(inbox, c)
      PROVE  HasAsked(t, c) \/ (tag = "SNAPSHOT" /\ Head(inbox).from = c)
  <2>1. PICK i \in 1 .. Len(inbox) : inbox[i].tag = "SNAPSHOT" /\ inbox[i].from = c
    BY <1>8 DEF HasAsked
  <2>2. CASE i = 1
    BY <1>1, <1>2, <2>1, <2>2
  <2>3. CASE i # 1
    <3>1. i - 1 \in 1 .. Len(t) /\ t[i - 1] = inbox[i]
      BY <1>2, <2>3
    <3> QED
      BY <2>1, <3>1 DEF HasAsked
  <2> QED
    BY <2>2, <2>3
<1> QED
  BY <1>1, <1>3, <1>4, <1>5, <1>6, <1>7, <1>8 DEF t

LEMMA ActorCalls == ASSUME Typed, CallInv, Actor PROVE CallInv'
<1>1. CASE ActorStarts \/ ActorLoads
  BY <1>1, ActorStartsCalls
<1>2. CASE ActorSubscribes \/ ActorUnsubscribes \/ ActorSets \/ ActorDeletes
  <2>1. PICK tag \in Tags \ {"SNAPSHOT"} :
          /\ Takes(tag) /\ actor' \in {"ready", "storing"}
          /\ user' = IF tag = "SET_CURRENT_USER" THEN Head(inbox).data
                     ELSE IF tag = "DEL_CURRENT_USER" THEN DATA ELSE user
          /\ UNCHANGED <<pc, held, granted>>
    <3>1. CASE ActorSubscribes
      BY <3>1 DEF ActorSubscribes, Takes, callVars, Tags
    <3>2. CASE ActorUnsubscribes
      BY <3>2 DEF ActorUnsubscribes, Takes, callVars, Tags
    <3>3. CASE ActorSets
      BY <3>3 DEF ActorSets, callVars, Tags
    <3>4. CASE ActorDeletes
      BY <3>4 DEF ActorDeletes, callVars, Tags
    <3> QED
      BY <1>2, <3>1, <3>2, <3>3, <3>4
  <2>2. /\ Young'
        /\ Fits(user')
        /\ \A i \in 1 .. Len(inbox') : Fits(inbox'[i].data)
        /\ FollowsItsOwn(inbox', user', granted')
        /\ \A c \in Call : HasAsked(inbox, c) => HasAsked(inbox', c)
    BY <2>1, Taken
  <2>3. UNCHANGED <<loadedAt, earlier, now>>
    BY <2>1 DEF Takes
  <2>4. AllFit'
    BY <2>1, <2>2, <2>3 DEF CallInv, AllFit, Fits, Good
  <2>5. OwnSession' /\ Waiting'
    BY <2>1, <2>2 DEF CallInv, OwnSession, LoginResolvesItself, Waiting
  <2> QED
    BY <2>2, <2>4, <2>5 DEF CallInv
<1>3. CASE ActorReplies
  <2> DEFINE d == Head(inbox).from
  <2>1. /\ Takes("SNAPSHOT") /\ actor' = actor /\ actor = "ready" /\ UNCHANGED <<user, granted>>
        /\ held' = [held EXCEPT ![d] = user]
        /\ pc' = [pc EXCEPT ![d] = IF @ = "asking" THEN "asked" ELSE "resolved"]
        /\ UNCHANGED <<loadedAt, earlier, now>>
    BY <1>3 DEF ActorReplies, Takes
  <2>2. d \in Call
    BY <2>1, TakesTyped DEF Sent
  <2>3. /\ Young'
        /\ Fits(user')
        /\ \A i \in 1 .. Len(inbox') : Fits(inbox'[i].data)
        /\ FollowsItsOwn(inbox', user', granted')
        /\ granted[d] # 0 => user.grant = granted[d]
        /\ \A c \in Call : HasAsked(inbox, c) => HasAsked(inbox', c) \/ d = c
    BY <2>1, Taken
  <2> HIDE DEF d
  <2>4. held \in [Call -> User] /\ pc \in [Call -> {"idle", "asking", "asked", "refreshing",
                             "proving", "atWallet", "closing", "resolved", "rejected"}]
    BY Types
  <2>5. AllFit'
    BY <2>1, <2>2, <2>3, <2>4 DEF CallInv, AllFit, Fits, Good
  <2>6. OwnSession'
    BY <2>1, <2>2, <2>3, <2>4 DEF CallInv, OwnSession, LoginResolvesItself
  <2>7. Waiting'
    BY <2>1, <2>2, <2>3, <2>4 DEF CallInv, Waiting
  <2> QED
    BY <2>3, <2>5, <2>6, <2>7 DEF CallInv
<1>4. CASE ActorStores
  <2>1. /\ UNCHANGED <<user, inbox, pc, held, granted, now, loadedAt, earlier>> /\ actor' = "ready"
    BY <1>4 DEF ActorStores, callVars
  <2>2. AllFit' /\ Young'
    BY <2>1 DEF CallInv, AllFit, Fits, Good, Young, Unloaded
  <2>3. OwnSession' /\ Waiting'
    BY <2>1 DEF CallInv, OwnSession, LoginResolvesItself, Waiting
  <2> QED
    BY <2>2, <2>3 DEF CallInv
<1> QED
  BY <1>1, <1>2, <1>3, <1>4 DEF Actor

-----------------------------------------------------------------------------
(* The subscriptions, the calls and the browser.                            *)

LEMMA SubCallInv == ASSUME Typed, CallInv, NEW s \in Sub, SubStep(s) PROVE CallInv'
<1> DEFINE Beside(letters) ==
      /\ letters \in Seq(Sent) /\ Post(letters)
      /\ \A k \in 1 .. Len(letters) : letters[k].data = DATA /\ letters[k].tag # "SNAPSHOT"
<1>1. \E letters \in Seq(Sent) : Beside(letters)
  <2>1. CASE inbox' = inbox
    <3>1. Beside(<< >>)
      BY <2>1, Types DEF Post
    <3> QED
      BY <3>1
  <2>2. ASSUME NEW tag \in {"SUBSCRIBE", "UNSUBSCRIBE"}, Post(<<Mail(tag, s)>>)
        PROVE  Beside(<<Mail(tag, s)>>)
    <3>1. <<Mail(tag, s)>> \in Seq(Sent)
      BY LetterTypes
    <3>2. Mail(tag, s).data = DATA /\ Mail(tag, s).tag # "SNAPSHOT"
      BY DEF Mail
    <3> QED
      BY <2>2, <3>1, <3>2
  <2>3. CASE SubStarts(s)
    <3>1. Beside(<<Mail("SUBSCRIBE", s)>>)
      BY <2>2, <2>3 DEF SubStarts
    <3> QED
      BY <3>1
  <2>4. CASE SubExits(s)
    <3>1. Beside(<<Mail("UNSUBSCRIBE", s)>>)
      BY <2>2, <2>4 DEF SubExits
    <3> QED
      BY <3>1
  <2> QED
    BY <2>1, <2>3, <2>4 DEF SubStep, Subscribe, Unsubscribe, SubCalls, actorVars
<1>2. /\ UNCHANGED <<user, pc, held, granted, loadedAt, earlier, now>>
      /\ actor' = actor \/ spawnCurrentUser
  BY DEF SubStep, Subscribe, SubStarts, Unsubscribe, SubCalls, SubExits, actorVars, callVars
<1> QED
  BY <1>1, <1>2, PostedBeside

LEMMA CallCallInv == ASSUME Typed, Rests, CallInv, NEW c \in Call, CallStep(c) PROVE CallInv'
<1>1. CASE Authenticate(c)
  BY <1>1, AskedAlone DEF Authenticate, Asks, CallInv, OwnSession
<1>2. CASE Snapshot(c)
  BY <1>2, AskedAlone DEF Snapshot, Asks, CallInv, OwnSession
<1>3. CASE Decides(c) \/ AccountProof(c)
  <2>1. /\ UNCHANGED <<actor, user, inbox, held, granted, now, loadedAt, earlier>>
        /\ pc[c] \in {"asked", "proving"}
    BY <1>3 DEF Decides, AccountProof, actorVars
  <2>2. PICK next \in {"proving", "refreshing", "resolved", "atWallet", "rejected"} :
          pc' = [pc EXCEPT ![c] = next]
    BY <1>3 DEF Decides, AccountProof
  <2>3. pc \in [Call -> {"idle", "asking", "asked", "refreshing", "proving", "atWallet",
                         "closing", "resolved", "rejected"}]
    BY Types
  <2>4. ~ Unloaded
    BY <2>1 DEF CallInv, Young
  <2>5. Young' /\ AllFit'
    BY <2>1, <2>4 DEF CallInv, AllFit, Fits, Good, Young, Unloaded
  <2>6. OwnSession' /\ Waiting'
    BY <2>1, <2>2, <2>3 DEF CallInv, OwnSession, LoginResolvesItself, Waiting
  <2> QED
    BY <2>5, <2>6 DEF CallInv
<1>4. CASE WalletFails(c)
  <2>1. PICK from \in {"refreshing", "atWallet"} :
          Asks(c, from, "closing", <<Mail("SNAPSHOT", c)>>)
    BY <1>4 DEF WalletFails
  <2>2. granted[c] = 0 /\ granted' = granted /\ actor' = actor
    BY <1>4, <2>1 DEF WalletFails, Asks, CallInv, OwnSession
  <2> QED
    BY <2>1, <2>2, AskedAlone
<1>5. ASSUME NEW kind \in Kinds, WalletGrants(c, kind) PROVE CallInv'
  BY <1>5, AskedGranted
<1> QED
  BY <1>1, <1>2, <1>3, <1>4, <1>5 DEF CallStep, WalletAnswers

LEMMA OutsideCallInv ==
  ASSUME Typed, CallInv, Unauthenticate \/ Reload \/ Tick PROVE CallInv'
<1>1. CASE Unauthenticate
  <2>1. /\ <<Mail("DEL_CURRENT_USER", NoOne)>> \in Seq(Sent)
        /\ Post(<<Mail("DEL_CURRENT_USER", NoOne)>>)
        /\ UNCHANGED <<user, pc, held, granted, loadedAt, earlier, now>> /\ spawnCurrentUser
    BY <1>1, LetterTypes DEF Unauthenticate, callVars
  <2>2. \A k \in 1 .. Len(<<Mail("DEL_CURRENT_USER", NoOne)>>) :
          /\ <<Mail("DEL_CURRENT_USER", NoOne)>>[k].data = DATA
          /\ <<Mail("DEL_CURRENT_USER", NoOne)>>[k].tag # "SNAPSHOT"
    BY DEF Mail
  <2> QED
    BY <2>1, <2>2, PostedBeside
<1>2. CASE Reload
  <2>1. /\ user' = DATA /\ inbox' = << >> /\ UNCHANGED <<loadedAt, earlier, now>>
        /\ pc' = [d \in Call |-> "idle"] /\ held' = [d \in Call |-> DATA]
        /\ granted' = [d \in Call |-> 0]
    BY <1>2 DEF Reload, FreshPage
  <2>2. \A i \in 1 .. Len(inbox') : FALSE
    BY <2>1
  <2>3. Young' /\ AllFit'
    BY <2>1, <2>2, DataFits DEF CallInv, Young, AllFit, Fits, Good
  <2>4. OwnSession' /\ Waiting'
    BY <2>1, <2>2 DEF OwnSession, LoginResolvesItself, FollowsItsOwn, Waiting
  <2> QED
    BY <2>3, <2>4 DEF CallInv
<1>3. CASE Tick
  <2>1. /\ UNCHANGED <<actor, user, inbox, pc, held, granted, loadedAt, earlier>> /\ now' = now + 1
    BY <1>3 DEF Tick, pageVars, actorVars, callVars
  <2>2. AllFit'
    BY <2>1, Types DEF CallInv, AllFit, Fits, Good
  <2>3. Young' /\ OwnSession' /\ Waiting'
    BY <2>1 DEF CallInv, Young, Unloaded, OwnSession, LoginResolvesItself, Waiting
  <2> QED
    BY <2>2, <2>3 DEF CallInv
<1> QED
  BY <1>1, <1>2, <1>3

LEMMA StepCalls == Typed /\ Rests /\ CallInv /\ [Next]_vars => CallInv'
<1>1. ASSUME CallInv, UNCHANGED vars PROVE CallInv'
  <2>1. UNCHANGED <<actor, user, inbox, pc, held, granted, loadedAt, earlier, now>>
    BY <1>1 DEF vars, pageVars, actorVars, callVars
  <2> QED
    BY <1>1, <2>1 DEF CallInv, Young, Unloaded, AllFit, Fits, Good, OwnSession, LoginResolvesItself,
                      Waiting
<1> QED
  BY <1>1, ActorCalls, SubCallInv, CallCallInv, OutsideCallInv DEF Next, SubStep, CallStep

LEMMA CallsInductive == Spec => [](Typed /\ Rests /\ CallInv)
<1>1. Init => Typed /\ Rests /\ LogoutInv /\ CallInv
  BY InitTyped, InitLogout, InitCalls
<1>2. Typed /\ Rests /\ LogoutInv /\ CallInv /\ [Next]_vars =>
        Typed' /\ Rests' /\ LogoutInv' /\ CallInv'
  BY StepTyped, StepLogout, StepCalls
<1> QED
  BY <1>1, <1>2, PTL DEF Spec

-----------------------------------------------------------------------------
(* What follows from it.                                                    *)

\* No page works with a session of an earlier page that had expired when this one
\* loaded it, nor does a call hold one (getStoredUser, notExpired).
THEOREM ExpiredNeverReturns == Spec => []ExpiredStaysOut
<1>1. CallInv => ExpiredStaysOut
  BY DEF CallInv, AllFit, Fits, Good, ExpiredStaysOut
<1> QED
  BY <1>1, CallsInductive, PTL

\* A call whose wallet has granted a session resolves with that session, and
\* with no other call's (authenticate).
THEOREM LoginsResolveThemselves == Spec => []LoginResolvesItself
<1>1. CallInv => LoginResolvesItself
  BY DEF CallInv, OwnSession
<1> QED
  BY <1>1, CallsInductive, PTL

\* The actor dies of nothing but a stored user of another version, which only an
\* earlier visit can have left.
SameVersion == Outdated \notin InitStored \cup {Nothing}

Alive == actor # "dead" /\ stored # Outdated

LEMMA StaysAlive ==
  ASSUME SameVersion PROVE Spec => []Alive
<1>1. Init => Alive
  BY ConstantsAssumption DEF Init, Alive, SameVersion
<1>2. Typed /\ Alive /\ [Next]_vars => Alive'
  <2> SUFFICES ASSUME Typed, Alive, [Next]_vars PROVE Alive'
    OBVIOUS
  <2>1. user # Outdated
    BY ConstantsAssumption, Types DEF User
  <2>2. CASE Actor
    BY <2>1, <2>2 DEF Alive, Actor, ActorStarts, ActorLoads, ActorSubscribes, ActorUnsubscribes,
                      ActorReplies, ActorSets, ActorDeletes, ActorStores, Takes
  <2>3. ASSUME NEW s \in Sub, SubStep(s) PROVE Alive'
    BY <2>3 DEF Alive, SubStep, Subscribe, SubStarts, Unsubscribe, SubCalls, SubExits,
                spawnCurrentUser, actorVars
  <2>4. ASSUME NEW c \in Call, CallStep(c) PROVE Alive'
    BY <2>4 DEF Alive, CallStep, WalletAnswers, Authenticate, Snapshot, Decides, AccountProof,
                WalletFails, WalletGrants, Asks, spawnCurrentUser, actorVars
  <2>5. CASE Unauthenticate \/ Reload \/ Tick
    BY <2>5 DEF Alive, Unauthenticate, Reload, FreshPage, Tick, spawnCurrentUser, pageVars,
                actorVars
  <2>6. CASE UNCHANGED vars
    BY <2>6 DEF Alive, vars, pageVars, actorVars
  <2> QED
    BY <2>2, <2>3, <2>4, <2>5, <2>6 DEF Next, SubStep, CallStep
<1> QED
  BY <1>1, <1>2, InitTyped, StepTyped, PTL DEF Spec

\* Unless storage holds a user of another version, which the actor dies of, a
\* page at rest has answered every call that waits for the actor (SNAPSHOT).
THEOREM CallsAreAnswered == ASSUME SameVersion PROVE Spec => []CallsAnswered
<1>1. Typed /\ Rests /\ CallInv /\ Alive => CallsAnswered
  <2> SUFFICES ASSUME Typed, Rests, CallInv, Alive, MicrotasksDrained, NEW c \in Call
               PROVE  pc[c] \notin {"asking", "asked", "closing"}
    BY DEF CallsAnswered
  <2>1. pc[c] # "asked"
    BY DEF MicrotasksDrained
  <2>2. CASE actor = "absent"
    BY <2>2 DEF Rests
  <2>3. CASE actor # "absent"
    <3>1. inbox = << >>
      BY <2>3, Types DEF MicrotasksDrained, ActorRunnable, Alive
    <3>2. ~ HasAsked(inbox, c)
      BY <3>1 DEF HasAsked
    <3> QED
      BY <2>1, <3>2 DEF CallInv, Waiting
  <2> QED
    BY <2>2, <2>3
<1> QED
  BY <1>1, CallsInductive, StaysAlive, PTL
-----------------------------------------------------------------------------
(* What the subscribers are told.                                           *)

Awake(t) == t \notin {"idle", "spawned"}

\* Only a subscription that has started, with its letter, is subscribed, and
\* none is before the actor has its user.
Opened ==
  /\ Unloaded => subs = {}
  /\ \A s \in subs : Awake(stage[s])
  /\ \A i \in 1 .. Len(inbox) : inbox[i].tag = "SUBSCRIBE" => Awake(stage[inbox[i].from])

\* Every user that is with the actor, or on its way to it, is good on this page.
Lasting ==
  /\ Good(user)
  /\ \A i \in 1 .. Len(inbox) : Good(inbox[i].data)

\* The actor that rests has the user that storage gives.
Kept == canStore /\ actor = "ready" => user = Restored

ToldInv == Opened /\ Lasting /\ Kept /\ ToldIsKept

Note == User \cup {Nothing}

\* Every session there is has been granted: its number is one of the grants.
Grants(u) == u.grant <= grants

Numbered ==
  /\ Grants(user)
  /\ stored \in User => Grants(stored)
  /\ \A i \in 1 .. Len(inbox) : Grants(inbox[i].data)

LEMMA NoteTypes ==
  /\ Nothing \notin User /\ Outdated \notin User /\ DATA \in User /\ Good(DATA)
  /\ \A u \in User : u.expiresAt \in Nat
  BY ConstantsAssumption, UserTypes DEF User, DATA, Good

LEMMA SubTypes ==
  ASSUME Typed
  PROVE  /\ subs \subseteq Sub /\ mailbox \in [Sub -> Seq(Note)] /\ told \in [Sub -> Note]
         /\ stage \in [Sub -> {"idle", "spawned", "waiting", "ended", "crashed"}]
         /\ stored \in User \cup {Nothing, Outdated} /\ canStore \in BOOLEAN
  BY DEF Typed, TypeOK, Note

-----------------------------------------------------------------------------
(* The last user that letters tell.                                         *)

\* An EXIT behind them changes nothing of it.
LEMMA LatestExit ==
  ASSUME NEW q \in Seq(Note), NEW t, NEW u, IsLatest(u, q, t)
  PROVE  IsLatest(u, Append(q, Nothing), t)
<1> DEFINE p == Append(q, Nothing)
<1>1. /\ Len(q) \in Nat /\ Len(p) = Len(q) + 1 /\ p[Len(q) + 1] = Nothing
      /\ \A i \in 1 .. Len(q) : p[i] = q[i]
  BY DEF Note
<1> HIDE DEF p
<1>2. Users(p) = Users(q)
  BY <1>1 DEF Users
<1>3. \A i \in Users(q) : p[i] = q[i]
  BY <1>1 DEF Users
<1>4. IsLatest(u, p, t)
  BY <1>2, <1>3 DEF IsLatest
<1> QED
  BY <1>4 DEF p

\* A user behind them is it.
LEMMA LatestTold ==
  ASSUME NEW q \in Seq(Note), NEW t, NEW u \in User
  PROVE  IsLatest(u, Append(q, u), t)
<1> DEFINE p == Append(q, u)
<1>1. Len(q) \in Nat /\ Len(p) = Len(q) + 1 /\ p[Len(q) + 1] = u
  BY DEF Note
<1> HIDE DEF p
<1>2. Len(p) \in Users(p) /\ \A j \in Users(p) : j <= Len(p)
  BY <1>1, NoteTypes DEF Users
<1>3. IsLatest(u, p, t)
  BY <1>1, <1>2 DEF IsLatest
<1> QED
  BY <1>3 DEF p

\* It stays the same when the first of them is read.
LEMMA LatestRead ==
  ASSUME NEW q \in Seq(Note), q # << >>, Head(q) # Nothing,
         NEW t, NEW u, IsLatest(u, q, t)
  PROVE  IsLatest(u, Tail(q), Head(q))
<1> DEFINE p == Tail(q)
           h == Head(q)
<1>1. /\ Len(q) \in Nat \ {0} /\ Len(p) = Len(q) - 1 /\ h = q[1]
      /\ \A i \in 1 .. Len(p) : p[i] = q[i + 1]
  OBVIOUS
<1>2. h # Nothing
  OBVIOUS
<1> HIDE DEF p, h
<1>3. 1 \in Users(q)
  BY <1>1, <1>2 DEF Users
<1>4. PICK i \in Users(q) : u = q[i] /\ \A j \in Users(q) : j <= i
  BY <1>3 DEF IsLatest
<1>5. i \in 1 .. Len(q) /\ q[i] # Nothing
  BY DEF Users
<1>6. \A j \in Users(p) : j + 1 \in Users(q) /\ j \in Int
  BY <1>1 DEF Users
<1>7. ASSUME i = 1 PROVE IsLatest(u, p, h)
  <2>1. Users(p) = {}
    <3> SUFFICES ASSUME NEW j \in Users(p) PROVE FALSE
      OBVIOUS
    <3>1. j \in 1 .. Len(p) /\ j + 1 <= i
      BY <1>4, <1>6 DEF Users
    <3> QED
      BY <1>1, <1>7, <3>1
  <2> QED
    BY <1>1, <1>4, <1>7, <2>1 DEF IsLatest
<1>8. ASSUME i # 1 PROVE IsLatest(u, p, h)
  <2>1. i - 1 \in 1 .. Len(p) /\ p[i - 1] = q[i]
    BY <1>1, <1>5, <1>8
  <2>2. i - 1 \in Users(p) /\ u = p[i - 1]
    BY <1>4, <1>5, <2>1 DEF Users
  <2>3. \A j \in Users(p) : j <= i - 1
    BY <1>4, <1>5, <1>6
  <2> QED
    BY <2>2, <2>3 DEF IsLatest
<1>9. IsLatest(u, p, h)
  BY <1>7, <1>8
<1> QED
  BY <1>9 DEF p, h

\* What a step of Tell leaves of it.
LEMMA TellMail ==
  ASSUME Typed, NEW to, NEW u, Tell(to, u), NEW s \in Sub
  PROVE  /\ stage[s] \in {"waiting", "crashed"} /\ s \in to => mailbox'[s] = Append(mailbox[s], u)
         /\ mailbox'[s] \in {mailbox[s], Append(mailbox[s], u)}
         /\ s \notin to => mailbox'[s] = mailbox[s]
         /\ mailbox[s] \in Seq(Note)
  BY SubTypes DEF Tell

-----------------------------------------------------------------------------
(* Steps that post letters.                                                 *)

LEMMA PostedTold ==
  ASSUME Typed, Opened, Lasting, NEW letters \in Seq(Sent), Post(letters),
         \A k \in 1 .. Len(letters) :
           /\ Good(letters[k].data)
           /\ letters[k].tag = "SUBSCRIBE" => Awake(stage'[letters[k].from]),
         \A s \in Sub : Awake(stage[s]) => Awake(stage'[s]),
         UNCHANGED <<user, subs, loadedAt, earlier, now>>, actor' = actor \/ spawnCurrentUser
  PROVE  Opened' /\ Lasting'
<1> DEFINE all == inbox \o letters
<1>1. inbox' = all /\ inbox \in Seq(Sent)
  BY Types DEF Post
<1>2. /\ Len(inbox) \in Nat /\ Len(letters) \in Nat /\ Len(all) = Len(inbox) + Len(letters)
      /\ \A i \in 1 .. Len(inbox) : all[i] = inbox[i]
      /\ \A i \in 1 .. Len(all) :
           i \in 1 .. Len(inbox) \/ (/\ i - Len(inbox) \in 1 .. Len(letters)
                                     /\ all[i] = letters[i - Len(inbox)])
  BY <1>1, Joined
<1> HIDE DEF all
<1>3. Unloaded' => Unloaded
  BY Types DEF Unloaded, spawnCurrentUser
<1>4. \A s \in subs' : Awake(stage'[s])
  BY SubTypes DEF Opened
<1>5. ASSUME NEW i \in 1 .. Len(all), all[i].tag = "SUBSCRIBE" PROVE Awake(stage'[all[i].from])
  <2>1. CASE i \in 1 .. Len(inbox)
    <3>1. inbox[i] \in Sent
      BY <1>1, <2>1
    <3>2. inbox[i].from \in Sub /\ all[i] = inbox[i]
      BY <1>2, <1>5, <2>1, <3>1 DEF Sent
    <3>3. inbox[i].tag = "SUBSCRIBE" => Awake(stage[inbox[i].from])
      BY <2>1 DEF Opened
    <3> QED
      BY <1>5, <3>2, <3>3
  <2>2. CASE i \notin 1 .. Len(inbox)
    <3> DEFINE k == i - Len(inbox)
    <3>1. k \in 1 .. Len(letters) /\ all[i] = letters[k]
      BY <1>2, <2>2
    <3> HIDE DEF k
    <3> QED
      BY <1>5, <3>1
  <2> QED
    BY <2>1, <2>2
<1>6. Opened'
  BY <1>1, <1>3, <1>4, <1>5 DEF Opened, Awake
<1>7. Lasting'
  BY <1>1, <1>2 DEF Lasting, Good
<1> QED
  BY <1>6, <1>7

\* A letter is taken, and subscribers may join.
LEMMA TakenTold ==
  ASSUME Typed, Opened, Lasting, NEW tag, Takes(tag),
         user' \in {user, DATA, Head(inbox).data}, actor' \in {"ready", "storing"},
         stage' = stage, subs' \subseteq subs \cup (IF tag = "SUBSCRIBE" THEN {Head(inbox).from} ELSE {})
  PROVE  Opened' /\ Lasting'
<1>1. inbox \in Seq(Sent) /\ inbox # << >> /\ inbox' = Tail(inbox) /\ Head(inbox).tag = tag
  BY Types DEF Takes
<1> DEFINE t == Tail(inbox)
<1>2. /\ Len(inbox) \in Nat \ {0} /\ Len(t) = Len(inbox) - 1 /\ Head(inbox) = inbox[1]
      /\ \A i \in 1 .. Len(t) : i + 1 \in 1 .. Len(inbox) /\ t[i] = inbox[i + 1]
  BY <1>1, Moved
<1> HIDE DEF t
<1>3. 1 \in 1 .. Len(inbox)
  BY <1>2
<1>4. \A s \in subs' : Awake(stage[s])
  BY <1>1, <1>2, <1>3 DEF Opened
<1>5. \A i \in 1 .. Len(t) : /\ Good(t[i].data)
                             /\ t[i].tag = "SUBSCRIBE" => Awake(stage[t[i].from])
  BY <1>2 DEF Opened, Lasting
<1>6. UNCHANGED <<loadedAt, earlier, now>>
  BY DEF Takes
<1>7. Opened'
  BY <1>1, <1>4, <1>5 DEF Opened, Awake, Unloaded, t
<1>8. Good(user')
  BY <1>2, <1>3, NoteTypes DEF Lasting
<1>9. Lasting'
  BY <1>1, <1>5, <1>6, <1>8 DEF Lasting, Good, t
<1> QED
  BY <1>7, <1>9

-----------------------------------------------------------------------------
(* The actor, the subscriptions and the others.                             *)

LEMMA InitTold == Init => ToldInv
<1> SUFFICES ASSUME Init PROVE ToldInv
  OBVIOUS
<1>1. \A i \in 1 .. Len(inbox) : FALSE
  BY DEF Init
<1> QED
  BY <1>1, NoteTypes DEF Init, ToldInv, Opened, Lasting, Kept, ToldIsKept

LEMMA InitNumbered == Init => Numbered
<1> SUFFICES ASSUME Init PROVE Numbered
  OBVIOUS
<1>1. Grants(DATA) /\ (stored \in User => Grants(stored))
  BY ConstantsAssumption DEF Init, Grants, DATA, User
<1>2. \A i \in 1 .. Len(inbox) : FALSE
  BY DEF Init
<1> QED
  BY <1>1, <1>2 DEF Init, Numbered

LEMMA PostsNumbered ==
  ASSUME Typed, Numbered, grants' \in Nat, grants' >= grants, UNCHANGED <<user, stored>>,
         NEW letters \in Seq(Sent), Post(letters),
         \A k \in 1 .. Len(letters) : letters[k].data.grant <= grants'
  PROVE  Numbered'
<1> DEFINE all == inbox \o letters
<1>1. inbox' = all /\ inbox \in Seq(Sent)
  BY Types DEF Post
<1>2. /\ \A i \in 1 .. Len(inbox) : all[i] = inbox[i]
      /\ \A i \in 1 .. Len(all) :
           i \in 1 .. Len(inbox) \/ (/\ i - Len(inbox) \in 1 .. Len(letters)
                                     /\ all[i] = letters[i - Len(inbox)])
  BY <1>1, Joined
<1> HIDE DEF all
<1>3. \A u \in User : Grants(u) => Grants(u)'
  BY Types DEF Grants, User
<1>4. \A i \in 1 .. Len(inbox) : inbox[i].data \in User
  BY <1>1 DEF Sent, Letter
<1> QED
  BY <1>1, <1>2, <1>3, <1>4, Types DEF Numbered, Grants

LEMMA ActorNumbered ==
  ASSUME Typed, Numbered, Actor PROVE Numbered'
<1>1. grants' = grants /\ Grants(DATA) /\ inbox \in Seq(Sent) /\ Nothing \notin User
  BY Types, NoteTypes
     DEF Actor, ActorStarts, ActorLoads, ActorSubscribes, ActorUnsubscribes, ActorReplies,
         ActorSets, ActorDeletes, ActorStores, Takes, Grants, DATA
<1>2. CASE ActorStarts \/ ActorLoads \/ ActorStores
  <2>1. /\ inbox' = inbox /\ user' \in {user, DATA, stored} /\ stored' \in {stored, user}
        /\ user' \in User
    BY <1>2, Types, SubTypes, NoteTypes DEF ActorStarts, ActorLoads, ActorStores
  <2> QED
    BY <1>1, <2>1 DEF Numbered, Grants
<1>3. ASSUME NEW tag, Takes(tag), user' \in {user, DATA, Head(inbox).data} PROVE Numbered'
  <2>1. /\ inbox # << >> /\ inbox' = Tail(inbox) /\ stored' = stored
        /\ Head(inbox) = inbox[1] /\ Len(inbox') = Len(inbox) - 1 /\ Len(inbox) \in Nat \ {0}
        /\ \A i \in 1 .. Len(inbox') : inbox'[i] = inbox[i + 1]
    BY <1>1, <1>3 DEF Takes
  <2>2. Grants(Head(inbox).data)
    BY <2>1 DEF Numbered
  <2>3. \A i \in 1 .. Len(inbox') : Grants(inbox'[i].data)
    BY <2>1 DEF Numbered
  <2> QED
    BY <1>1, <1>3, <2>1, <2>2, <2>3 DEF Numbered, Grants
<1> QED
  BY <1>2, <1>3
     DEF Actor, ActorSubscribes, ActorUnsubscribes, ActorReplies, ActorSets, ActorDeletes

LEMMA CallNumbered ==
  ASSUME Typed, Numbered, NEW c \in Call, CallStep(c) PROVE Numbered'
<1>1. grants \in Nat /\ UNCHANGED <<user, stored>>
  BY Types DEF CallStep, WalletAnswers, Authenticate, Snapshot, Decides, AccountProof, WalletFails,
               WalletGrants, Asks, actorVars
<1>2. CASE inbox' = inbox /\ grants' = grants
  BY <1>1, <1>2 DEF Numbered, Grants
<1>3. ASSUME Post(<<Mail("SNAPSHOT", c)>>), grants' = grants PROVE Numbered'
  <2> DEFINE l    == Mail("SNAPSHOT", c)
             post == <<l>>
  <2>1. l \in Sent /\ l.data.grant <= grants'
    BY <1>1, <1>3, LetterTypes DEF Mail, DATA
  <2> HIDE DEF l
  <2>2. post \in Seq(Sent) /\ \A k \in 1 .. Len(post) : post[k].data.grant <= grants'
    BY <2>1
  <2>3. Post(post)
    BY <1>3 DEF l
  <2> HIDE DEF post
  <2> QED
    BY <1>1, <1>3, <2>2, <2>3, PostsNumbered
<1>4. ASSUME NEW kind \in Kinds, WalletGrants(c, kind) PROVE Numbered'
  <2> DEFINE k == Mail("SNAPSHOT", c)
             l == SetTo(Session(grants + 1, kind))
             post == <<l, k>>
  <2>1. Post(post) /\ grants' = grants + 1
    BY <1>4 DEF WalletGrants, Asks
  <2>2. k \in Sent /\ k.data.grant = 0
    BY LetterTypes DEF Mail, DATA
  <2>3. l \in Sent /\ l.data.grant = grants + 1
    BY <1>1, UserTypes, LetterTypes DEF SetTo, Session
  <2> HIDE DEF k, l
  <2>4. post \in Seq(Sent) /\ \A i \in 1 .. Len(post) : post[i].data.grant <= grants'
    BY <1>1, <2>1, <2>2, <2>3
  <2> HIDE DEF post
  <2> QED
    BY <1>1, <2>1, <2>4, PostsNumbered
<1> QED
  BY <1>2, <1>3, <1>4
     DEF CallStep, WalletAnswers, Authenticate, Snapshot, Decides, AccountProof, WalletFails, Asks,
         actorVars

LEMMA StepNumbered == Typed /\ Numbered /\ [Next]_vars => Numbered'
<1> SUFFICES ASSUME Typed, Numbered, [Next]_vars PROVE Numbered'
  OBVIOUS
<1>1. ASSUME UNCHANGED <<user, stored, inbox, grants>> PROVE Numbered'
  BY <1>1 DEF Numbered, Grants
<1>2. ASSUME NEW l \in Sent, l.data = DATA, Post(<<l>>), UNCHANGED <<user, stored, grants>>
      PROVE  Numbered'
  <2> DEFINE post == <<l>>
  <2>1. l.data.grant <= grants' /\ grants \in Nat
    BY <1>2, Types DEF DATA
  <2>2. /\ Post(post) /\ post \in Seq(Sent)
        /\ \A k \in 1 .. Len(post) : post[k].data.grant <= grants'
    BY <1>2, <2>1
  <2> HIDE DEF post
  <2> QED
    BY <1>2, <2>1, <2>2, PostsNumbered
<1>3. ASSUME NEW s \in Sub, SubStep(s) PROVE Numbered'
  <2>1. CASE SubStarts(s)
    BY <1>2, <2>1, LetterTypes DEF SubStarts, Mail
  <2>2. CASE SubExits(s)
    BY <1>2, <2>2, LetterTypes DEF SubExits, Mail
  <2> QED
    BY <1>1, <1>3, <2>1, <2>2 DEF SubStep, Subscribe, Unsubscribe, SubCalls, actorVars
<1>4. CASE Unauthenticate
  BY <1>2, <1>4, LetterTypes DEF Unauthenticate, Mail
<1>5. CASE Reload
  <2>1. user' = DATA /\ inbox' = << >> /\ UNCHANGED <<stored, grants>>
    BY <1>5 DEF Reload, FreshPage
  <2> QED
    BY <2>1, Types DEF Numbered, Grants, DATA
<1>6. CASE Tick \/ UNCHANGED vars
  BY <1>1, <1>6 DEF Tick, vars, pageVars, actorVars
<1> QED
  BY <1>3, <1>4, <1>5, <1>6, ActorNumbered, CallNumbered DEF Next, SubStep, CallStep

LEMMA ActorStartsTold == ASSUME Typed, CallInv, ToldInv, ActorStarts PROVE ToldInv'
<1>1. /\ UNCHANGED <<inbox, subs, stage, now, loadedAt, earlier>> /\ user' = DATA
      /\ Unloaded /\ Unloaded' /\ actor' = "loading"
  BY DEF ActorStarts, subVars, Unloaded
<1>2. Opened' /\ subs' = {}
  BY <1>1 DEF ToldInv, Opened, Awake
<1>3. Lasting'
  BY <1>1, NoteTypes DEF ToldInv, Lasting, Good
<1> QED
  BY <1>1, <1>2, <1>3 DEF ToldInv, Kept, ToldIsKept

LEMMA ActorLoadsTold ==
  ASSUME Typed, CallInv, Numbered, ToldInv, ActorLoads PROVE ToldInv'
<1>1. /\ UNCHANGED <<inbox, subs, stage, now, stored, canStore>> /\ Unloaded /\ loadedAt' = now
  BY DEF ActorLoads, subVars, Unloaded
<1>2. /\ user = DATA /\ subs = {}
      /\ \A i \in 1 .. Len(inbox) : inbox[i].data = DATA
  BY <1>1 DEF CallInv, Young, ToldInv, Opened
<1>3. Good(DATA)' /\ now \in Nat
  BY Types DEF Good, DATA
<1>4. Opened'
  BY <1>1, <1>2 DEF ToldInv, Opened, Awake
<1>5. Good(user)'
  BY <1>1, <1>2, <1>3 DEF ActorLoads, Good, notExpired
<1>6. Lasting'
  BY <1>1, <1>2, <1>3, <1>5 DEF Lasting, Good
<1>7. Kept'
  <2>1. stored \in User => /\ earlier' = grants /\ stored.grant \in Nat /\ grants \in Nat
                           /\ stored.grant <= grants
    BY Types DEF ActorLoads, Numbered, Grants, User
  <2>2. stored \in User => (Good(stored)' <=> notExpired(stored))
    BY <1>1, <2>1 DEF Good, notExpired
  <2>3. stored \in User \cup {Nothing, Outdated}
    BY SubTypes
  <2> QED
    BY <1>1, <1>2, <2>2, <2>3 DEF ActorLoads, Kept, Restored
<1> QED
  BY <1>1, <1>2, <1>4, <1>6, <1>7 DEF ToldInv, ToldIsKept

LEMMA ActorSubscribesTold == ASSUME Typed, ToldInv, ActorSubscribes PROVE ToldInv'
<1> DEFINE d == Head(inbox).from
<1>1. /\ Takes("SUBSCRIBE") /\ actor' = actor /\ actor = "ready" /\ subs' = subs \cup {d}
      /\ Tell({d}, user) /\ UNCHANGED <<user, stage, told, canStore, stored, loadedAt, earlier>>
  BY DEF ActorSubscribes, Takes
<1>2. d \in Sub
  BY <1>1, TakesTyped DEF Sent
<1>3. Opened' /\ Lasting'
  BY <1>1, TakenTold DEF ToldInv
<1> HIDE DEF d
<1>4. Kept' /\ Restored' = Restored /\ (canStore => user = Restored)
  BY <1>1 DEF ToldInv, Kept, Restored, Good
<1>5. ASSUME NEW s \in subs', stage'[s] # "ended"
      PROVE  IsLatest(user, mailbox'[s], told[s])
  <2>1. s \in Sub /\ stage[s] \in {"waiting", "crashed"}
    BY <1>1, <1>2, <1>3, <1>5, SubTypes DEF Opened, Awake
  <2>2. CASE s = d
    <3>1. mailbox'[s] = Append(mailbox[s], user) /\ mailbox[s] \in Seq(Note) /\ user \in User
      BY <1>1, <2>1, <2>2, TellMail, Types
    <3> QED
      BY <3>1, LatestTold
  <2>3. CASE s # d
    <3>1. mailbox'[s] = mailbox[s] /\ s \in subs
      BY <1>1, <1>5, <2>1, <2>3, TellMail
    <3> QED
      BY <1>1, <1>5, <3>1 DEF ToldInv, ToldIsKept
  <2> QED
    BY <2>2, <2>3
<1>6. ToldIsKept'
  BY <1>1, <1>4, <1>5 DEF ToldIsKept
<1> QED
  BY <1>3, <1>4, <1>6 DEF ToldInv

LEMMA ActorTakesTold ==
  ASSUME Typed, ToldInv, ActorUnsubscribes \/ ActorReplies \/ ActorSets \/ ActorDeletes
  PROVE  ToldInv'
<1>1. PICK tag \in Tags : Takes(tag)
  BY DEF ActorUnsubscribes, ActorReplies, ActorSets, ActorDeletes, Tags
<1>2. /\ user' \in {user, DATA, Head(inbox).data} /\ actor' \in {"ready", "storing"}
      /\ actor' = "ready" => user' = user /\ actor = "ready"
      /\ UNCHANGED <<canStore, stored, loadedAt, earlier, stage, mailbox, told>>
      /\ subs' \subseteq subs
  BY DEF ActorUnsubscribes, ActorReplies, ActorSets, ActorDeletes, Takes, subVars
<1>3. Opened' /\ Lasting'
  BY <1>1, <1>2, TakenTold DEF ToldInv
<1>4. Restored' = Restored
  BY <1>2 DEF Restored, Good
<1> QED
  BY <1>2, <1>3, <1>4 DEF ToldInv, Kept, ToldIsKept

LEMMA ActorStoresTold == ASSUME Typed, ToldInv, ActorStores PROVE ToldInv'
<1>1. /\ UNCHANGED <<canStore, user, inbox, subs, stage, told, now, loadedAt, earlier>>
      /\ stored' = (IF canStore THEN user ELSE stored) /\ Tell(subs, user)
      /\ actor = "storing" /\ actor' = "ready"
  BY DEF ActorStores
<1>2. Opened' /\ Lasting'
  BY <1>1 DEF ToldInv, Opened, Awake, Unloaded, Lasting, Good
<1>3. canStore => user = Restored'
  BY <1>1, Types, NoteTypes DEF ToldInv, Lasting, Good, Restored
<1>4. Kept'
  BY <1>1, <1>3 DEF Kept
<1>5. ASSUME NEW s \in subs, stage[s] # "ended"
      PROVE  IsLatest(user, mailbox'[s], told[s])
  <2>1. s \in Sub /\ stage[s] \in {"waiting", "crashed"}
    BY <1>5, SubTypes DEF ToldInv, Opened, Awake
  <2>2. mailbox'[s] = Append(mailbox[s], user) /\ mailbox[s] \in Seq(Note) /\ user \in User
    BY <1>1, <1>5, <2>1, TellMail, Types
  <2> QED
    BY <2>2, LatestTold
<1>6. ToldIsKept'
  BY <1>1, <1>3, <1>5 DEF ToldIsKept
<1> QED
  BY <1>2, <1>4, <1>6 DEF ToldInv

\* The steps that leave the user and the storage, and of a subscriber the last
\* user told, or end it.
LEMMA SameTold ==
  ASSUME Typed, ToldInv, UNCHANGED <<canStore, stored, user, subs, loadedAt, earlier>>,
         actor' = actor \/ spawnCurrentUser,
         \A s \in subs : stage'[s] # "ended" =>
           /\ stage[s] # "ended"
           /\ \A u : IsLatest(u, mailbox[s], told[s]) => IsLatest(u, mailbox'[s], told'[s])
  PROVE  Kept' /\ ToldIsKept'
<1>1. actor' = "ready" => actor = "ready"
  BY DEF spawnCurrentUser
<1>2. Restored' = Restored
  BY DEF Restored, Good
<1>3. Kept'
  BY <1>1, <1>2 DEF ToldInv, Kept
<1>4. ToldIsKept'
  BY <1>1, <1>2 DEF ToldInv, ToldIsKept
<1> QED
  BY <1>3, <1>4

LEMMA SubToldInv == ASSUME Typed, ToldInv, NEW s \in Sub, SubStep(s) PROVE ToldInv'
<1>1. /\ UNCHANGED <<canStore, stored, user, subs, now, loadedAt, earlier>>
      /\ actor' = actor \/ spawnCurrentUser
  BY DEF SubStep, Subscribe, SubStarts, Unsubscribe, SubCalls, SubExits, actorVars
<1>2. \A t \in Sub : Awake(stage[t]) => Awake(stage'[t])
  BY SubTypes DEF SubStep, Subscribe, SubStarts, Unsubscribe, SubCalls, SubExits, Awake
<1>3. Opened' /\ Lasting'
  <2> DEFINE Beside(letters) ==
        /\ letters \in Seq(Sent) /\ Post(letters)
        /\ \A k \in 1 .. Len(letters) :
             /\ Good(letters[k].data)
             /\ letters[k].tag = "SUBSCRIBE" => Awake(stage'[letters[k].from])
  <2>1. \E letters \in Seq(Sent) : Beside(letters)
    <3>1. CASE inbox' = inbox
      <4>1. Beside(<< >>)
        BY <3>1, Types DEF Post
      <4> QED
        BY <4>1
    <3>2. CASE SubStarts(s)
      <4> DEFINE l == Mail("SUBSCRIBE", s)
      <4>1. l \in Sent /\ Post(<<l>>) /\ Good(l.data) /\ l.from = s
        BY <3>2, LetterTypes, NoteTypes DEF SubStarts, Mail
      <4>2. stage'[s] = "waiting"
        BY <3>2, SubTypes DEF SubStarts
      <4> HIDE DEF l
      <4>3. Beside(<<l>>)
        BY <4>1, <4>2 DEF Awake
      <4> QED
        BY <4>3
    <3>3. CASE SubExits(s)
      <4> DEFINE l == Mail("UNSUBSCRIBE", s)
      <4>1. l \in Sent /\ Post(<<l>>) /\ Good(l.data) /\ l.tag # "SUBSCRIBE"
        BY <3>3, LetterTypes, NoteTypes DEF SubExits, Mail
      <4> HIDE DEF l
      <4>2. Beside(<<l>>)
        BY <4>1
      <4> QED
        BY <4>2
    <3> QED
      BY <3>1, <3>2, <3>3 DEF SubStep, Subscribe, Unsubscribe, SubCalls, actorVars
  <2> QED
    BY <1>1, <1>2, <2>1, PostedTold DEF ToldInv
<1>4. ASSUME NEW t \in subs, stage'[t] # "ended"
      PROVE  /\ stage[t] # "ended"
             /\ \A u : IsLatest(u, mailbox[t], told[t]) => IsLatest(u, mailbox'[t], told'[t])
  <2>1. t \in Sub /\ Awake(stage[t])
    BY SubTypes DEF ToldInv, Opened
  <2>2. stage[t] # "ended"
    BY <1>4, <2>1, SubTypes DEF SubStep, Subscribe, SubStarts, Unsubscribe, SubCalls, SubExits
  <2>3. CASE Subscribe(s) \/ SubStarts(s)
    BY <2>2, <2>3 DEF Subscribe, SubStarts
  <2>4. CASE Unsubscribe(s)
    <3>1. /\ mailbox'[t] \in {mailbox[t], Append(mailbox[t], Nothing)}
          /\ mailbox[t] \in Seq(Note) /\ told' = told
      BY <2>1, <2>4, TellMail DEF Unsubscribe
    <3> QED
      BY <2>2, <3>1, LatestExit
  <2>5. CASE SubCalls(s)
    <3>1. CASE t = s
      <4>1. /\ mailbox[t] \in Seq(Note) /\ mailbox[t] # << >> /\ Head(mailbox[t]) # Nothing
            /\ mailbox'[t] = Tail(mailbox[t]) /\ told'[t] = Head(mailbox[t])
        BY <2>1, <2>5, <3>1, SubTypes DEF SubCalls
      <4> QED
        BY <2>2, <4>1, LatestRead
    <3>2. CASE t # s
      BY <2>1, <2>2, <2>5, <3>2, SubTypes DEF SubCalls
    <3> QED
      BY <3>1, <3>2
  <2>6. CASE SubExits(s)
    <3>1. t # s
      BY <1>4, <2>6, SubTypes DEF SubExits
    <3> QED
      BY <2>1, <2>2, <2>6, <3>1, SubTypes DEF SubExits
  <2> QED
    BY <2>2, <2>3, <2>4, <2>5, <2>6 DEF SubStep
<1>5. Kept' /\ ToldIsKept'
  BY <1>1, <1>4, SameTold
<1> QED
  BY <1>3, <1>5 DEF ToldInv

LEMMA PostsTold ==
  ASSUME Typed, ToldInv, NEW letters \in Seq(Sent), Post(letters),
         \A k \in 1 .. Len(letters) : Good(letters[k].data) /\ letters[k].tag # "SUBSCRIBE",
         UNCHANGED <<canStore, stored, user, subs, stage, mailbox, told,
                     loadedAt, earlier, now>>,
         actor' = actor \/ spawnCurrentUser
  PROVE  ToldInv'
<1>1. Opened' /\ Lasting'
  BY PostedTold DEF ToldInv
<1>2. Kept' /\ ToldIsKept'
  BY SameTold
<1> QED
  BY <1>1, <1>2 DEF ToldInv

LEMMA CallToldInv == ASSUME Typed, ToldInv, NEW c \in Call, CallStep(c) PROVE ToldInv'
<1>1. /\ UNCHANGED <<canStore, stored, user, subs, stage, mailbox, told, loadedAt, earlier, now>>
      /\ actor' = actor \/ spawnCurrentUser
  BY DEF CallStep, WalletAnswers, Authenticate, Snapshot, Decides, AccountProof, WalletFails,
         WalletGrants, Asks, actorVars, subVars
<1> DEFINE Beside(letters) ==
      /\ letters \in Seq(Sent) /\ Post(letters)
      /\ \A k \in 1 .. Len(letters) : Good(letters[k].data) /\ letters[k].tag # "SUBSCRIBE"
<1>2. CASE inbox' = inbox
  <2>1. Beside(<< >>)
    BY <1>2, Types DEF Post
  <2> QED
    BY <1>1, <2>1, PostsTold
<1>3. ASSUME Post(<<Mail("SNAPSHOT", c)>>) PROVE ToldInv'
  <2> DEFINE l == Mail("SNAPSHOT", c)
  <2>1. l \in Sent /\ Good(l.data) /\ l.tag # "SUBSCRIBE"
    BY LetterTypes, NoteTypes DEF Mail
  <2> HIDE DEF l
  <2>2. Beside(<<l>>)
    BY <1>3, <2>1 DEF l
  <2> QED
    BY <1>1, <2>2, PostsTold
<1>4. ASSUME NEW kind \in Kinds, WalletGrants(c, kind) PROVE ToldInv'
  <2> DEFINE k == Mail("SNAPSHOT", c)
             l == SetTo(Session(grants + 1, kind))
  <2>1. Post(<<l, k>>)
    BY <1>4 DEF WalletGrants, Asks
  <2>2. Good(Session(grants + 1, kind)) /\ Session(grants + 1, kind) \in User
    <3>1. grants + 1 \in Nat /\ earlier < grants + 1
      BY Types
    <3> QED
      BY <3>1, UserTypes DEF Session, Good
  <2>3. k \in Sent /\ Good(k.data) /\ k.tag # "SUBSCRIBE"
    BY LetterTypes, NoteTypes DEF Mail
  <2>4. l \in Sent /\ Good(l.data) /\ l.tag # "SUBSCRIBE"
    BY <2>2, LetterTypes DEF SetTo
  <2> HIDE DEF k, l
  <2>5. Beside(<<l, k>>)
    BY <2>1, <2>3, <2>4
  <2> QED
    BY <1>1, <2>5, PostsTold
<1> QED
  BY <1>2, <1>3, <1>4
     DEF CallStep, WalletAnswers, Authenticate, Snapshot, Decides, AccountProof, WalletFails, Asks,
         actorVars

LEMMA OutsideToldInv == ASSUME Typed, ToldInv, Unauthenticate \/ Reload \/ Tick PROVE ToldInv'
<1>1. CASE Unauthenticate
  <2> DEFINE l == Mail("DEL_CURRENT_USER", NoOne)
  <2>1. l \in Sent /\ Good(l.data) /\ l.tag # "SUBSCRIBE"
    BY LetterTypes, NoteTypes DEF Mail
  <2>2. /\ Post(<<l>>) /\ spawnCurrentUser
        /\ UNCHANGED <<canStore, stored, user, subs, stage, mailbox, told, loadedAt, earlier, now>>
    BY <1>1 DEF Unauthenticate, subVars
  <2> HIDE DEF l
  <2>3. /\ <<l>> \in Seq(Sent)
        /\ \A k \in 1 .. Len(<<l>>) : Good(<<l>>[k].data) /\ <<l>>[k].tag # "SUBSCRIBE"
    BY <2>1
  <2> QED
    BY <2>2, <2>3, PostsTold
<1>2. CASE Reload
  <2>1. /\ actor' = "absent" /\ user' = DATA /\ inbox' = << >> /\ subs' = {}
        /\ UNCHANGED <<loadedAt, earlier, now>>
    BY <1>2 DEF Reload, FreshPage
  <2>2. \A i \in 1 .. Len(inbox') : FALSE
    BY <2>1
  <2>3. Opened' /\ Lasting'
    BY <2>1, <2>2, NoteTypes DEF ToldInv, Opened, Lasting, Good
  <2> QED
    BY <2>1, <2>3 DEF ToldInv, Kept, ToldIsKept
<1>3. CASE Tick
  <2>1. /\ UNCHANGED <<canStore, stored, actor, user, inbox, subs, stage, mailbox, told,
                      loadedAt, earlier>>
        /\ now' = now + 1
    BY <1>3 DEF Tick, pageVars, actorVars, subVars
  <2>2. Opened' /\ Lasting'
    BY <2>1, Types DEF ToldInv, Opened, Awake, Unloaded, Lasting, Good
  <2>3. Kept' /\ ToldIsKept'
    BY <2>1, SameTold
  <2> QED
    BY <2>2, <2>3 DEF ToldInv
<1> QED
  BY <1>1, <1>2, <1>3

LEMMA StepTold == Typed /\ CallInv /\ Numbered /\ ToldInv /\ [Next]_vars => ToldInv'
<1> SUFFICES ASSUME Typed, CallInv, Numbered, ToldInv, [Next]_vars PROVE ToldInv'
  OBVIOUS
<1>1. CASE Actor
  BY <1>1, ActorStartsTold, ActorLoadsTold, ActorSubscribesTold, ActorTakesTold, ActorStoresTold
     DEF Actor
<1>2. CASE UNCHANGED vars
  <2>1. UNCHANGED <<canStore, stored, actor, user, inbox, subs, stage, mailbox, told,
                    loadedAt, earlier, now>>
    BY <1>2 DEF vars, pageVars, actorVars, subVars
  <2>2. Opened' /\ Lasting'
    BY <2>1 DEF ToldInv, Opened, Awake, Unloaded, Lasting, Good
  <2>3. Kept' /\ ToldIsKept'
    BY <2>1, SameTold
  <2> QED
    BY <2>2, <2>3 DEF ToldInv
<1> QED
  BY <1>1, <1>2, SubToldInv, CallToldInv, OutsideToldInv DEF Next, SubStep, CallStep

\* Whatever a subscriber is told is in storage by then, so that a reload at any
\* moment shows the user it saw, unless that has expired; and it is told of every
\* login and logout once the actor rests (SUBSCRIBE, SET_CURRENT_USER, DEL_CURRENT_USER).
THEOREM WhatIsToldIsKept == Spec => []ToldIsKept
<1>1. Init => ToldInv
  BY InitTold
<1>2. Typed /\ CallInv /\ Numbered /\ ToldInv /\ [Next]_vars => ToldInv'
  BY StepTold
<1>3. ToldInv => ToldIsKept
  BY DEF ToldInv
<1> QED
  BY <1>1, <1>2, <1>3, CallsInductive, InitNumbered, StepNumbered, PTL DEF Spec
=============================================================================
