-------------------------- MODULE ServiceExecution --------------------------
(***************************************************************************)
(* How FCL executes a service of a wallet: execService and the strategies  *)
(* of its methods (IFRAME/RPC, POP/RPC, TAB/RPC and EXT/RPC, which show a  *)
(* page and listen to its messages, and HTTP/POST, which asks a server,    *)
(* shows its view and polls), the views they share (render-frame.js,       *)
(* render-pop.js, render-tab.js), the handler of messages and the hook     *)
(* that discovery puts around the strategy.  Several calls may be under    *)
(* way at once.  Wallet pages, extensions, servers and the user are        *)
(* external: a page that hears several calls may answer any of them.       *)
(***************************************************************************)
EXTENDS Integers, Sequences, FiniteSets

CONSTANTS
  Calls,      \* the calls of execService
  Jobs,       \* the services they may be called with, [Calls -> job]
  RedirectTo, \* the service a wallet may redirect to: [method, url, type]
  Null

Methods  == {"IFRAME/RPC", "POP/RPC", "TAB/RPC", "EXT/RPC", "HTTP/POST"}
Locals   == {"VIEW/IFRAME", "VIEW/POP", "VIEW/TAB", "VIEW/MOBILE_BROWSER"}
Services == [method : Methods, url : STRING, type : STRING, redir : BOOLEAN, older : BOOLEAN,
             hook : BOOLEAN, local : Locals \cup {Null}]
Results  == [how : {"approved", "declined", "halted", "failed"}, of : Calls \cup {Null}]

ASSUME ServiceAssumption ==
  /\ Jobs \subseteq [Calls -> Services]
  /\ RedirectTo \in [method : Methods, url : STRING, type : STRING]
  /\ Null \notin Nat /\ Null \notin STRING /\ Null \notin Results
  /\ Null \notin Locals \cup {"approved", "declined"}

VARIABLES
  job,        \* the service and the options of each call
  call,       \* where each call is
  listeners,  \* the calls whose handler listens on the window
  timers,     \* the calls whose interval looks whether their window is closed
  views,      \* view -> the window it shows and the url it was given last
  windows,    \* the windows opened so far, each with its page
  mail        \* the messages posted to FCL's window, not delivered yet

vars == <<job, call, listeners, timers, views, windows, mail>>

View == [m \in {"IFRAME/RPC", "VIEW/IFRAME", "POP/RPC", "VIEW/POP", "TAB/RPC", "VIEW/TAB",
                "VIEW/MOBILE_BROWSER", "EXT/RPC"} |->
           CASE m \in {"IFRAME/RPC", "VIEW/IFRAME"} -> "frame" [] m \in {"POP/RPC", "VIEW/POP"} -> "pop"
             [] m \in {"TAB/RPC", "VIEW/TAB"} -> "tab" [] m = "VIEW/MOBILE_BROWSER" -> "browser"
             [] m = "EXT/RPC" -> "ext"]

(* The messages of an extension come from FCL's own window, those of a     *)
(* page from the page's.                                                   *)
App         == 0
SourceOf(w) == IF windows[w].view = "ext" THEN App ELSE w

Page(c, url) == [for |-> c, url |-> url, ready |-> FALSE, heard |-> {}, ended |-> FALSE]

Result(how, of) == [how |-> how, of |-> of]
Idle == [phase |-> "idle", result |-> Null, win |-> Null, source |-> Null, alone |-> FALSE,
         moved |-> FALSE, canContinue |-> TRUE, shouldContinue |-> TRUE, decision |-> Null,
         inTime |-> FALSE]

UnderWay(c) == call[c].phase \notin {"idle", "done"}

Phases  == {"idle", "listening", "answered", "fetching", "polling", "asking", "again", "done"}
Names   == {"frame", "pop", "tab", "browser", "ext"}
Pages   == [for : Calls, url : STRING, ready : BOOLEAN, heard : SUBSET Calls, ended : BOOLEAN]
Screens == [view : Names, open : BOOLEAN, by : {Null, "user", "fcl"}, page : Pages]
States  == [phase : Phases, result : Results \cup {Null}, win : Nat \cup {Null},
            source : Nat \cup {Null}, alone : BOOLEAN, moved : BOOLEAN, canContinue : BOOLEAN,
            shouldContinue : BOOLEAN, decision : {"approved", "declined", Null}, inTime : BOOLEAN]
Messages == [type : {"READY", "RESPONSE", "JSONRPC", "CLOSE"}, source : Nat,
             status : {"APPROVED", "DECLINED", "REDIRECT", Null}, of : Calls]

TypeOK ==
  /\ job       \in [Calls -> Services]
  /\ call      \in [Calls -> States]
  /\ listeners \subseteq Calls /\ timers \subseteq Calls
  /\ views     \in [Names -> [win : Nat \cup {Null}, url : STRING \cup {Null}]]
  /\ windows   \in Seq(Screens)
  /\ mail      \in Seq(Messages)

-----------------------------------------------------------------------------
(* render-frame.js, render-pop.js, render-tab.js: whether a view throws    *)
(* and, if not, the window it shows.  A popup or tab that is open is used  *)
(* again, and not even loaded again when the url is the one it has.  An    *)
(* extension gives up the page of the service it was told of before.       *)
Shows(view) == views[view].win # Null /\ windows[views[view].win].open
Throws(view, blocked) == (view = "frame" /\ Shows(view)) \/ (blocked /\ ~ Shows(view))

Renders(view, c, url) ==
  LET used == views[view].win
      new  == [view |-> view, open |-> TRUE, by |-> Null, page |-> Page(c, url)]
      w    == IF Shows(view) /\ view \in {"pop", "tab"} THEN used ELSE Len(windows) + 1
  IN /\ windows' = CASE w # used -> Append([v \in DOMAIN windows |->
                                              IF v = used /\ view = "ext"
                                              THEN [windows[v] EXCEPT !.open = FALSE] ELSE windows[v]], new)
                     [] w = used /\ views[view].url # url -> [windows EXCEPT ![w].page = Page(c, url)]
                     [] w = used /\ views[view].url = url -> windows
     /\ views' = [views EXCEPT ![view] = [win |-> w, url |-> url]]

Shown(view) == IF Shows(view) /\ view \in {"pop", "tab"} THEN views[view].win ELSE Len(windows) + 1

(* The close of the views vs: of the window each of them shows.            *)
Closes(vs) ==
  /\ views' = [v \in DOMAIN views |-> IF v \in vs THEN [views[v] EXCEPT !.win = Null] ELSE views[v]]
  /\ windows' = [w \in DOMAIN windows |->
                   IF w \in {views[v].win : v \in vs} /\ windows[w].open
                   THEN [windows[w] EXCEPT !.open = FALSE, !.by = "fcl"] ELSE windows[w]]

(* The close of each call in C: its handler and its interval end and       *)
(* whatever its view shows by then is closed.  A call whose view threw has *)
(* nothing to unmount.                                                     *)
Unmounts(C) ==
  /\ listeners' = listeners \ C
  /\ timers' = timers \ C
  /\ Closes({View[job[c].method] : c \in {d \in C : call[d].win # Null}} \ {"ext"})

-----------------------------------------------------------------------------
(* execService: the strategy of the service starts.  Its handler listens   *)
(* before its view is rendered and stays when that throws.                 *)
Alone(c) ==
  /\ listeners = {} /\ timers = {} /\ mail = << >>
  /\ \A d \in Calls \ {c} : ~ UnderWay(d)

Begins(c, phase, win, result) ==
  call' = [d \in Calls |->
             IF d = c THEN [call[c] EXCEPT !.phase = phase, !.win = win, !.source = Null,
                                           !.result = result, !.alone = Alone(c)]
             ELSE IF UnderWay(d) THEN [call[d] EXCEPT !.alone = FALSE] ELSE call[d]]

execService(c, blocked) ==
  LET view == View[job[c].method] IN
  /\ call[c].phase \in {"idle", "again"} /\ job[c].method # "HTTP/POST"
  /\ blocked => view \in {"pop", "tab"}
  /\ listeners' = listeners \cup {c}
  /\ IF Throws(view, blocked)
     THEN /\ Begins(c, "done", Null, Result("failed", c))
          /\ UNCHANGED <<timers, views, windows>>
     ELSE /\ Renders(view, c, job[c].url)
          /\ Begins(c, "listening", Shown(view), Null)
          /\ timers' = IF view \in {"pop", "tab"} THEN timers \cup {c} ELSE timers
  /\ UNCHANGED <<job, mail>>

-----------------------------------------------------------------------------
(* buildMessageHandler: a handler takes the messages of the window of its  *)
(* view; one that has none takes them from anywhere until a page is ready, *)
(* and then from where that page is.                                       *)
(* Mutant: it takes them from anywhere. *)
AcceptsAll(c, m) == TRUE

Accepts(c, m) ==
  LET source == IF call[c].win # Null /\ job[c].method # "EXT/RPC" THEN call[c].win ELSE call[c].source
  IN source = Null \/ source = m.source

Takers(m) ==
  {c \in listeners : Accepts(c, m) /\ (m.type = "JSONRPC" => m.of = c /\ job[c].method # "EXT/RPC")}
Delivers(type) == mail # << >> /\ mail[1].type = type /\ mail' = Tail(mail)

(* READY: each handler answers its own window with its own body. *)
onReady ==
  LET m     == mail[1]
      heard(w) == {c \in Takers(m) : /\ call[c].win # Null
                                     /\ View[job[c].method] = windows[w].view
                                     /\ windows[w].view # "ext" => call[c].win = w}
  IN /\ Delivers("READY")
     /\ call' = [c \in Calls |-> IF c \in Takers(m) /\ call[c].source = Null
                                 THEN [call[c] EXCEPT !.source = m.source] ELSE call[c]]
     /\ windows' = [w \in DOMAIN windows |->
                      IF windows[w].open THEN [windows[w] EXCEPT !.page.heard = @ \cup heard(w)]
                      ELSE windows[w]]
     /\ UNCHANGED <<job, listeners, timers, views>>

(* The promise of a strategy is settled once.  The hook then aborts: the   *)
(* view is closed even if the call asked to keep it for a redirection.     *)
Settled(c, result) ==
  IF call[c].result = Null THEN [call[c] EXCEPT !.phase = "done", !.result = result]
  ELSE [call[c] EXCEPT !.phase = "done"]
Keeps(c, m) ==
  /\ m.status = "APPROVED" /\ job[c].redir /\ ~ job[c].hook
  /\ View[job[c].method] \in {"pop", "tab"}

(* RESPONSE (or the JSON-RPC of older wallets, which names its call). *)
onResponse ==
  LET m == mail[1] IN
  /\ mail # << >> /\ mail[1].type \in {"RESPONSE", "JSONRPC"} /\ mail' = Tail(mail)
  /\ m.status # "REDIRECT"
  /\ call' = [c \in Calls |->
                IF c \in Takers(m)
                THEN Settled(c, Result(IF m.status = "APPROVED" THEN "approved" ELSE "declined", m.of))
                ELSE call[c]]
  /\ Unmounts({c \in Takers(m) : ~ Keeps(c, m)})
  /\ UNCHANGED job

(* A redirection: execService goes on with the service it names, which     *)
(* must be of the same type, without the hook.                             *)
Redirected(c) ==
  IF RedirectTo.type = job[c].type THEN [call[c] EXCEPT !.phase = "again", !.moved = TRUE]
  ELSE Settled(c, Result("failed", c))
Redirects(C) ==
  job' = [c \in Calls |->
            IF c \notin C THEN job[c]
            ELSE [job[c] EXCEPT !.method = RedirectTo.method, !.url = RedirectTo.url, !.hook = FALSE]]

onRedirect ==
  LET m     == mail[1]
      moves == {c \in Takers(m) : call[c].result = Null}
  IN /\ Delivers("RESPONSE") /\ m.status = "REDIRECT"
     /\ call' = [c \in Calls |-> IF c \in moves THEN Redirected(c)
                                 ELSE IF c \in Takers(m) THEN Settled(c, Null) ELSE call[c]]
     /\ Redirects(moves)
     /\ Unmounts(Takers(m))

(* Mutant: the view is closed and the promise is not rejected. *)
onCloseSilent ==
  LET m == mail[1] IN
  /\ Delivers("CLOSE") /\ Unmounts(Takers(m)) /\ UNCHANGED <<job, call>>

onClose ==
  LET m == mail[1] IN
  /\ Delivers("CLOSE")
  /\ call' = [c \in Calls |-> IF c \in Takers(m) THEN Settled(c, Result("halted", m.of)) ELSE call[c]]
  /\ Unmounts(Takers(m))
  /\ UNCHANGED job

(* The interval of pop.js and tab.js. *)
(* Mutant: it does not look whether the window is closed. *)
TimerFiresAtOnce(c) ==
  /\ c \in timers
  /\ call' = [call EXCEPT ![c] =
                Settled(c, Result("halted", IF windows[@.win].by = "user" THEN c ELSE Null))]
  /\ Unmounts({c})
  /\ UNCHANGED <<job, mail>>

TimerFires(c) ==
  /\ c \in timers /\ ~ windows[call[c].win].open
  /\ call' = [call EXCEPT ![c] =
                Settled(c, Result("halted", IF windows[@.win].by = "user" THEN c ELSE Null))]
  /\ Unmounts({c})
  /\ UNCHANGED <<job, mail>>

(* execStrategyHook of discovery: a candidate (an extension or a QR code   *)
(* asked for over the RPC of the discovery page) may answer in place of    *)
(* the page.  The page then has a second before the signal is aborted.     *)
(* The strategy a candidate runs itself (its own handler and view, and the *)
(* abort of it when it loses) is not modelled: only the page's side is.    *)
CandidateAnswers(c) ==
  /\ call[c].phase = "listening" /\ job[c].hook
  /\ call' = [call EXCEPT ![c].phase = "answered", ![c].result = Result("approved", c)]
  /\ UNCHANGED <<job, listeners, timers, views, windows, mail>>
(* Mutant: the losers are not told. *)
HookReturns(c) ==
  /\ call[c].phase = "answered"
  /\ call' = [call EXCEPT ![c].phase = "done"]
  /\ UNCHANGED <<job, listeners, timers, views, windows, mail>>

HookAborts(c) ==
  /\ call[c].phase = "answered"
  /\ call' = [call EXCEPT ![c].phase = "done"]
  /\ Unmounts({c})
  /\ UNCHANGED <<job, mail>>

-----------------------------------------------------------------------------
(* http-post.js: the server answers at once, or is PENDING with a view. *)
Posts(c) ==
  /\ call[c].phase \in {"idle", "again"} /\ job[c].method = "HTTP/POST"
  /\ Begins(c, "fetching", Null, Null)
  /\ UNCHANGED <<job, listeners, timers, views, windows, mail>>

ServerDecides(c) ==
  /\ call[c].phase = "fetching"
  /\ \E how \in {"approved", "declined", "failed"} :
       call' = [call EXCEPT ![c] = Settled(c, Result(how, c))]
  /\ UNCHANGED <<job, listeners, timers, views, windows, mail>>

ServerRedirects(c) ==
  /\ call[c].phase = "fetching" /\ ~ call[c].moved
  /\ call' = [call EXCEPT ![c] = Redirected(c)]
  /\ Redirects({c})
  /\ UNCHANGED <<listeners, timers, views, windows, mail>>

(* execLocal fails when there is no view, as it does when the view throws. *)
ServerPends(c) ==
  LET local == job[c].local
      fails == local = Null \/ (local # Null /\ Throws(View[local], FALSE))
  IN /\ call[c].phase = "fetching"
     /\ call' = [call EXCEPT ![c] = IF fails THEN Settled(c, Result("failed", Null))
                                   ELSE [@ EXCEPT !.phase = "polling", !.win = Shown(View[local])]]
     /\ IF fails THEN UNCHANGED <<views, windows>> ELSE Renders(View[local], c, job[c].url)
     /\ UNCHANGED <<job, listeners, timers, mail>>

(* What the wallet has decided by the time it is polled, and whether that  *)
(* was before its view was closed.                                         *)
WalletDecides(c) ==
  /\ call[c].phase \in {"polling", "asking"} /\ call[c].decision = Null
  /\ \E how \in {"approved", "declined"} :
       call' = [call EXCEPT ![c].decision = how, ![c].inTime = windows[call[c].win].open]
  /\ UNCHANGED <<job, listeners, timers, views, windows, mail>>

(* checkCanContinue returns what it found the time before. *)
(* Mutant: it returns what it finds. *)
checkNow(c) == call[c].shouldContinue

checkCanContinue(c) == call[c].canContinue

CloseView(c) == Closes({View[job[c].local]})

(* poll: a round that may go on asks, and its answer ends the call or      *)
(* leads to the next.  A round of a hidden document, which waits and looks *)
(* again without asking (poll.js:33-39), is left out: a view that tells of *)
(* its close is React Native's, where there is no document to hide.        *)
poll(c) ==
  /\ call[c].phase = "polling"
  /\ IF checkCanContinue(c)
     THEN /\ call' = [call EXCEPT ![c].phase = "asking", ![c].canContinue = call[c].shouldContinue]
          /\ UNCHANGED <<views, windows>>
     ELSE /\ call' = [call EXCEPT ![c] = Settled(c, Result("halted", c))]
          /\ CloseView(c)
  /\ UNCHANGED <<job, listeners, timers, mail>>
PollPending(c) ==
  /\ call[c].phase = "asking" /\ call[c].decision = Null
  /\ call' = [call EXCEPT ![c].phase = "polling"]
  /\ UNCHANGED <<job, listeners, timers, views, windows, mail>>
PollAnswered(c) ==
  /\ call[c].phase = "asking" /\ call[c].decision # Null
  /\ call' = [call EXCEPT ![c] = Settled(c, Result(call[c].decision, c))]
  /\ CloseView(c)
  /\ UNCHANGED <<job, listeners, timers, mail>>
PollFails(c) ==
  /\ call[c].phase = "asking"
  /\ call' = [call EXCEPT ![c] = Settled(c, Result("failed", c))]
  /\ CloseView(c)
  /\ UNCHANGED <<job, listeners, timers, mail>>

-----------------------------------------------------------------------------
(* The pages and the user.  A page is ready once, and ends with one        *)
(* message: an answer to a call it has heard, or CLOSE.                    *)
Talks(w) == windows[w].open /\ ~ windows[w].page.ended /\ job[windows[w].page.for].method # "HTTP/POST"
Message(w, type, status, of) == [type |-> type, source |-> SourceOf(w), status |-> status, of |-> of]
Posted(m) == mail' = Append(mail, m)

PageReady(w) ==
  /\ Talks(w) /\ ~ windows[w].page.ready
  /\ windows' = [windows EXCEPT ![w].page.ready = TRUE]
  /\ Posted(Message(w, "READY", Null, windows[w].page.for))
  /\ UNCHANGED <<job, call, listeners, timers, views>>

Statuses(c) == {"APPROVED", "DECLINED"} \cup (IF call[c].moved THEN {} ELSE {"REDIRECT"})
PageAnswers(w) ==
  /\ Talks(w)
  /\ \E c \in windows[w].page.heard : \E status \in Statuses(c) :
     \E type \in {"RESPONSE"} \cup (IF job[c].older /\ status # "REDIRECT" THEN {"JSONRPC"} ELSE {}) :
       Posted(Message(w, type, status, c))
  /\ windows' = [windows EXCEPT ![w].page.ended = TRUE]
  /\ UNCHANGED <<job, call, listeners, timers, views>>

PageCloses(w) ==
  /\ Talks(w)
  /\ Posted(Message(w, "CLOSE", Null, windows[w].page.for))
  /\ windows' = [windows EXCEPT ![w].page.ended = TRUE]
  /\ UNCHANGED <<job, call, listeners, timers, views>>

(* Only the browser of React Native tells http-post.js that it is closed. *)
UserCloses(w) ==
  /\ windows[w].open /\ windows[w].view \in {"pop", "tab", "browser"}
  /\ windows' = [windows EXCEPT ![w].open = FALSE, ![w].by = "user"]
  /\ call' = [c \in Calls |->
                IF windows[w].view = "browser" /\ call[c].win = w
                THEN [call[c] EXCEPT !.shouldContinue = FALSE] ELSE call[c]]
  /\ UNCHANGED <<job, listeners, timers, views, mail>>

-----------------------------------------------------------------------------
Init ==
  /\ job \in Jobs
  /\ call = [c \in Calls |-> Idle]
  /\ listeners = {} /\ timers = {} /\ windows = << >> /\ mail = << >>
  /\ views = [v \in Names |-> [win |-> Null, url |-> Null]]

Strategy(c) ==
  \/ (\E blocked \in BOOLEAN : execService(c, blocked)) \/ Posts(c)
  \/ TimerFires(c) \/ HookAborts(c) \/ poll(c)
Handler == onReady \/ onResponse \/ onRedirect \/ onClose
Server(c) ==
  ServerDecides(c) \/ ServerRedirects(c) \/ ServerPends(c) \/ PollPending(c) \/ PollAnswered(c) \/ PollFails(c)
Ends(w) == PageAnswers(w) \/ PageCloses(w)

Next ==
  \/ Handler
  \/ \E c \in Calls : Strategy(c) \/ Server(c) \/ CandidateAnswers(c) \/ WalletDecides(c)
  \/ \E w \in DOMAIN windows : PageReady(w) \/ Ends(w) \/ UserCloses(w)

Spec == Init /\ [][Next]_vars

(* Timers fire, messages arrive, servers answer; a page ends, a wallet     *)
(* decides and a window of which nothing comes is closed in the end.       *)
Windows  == 1 .. 2 * Cardinality(Calls)
Fairness ==
  /\ WF_vars(Handler)
  /\ \A c \in Calls :
       /\ WF_vars(call[c].phase # "idle" /\ Strategy(c))
       /\ WF_vars(Server(c)) /\ WF_vars(WalletDecides(c))
  /\ \A w \in Windows : /\ WF_vars(w \in DOMAIN windows /\ PageReady(w))
                        /\ WF_vars(w \in DOMAIN windows /\ Ends(w))
                        /\ WF_vars(w \in DOMAIN windows /\ UserCloses(w))
FairSpec == Spec /\ Fairness

-----------------------------------------------------------------------------
(* A call during which no other is under way, and from before which        *)
(* nothing listens any more, ends as its own wallet ends it: it is         *)
(* approved or declined by the answer to its own body, and halted by its   *)
(* own page or by the user who closes its own window (the strategies).     *)
Undisturbed ==
  \A c \in Calls : call[c].phase = "done" /\ call[c].alone /\ call[c].result.how # "failed" =>
    call[c].result.of = c

(* Such a call leaves nothing behind, unless it is to keep its window for  *)
(* a redirection: no interval, no open window (the close of frame.js,      *)
(* pop.js, tab.js, and the unmount of http-post.js), and no handler but    *)
(* that of a call whose view threw.  That one was registered before its    *)
(* view was rendered (pop.js:25-26, frame.js and tab.js alike), nothing    *)
(* closes it, and it stays until it happens to take a later message.       *)
ViewThrew(c) == job[c].method # "HTTP/POST" /\ call[c].win = Null

LeavesNothing ==
  \A c \in Calls : call[c].phase = "done" /\ call[c].alone /\ ~ (job[c].redir /\ ~ job[c].hook) =>
    /\ c \notin timers
    /\ c \in listeners => ViewThrew(c)
    /\ call[c].win # Null /\ windows[call[c].win].view # "ext" => ~ windows[call[c].win].open

(* Whatever else is under way, a service in an iframe is answered by what  *)
(* its page heard of it: its handler takes the messages of its own frame   *)
(* only, and there is one frame at a time (buildMessageHandler.js:33,43,   *)
(* render-frame.js:21-25).                                                 *)
FramesAnswerTheirOwn ==
  \A c \in Calls :
    job[c].method = "IFRAME/RPC" /\ call[c].result # Null
    /\ call[c].result.how \in {"approved", "declined"} => call[c].result.of = c

(* What the wallet has decided before its view is closed is what the call  *)
(* ends with: the polling goes on once more after the view is closed       *)
(* (http-post.js:48-56), unless it fails.                                  *)
DecisionReached ==
  \A c \in Calls : job[c].method = "HTTP/POST" /\ call[c].phase = "done" /\ call[c].inTime =>
    call[c].result.how \in {call[c].decision, "failed"}

(* Every call under way settles in the end, whatever the others do, but    *)
(* for one of an extension whose handler was taken by the page of another. *)
CallSettles ==
  \A c \in Calls : UnderWay(c) ~>
    (~ UnderWay(c) \/ (job[c].method = "EXT/RPC" /\ ~ call[c].alone))
=============================================================================
