----------------------- MODULE ServiceExecutionProofs -----------------------
(***************************************************************************)
(* Theorems about ServiceExecution, for any number of calls, any services  *)
(* and any redirection: a frame answers its own call, a decision made in   *)
(* time is reached, and a call alone ends as its own wallet ends it and    *)
(* leaves nothing behind.                                                  *)
(***************************************************************************)
EXTENDS ServiceExecution, TLAPS

-----------------------------------------------------------------------------
(* Views.                                                                   *)

LEMMA ViewFacts ==
  /\ View["IFRAME/RPC"] = "frame" /\ View["VIEW/IFRAME"] = "frame"
  /\ View["POP/RPC"] = "pop" /\ View["VIEW/POP"] = "pop"
  /\ View["TAB/RPC"] = "tab" /\ View["VIEW/TAB"] = "tab"
  /\ View["VIEW/MOBILE_BROWSER"] = "browser" /\ View["EXT/RPC"] = "ext"
  BY DEF View

\* Only a local view is the browser, only a method is an extension.
LEMMA ViewsOf ==
  /\ \A m \in Methods : m # "HTTP/POST" =>
       /\ View[m] \in Names \ {"browser"}
       /\ View[m] = "frame" <=> m = "IFRAME/RPC"
       /\ View[m] = "ext" <=> m = "EXT/RPC"
  /\ \A m \in Locals : View[m] \in Names \ {"ext"}
  BY ViewFacts DEF Methods, Locals, Names

LEMMA NullIsNone ==
  /\ \A n \in Nat : n # Null
  /\ \A s \in STRING : s # Null
  /\ \A r \in Results : r # Null
  /\ \A x \in Locals \cup {"approved", "declined"} : x # Null
  BY ServiceAssumption

-----------------------------------------------------------------------------
(* Windows.                                                                 *)

\* A view shows one window: any other of it is closed (but for browsers).
Showing == \A w \in DOMAIN windows :
             windows[w].open /\ windows[w].view # "browser" => views[windows[w].view].win = w
Named   == \A v \in Names : views[v].win # Null =>
             views[v].win \in DOMAIN windows /\ windows[views[v].win].view = v

\* The windows typed, and what they show.
Viewed == /\ views \in [Names -> [win : Nat \cup {Null}, url : STRING \cup {Null}]]
          /\ windows \in Seq(Screens)
          /\ Showing /\ Named

LEMMA SeqPointwise ==
  ASSUME NEW A, NEW s \in Seq(A), NEW t, DOMAIN t = DOMAIN s, t = [i \in DOMAIN s |-> t[i]],
         \A i \in DOMAIN s : t[i] \in A
  PROVE  t \in Seq(A) /\ Len(t) = Len(s)
<1>1. DOMAIN s = 1 .. Len(s) /\ Len(s) \in Nat
  OBVIOUS
<1>2. t \in [1 .. Len(s) -> A]
  BY <1>1
<1> QED
  BY <1>1, <1>2

\* Window w after some views were closed.
Shut(w) == /\ windows'[w] \in Screens
           /\ windows'[w].view = windows[w].view /\ windows'[w].page = windows[w].page
           /\ windows'[w].open => windows[w].open
           /\ (windows'[w].open <=> windows[w].open) => windows'[w].by = windows[w].by

LEMMA ClosesFacts ==
  ASSUME Viewed, NEW vs \in SUBSET Names, Closes(vs)
  PROVE  /\ Viewed' /\ DOMAIN windows' = DOMAIN windows
         /\ \A w \in DOMAIN windows : Shut(w)
         /\ \A w \in DOMAIN windows : windows[w].view \in vs \ {"browser"} => ~ windows'[w].open
         /\ \A v \in vs : views[v].win # Null => ~ windows'[views[v].win].open
         /\ \A v \in Names \ vs : views'[v] = views[v]
         /\ \A w \in DOMAIN windows : windows[w].view \notin vs => windows'[w] = windows[w]
<1> DEFINE ws == {views[v].win : v \in vs}
           shut(w) == [windows[w] EXCEPT !.open = FALSE, !.by = "fcl"]
<1>1. \A w \in DOMAIN windows : windows[w] \in Screens
  BY DEF Viewed
<1>2. \A x \in Screens : /\ [x EXCEPT !.open = FALSE, !.by = "fcl"] \in Screens
                         /\ [x EXCEPT !.open = FALSE, !.by = "fcl"].view = x.view
                         /\ [x EXCEPT !.open = FALSE, !.by = "fcl"].page = x.page
                         /\ [x EXCEPT !.open = FALSE, !.by = "fcl"].open = FALSE
                         /\ x.open \in BOOLEAN /\ x.view \in Names
  BY DEF Screens
<1>3. /\ windows' = [w \in DOMAIN windows |-> IF w \in ws /\ windows[w].open THEN shut(w) ELSE windows[w]]
      /\ views' = [v \in Names |-> IF v \in vs THEN [views[v] EXCEPT !.win = Null] ELSE views[v]]
  BY DEF Closes, Viewed
<1>4. \A w \in DOMAIN windows :
        /\ shut(w) \in Screens /\ shut(w).view = windows[w].view /\ shut(w).page = windows[w].page
        /\ ~ shut(w).open
  BY <1>1, <1>2
<1> HIDE DEF ws, shut
<1>5. \A w \in DOMAIN windows :
        windows'[w] = IF w \in ws /\ windows[w].open THEN shut(w) ELSE windows[w]
  BY <1>3
<1>6. \A w \in DOMAIN windows : Shut(w) /\ (w \in ws => ~ windows'[w].open)
  <2> TAKE w \in DOMAIN windows
  <2>1. windows[w] \in Screens /\ windows[w].open \in BOOLEAN
    BY <1>1, <1>2
  <2>2. CASE w \in ws /\ windows[w].open
    BY <1>4, <1>5, <2>1, <2>2 DEF Shut
  <2>3. CASE ~ (w \in ws /\ windows[w].open)
    BY <1>5, <2>1, <2>3 DEF Shut
  <2> QED
    BY <2>2, <2>3
<1>7. windows' \in Seq(Screens) /\ DOMAIN windows' = DOMAIN windows
  <2>1. DOMAIN windows' = DOMAIN windows /\ windows' = [w \in DOMAIN windows |-> windows'[w]]
    BY <1>3
  <2>2. \A w \in DOMAIN windows : windows'[w] \in Screens
    BY <1>6 DEF Shut
  <2> QED
    BY <2>1, <2>2, SeqPointwise DEF Viewed
<1>8. /\ views' \in [Names -> [win : Nat \cup {Null}, url : STRING \cup {Null}]]
      /\ \A v \in vs : views'[v].win = Null
      /\ \A v \in Names \ vs : views'[v] = views[v]
  BY <1>3 DEF Viewed
<1>9. \A w \in DOMAIN windows : windows[w].view \in vs \ {"browser"} => ~ windows'[w].open
  <2> SUFFICES ASSUME NEW w \in DOMAIN windows, windows[w].view \in vs, windows[w].view # "browser",
                      windows'[w].open
               PROVE  FALSE
    OBVIOUS
  <2>1. windows[w].open
    BY <1>6 DEF Shut
  <2>2. views[windows[w].view].win = w
    BY <2>1 DEF Viewed, Showing
  <2>3. w \in ws
    BY <2>2 DEF ws
  <2> QED
    BY <1>6, <2>3
<1>10. Showing'
  <2> SUFFICES ASSUME NEW w \in DOMAIN windows, windows'[w].open, windows'[w].view # "browser"
               PROVE  views'[windows'[w].view].win = w
    BY <1>7 DEF Showing
  <2>1. windows'[w].view = windows[w].view /\ windows[w].open /\ windows[w].view \in Names
    BY <1>1, <1>2, <1>6 DEF Shut
  <2>2. windows[w].view \notin vs /\ views[windows[w].view].win = w
    BY <1>9, <2>1 DEF Viewed, Showing
  <2> QED
    BY <1>8, <2>1, <2>2
<1>11. Named'
  <2> SUFFICES ASSUME NEW v \in Names, views'[v].win # Null
               PROVE  views'[v].win \in DOMAIN windows' /\ windows'[views'[v].win].view = v
    BY DEF Named
  <2>1. views'[v] = views[v]
    BY <1>8
  <2>2. views[v].win \in DOMAIN windows /\ windows[views[v].win].view = v
    BY <2>1 DEF Viewed, Named
  <2> QED
    BY <1>6, <1>7, <2>1, <2>2 DEF Shut
<1>12. \A v \in vs : views[v].win # Null => ~ windows'[views[v].win].open
  <2> SUFFICES ASSUME NEW v \in vs, views[v].win # Null PROVE ~ windows'[views[v].win].open
    OBVIOUS
  <2>1. views[v].win \in DOMAIN windows /\ views[v].win \in ws
    BY DEF Viewed, Named, ws
  <2> QED
    BY <1>6, <2>1
<1>13. \A w \in DOMAIN windows : windows[w].view \notin vs => windows'[w] = windows[w]
  <2> SUFFICES ASSUME NEW w \in DOMAIN windows, windows[w].view \notin vs PROVE w \notin ws
    BY <1>5
  <2>1. \A v \in vs : views[v].win # w
    <3> SUFFICES ASSUME NEW v \in vs, views[v].win = w PROVE FALSE
      OBVIOUS
    <3>1. w # Null
      <4>1. w \in Nat
        BY DEF Viewed
      <4> QED
        BY <4>1, NullIsNone
    <3> QED
      BY <3>1 DEF Viewed, Named
  <2> QED
    BY <2>1 DEF ws
<1> QED
  BY <1>6, <1>7, <1>8, <1>9, <1>10, <1>11, <1>12, <1>13 DEF Viewed

\* A view is rendered for call c: in a new window, or in the one it shows.
Fresh(view, c, url) ==
  /\ Shown(view) \notin DOMAIN windows /\ windows'[Shown(view)].page = Page(c, url)
  /\ \A w \in DOMAIN windows : windows'[w].page = windows[w].page
Again(view, c, url) ==
  /\ Shown(view) \in DOMAIN windows /\ view \in {"pop", "tab"}
  /\ windows[Shown(view)].open /\ windows[Shown(view)].view = view
  /\ windows'[Shown(view)].page \in {windows[Shown(view)].page, Page(c, url)}
  /\ \A w \in DOMAIN windows : w # Shown(view) => windows'[w] = windows[w]

LEMMA RendersFacts ==
  ASSUME Viewed, NEW view \in Names, NEW c \in Calls, NEW url \in STRING,
         Renders(view, c, url), ~ (view = "frame" /\ Shows(view))
  PROVE  /\ Viewed' /\ Shown(view) \in Nat \ {0, Null}
         /\ DOMAIN windows' = DOMAIN windows \cup {Shown(view)}
         /\ windows'[Shown(view)].view = view /\ windows'[Shown(view)].open
         /\ views'[view].win = Shown(view)
         /\ Fresh(view, c, url) \/ Again(view, c, url)
         /\ \A w \in DOMAIN windows :
              /\ windows'[w].view = windows[w].view /\ (windows'[w].open => windows[w].open)
              /\ windows'[w].by = windows[w].by
              /\ w # Shown(view) => windows'[w].page = windows[w].page
              /\ windows[w].view # "ext" /\ w # Shown(view) => windows'[w] = windows[w]
              /\ view = "ext" /\ windows[w].view = "ext" => ~ windows'[w].open
<1> DEFINE used == views[view].win
           n    == Len(windows) + 1
           new  == [view |-> view, open |-> TRUE, by |-> Null, page |-> Page(c, url)]
           w0   == Shown(view)
           rest(v) == IF v = used /\ view = "ext" THEN [windows[v] EXCEPT !.open = FALSE] ELSE windows[v]
           old  == [v \in DOMAIN windows |-> rest(v)]
<1>1. \A w \in DOMAIN windows : windows[w] \in Screens
  BY DEF Viewed
<1>2. new \in Screens /\ Page(c, url) \in Pages
  BY DEF Screens, Page, Pages
<1>3. \A x \in Screens :
        /\ [x EXCEPT !.open = FALSE] \in Screens
        /\ [x EXCEPT !.open = FALSE].view = x.view /\ [x EXCEPT !.open = FALSE].by = x.by
        /\ [x EXCEPT !.open = FALSE].page = x.page /\ ~ [x EXCEPT !.open = FALSE].open
        /\ \A p \in Pages : /\ [x EXCEPT !.page = p] \in Screens /\ [x EXCEPT !.page = p].page = p
                            /\ [x EXCEPT !.page = p].view = x.view
                            /\ [x EXCEPT !.page = p].open = x.open /\ [x EXCEPT !.page = p].by = x.by
        /\ x.view \in Names /\ x.open \in BOOLEAN
  BY DEF Screens
<1>4. /\ DOMAIN windows = 1 .. Len(windows) /\ Len(windows) \in Nat /\ n \notin DOMAIN windows
      /\ n \in Nat \ {0, Null} /\ n # used
  <2>1. DOMAIN windows = 1 .. Len(windows) /\ Len(windows) \in Nat
    BY DEF Viewed
  <2>2. n \notin DOMAIN windows /\ n \in Nat \ {0, Null}
    BY <2>1, NullIsNone
  <2>3. used = Null \/ used \in DOMAIN windows
    BY DEF Viewed, Named
  <2> QED
    BY <2>1, <2>2, <2>3
<1>5. Shows(view) => used \in DOMAIN windows /\ windows[used].open /\ windows[used].view = view
  BY DEF Shows, Viewed, Named
<1>6. /\ views' = [views EXCEPT ![view] = [win |-> w0, url |-> url]]
      /\ w0 = IF Shows(view) /\ view \in {"pop", "tab"} THEN used ELSE n
      /\ w0 # used => windows' = Append(old, new)
      /\ w0 = used /\ views[view].url # url => windows' = [windows EXCEPT ![w0].page = Page(c, url)]
      /\ w0 = used /\ views[view].url = url => windows' = windows
  BY DEF Renders, Shown
<1>7. \A w \in DOMAIN windows : rest(w) \in Screens
  BY <1>1, <1>3
<1>8. old \in Seq(Screens) /\ Len(old) = Len(windows) /\ \A w \in DOMAIN windows : old[w] = rest(w)
  <2>1. DOMAIN old = DOMAIN windows /\ \A w \in DOMAIN windows : old[w] = rest(w)
    OBVIOUS
  <2> HIDE DEF rest
  <2>2. old = [w \in DOMAIN windows |-> old[w]]
    OBVIOUS
  <2> HIDE DEF old
  <2>3. old \in Seq(Screens) /\ Len(old) = Len(windows)
    BY <1>7, <2>1, <2>2, SeqPointwise DEF Viewed
  <2> QED
    BY <2>1, <2>3
<1>9. \A w \in DOMAIN windows :
        /\ rest(w).view = windows[w].view /\ (rest(w).open => windows[w].open)
        /\ rest(w).by = windows[w].by /\ rest(w).page = windows[w].page
        /\ ~ (w = used /\ view = "ext") => rest(w) = windows[w]
        /\ w = used /\ view = "ext" => ~ rest(w).open
  BY <1>1, <1>3
<1>10. new.view = view /\ new.open /\ new.page = Page(c, url)
  OBVIOUS
<1>11. \A v \in Names : v # view => views'[v] = views[v]
  BY <1>6 DEF Viewed
<1>12. /\ views' \in [Names -> [win : Nat \cup {Null}, url : STRING \cup {Null}]]
       /\ views'[view].win = w0
  <2>1. w0 \in Nat
    BY <1>4, <1>5, <1>6
  <2> QED
    BY <1>6, <2>1 DEF Viewed
<1> HIDE DEF old, new, rest, n, w0, used
<1>13. CASE ~ (Shows(view) /\ view \in {"pop", "tab"})
  <2>1. w0 = n /\ windows' = Append(old, new)
    BY <1>4, <1>6, <1>13
  <2>2. /\ windows' \in Seq(Screens) /\ Len(windows') = Len(windows) + 1 /\ windows'[n] = new
        /\ \A w \in DOMAIN windows : windows'[w] = rest(w)
    <3>1. Len(old) + 1 = n
      BY <1>8 DEF n
    <3>2. \A w \in 1 .. Len(old) : Append(old, new)[w] = old[w]
      BY <1>2, <1>8
    <3>3. Append(old, new)[Len(old) + 1] = new /\ Append(old, new) \in Seq(Screens)
          /\ Len(Append(old, new)) = Len(old) + 1
      BY <1>2, <1>8
    <3> QED
      BY <1>4, <1>8, <2>1, <3>1, <3>2, <3>3
  <2>3. DOMAIN windows' = DOMAIN windows \cup {n}
    <3>1. DOMAIN windows' = 1 .. Len(windows')
      BY <2>2
    <3> QED
      BY <1>4, <2>2, <3>1 DEF n
  <2>4. view = "ext" => \A w \in DOMAIN windows : windows[w].view = "ext" => ~ windows'[w].open
    <3> SUFFICES ASSUME NEW w \in DOMAIN windows, view = "ext", windows[w].view = "ext", windows'[w].open
                 PROVE  FALSE
      OBVIOUS
    <3>1. windows[w].open
      BY <1>9, <2>2
    <3>2. w = used
      BY <3>1 DEF Viewed, Showing, used
    <3> QED
      BY <1>9, <2>2, <3>2
  <2>5. \A w \in DOMAIN windows :
              /\ windows'[w].view = windows[w].view /\ (windows'[w].open => windows[w].open)
              /\ windows'[w].by = windows[w].by
              /\ windows'[w].page = windows[w].page
    BY <1>9, <2>2
  <2>6. Showing'
    <3> SUFFICES ASSUME NEW w \in DOMAIN windows', windows'[w].open, windows'[w].view # "browser"
                 PROVE  views'[windows'[w].view].win = w
      BY DEF Showing
    <3>1. CASE w = n
      <4>1. windows'[w].view = view
        BY <1>10, <2>2, <3>1
      <4> QED
        BY <1>12, <2>1, <3>1, <4>1
    <3>2. CASE w # n
      <4>1. w \in DOMAIN windows /\ windows'[w] = rest(w)
        BY <2>2, <2>3, <3>2
      <4>2. windows[w].open /\ windows'[w].view = windows[w].view /\ windows[w].view \in Names
        <5>1. windows'[w].view = windows[w].view /\ (windows'[w].open => windows[w].open)
          BY <1>9, <4>1
        <5>2. windows[w].view \in Names
          BY <1>1, <1>3, <4>1
        <5> QED
          BY <5>1, <5>2
      <4>3. views[windows[w].view].win = w
        <5>1. windows[w].view # "browser"
          BY <4>2
        <5> QED
          BY <4>1, <4>2, <5>1 DEF Viewed, Showing
      <4>4. windows[w].view # view
        <5> SUFFICES ASSUME windows[w].view = view PROVE FALSE
          OBVIOUS
        <5>1. w # Null
          BY <4>1, <1>4, NullIsNone
        <5>2. Shows(view)
          BY <4>2, <4>3, <5>1 DEF Shows
        <5>3. view = "ext"
          BY <1>13, <4>2, <5>2 DEF Names
        <5> QED
          BY <2>4, <4>1, <5>3
      <4> QED
        BY <1>11, <4>2, <4>3, <4>4
    <3> QED
      BY <3>1, <3>2
  <2>7. Named'
    <3> SUFFICES ASSUME NEW v \in Names, views'[v].win # Null
                 PROVE  views'[v].win \in DOMAIN windows' /\ windows'[views'[v].win].view = v
      BY DEF Named
    <3>1. CASE v = view
      BY <1>10, <1>12, <2>1, <2>2, <2>3, <3>1
    <3>2. CASE v # view
      <4>1. views[v].win \in DOMAIN windows /\ windows[views[v].win].view = v /\ views'[v] = views[v]
        BY <1>11, <3>2 DEF Viewed, Named
      <4>2. windows'[views[v].win].view = v
        BY <2>5, <4>1
      <4>3. views[v].win \in DOMAIN windows'
        BY <2>3, <4>1
      <4> QED
        BY <4>1, <4>2, <4>3
    <3> QED
      BY <3>1, <3>2
  <2>8. Fresh(view, c, url)
    BY <1>4, <1>9, <1>10, <2>1, <2>2 DEF Fresh, w0
  <2>9. \A w \in DOMAIN windows : windows[w].view # "ext" => windows'[w] = windows[w]
    <3> SUFFICES ASSUME NEW w \in DOMAIN windows, windows[w].view # "ext", w = used, view = "ext"
                 PROVE  FALSE
      BY <1>9, <2>2
    <3>1. w # Null
      BY <1>4, NullIsNone
    <3> QED
      BY <3>1 DEF Viewed, Named, used
  <2>10. windows'[n].view = view /\ windows'[n].open
    BY <1>10, <2>2
  <2> QED
    BY <1>4, <1>12, <2>1, <2>2, <2>3, <2>4, <2>6, <2>7, <2>8, <2>5, <2>9, <2>10 DEF Viewed, w0
<1>14. CASE Shows(view) /\ view \in {"pop", "tab"}
  <2>1. w0 = used /\ used \in DOMAIN windows /\ windows[used].open /\ windows[used].view = view
    BY <1>5, <1>6, <1>14
  <2>2. /\ windows' \in Seq(Screens) /\ DOMAIN windows' = DOMAIN windows
        /\ \A w \in DOMAIN windows : w # used => windows'[w] = windows[w]
        /\ windows'[used].view = view /\ windows'[used].open /\ windows'[used].by = windows[used].by
        /\ windows'[used].page \in {windows[used].page, Page(c, url)}
    <3>1. CASE windows' = windows
      BY <2>1, <3>1 DEF Viewed
    <3>2. CASE windows' = [windows EXCEPT ![used].page = Page(c, url)]
      <4>1. windows' = [windows EXCEPT ![used] = [windows[used] EXCEPT !.page = Page(c, url)]]
        BY <3>2
      <4> DEFINE x == [windows[used] EXCEPT !.page = Page(c, url)]
      <4>2. /\ x \in Screens /\ x.page = Page(c, url) /\ x.view = view /\ x.open
            /\ x.by = windows[used].by
        <5>1. windows[used] \in Screens
          BY <1>1, <2>1
        <5>2. /\ x \in Screens /\ x.page = Page(c, url) /\ x.view = windows[used].view
              /\ x.open = windows[used].open /\ x.by = windows[used].by
          BY <1>2, <1>3, <5>1
        <5> QED
          BY <2>1, <5>2
      <4> HIDE DEF x
      <4>3. windows' \in Seq(Screens) /\ DOMAIN windows' = DOMAIN windows
        BY <2>1, <4>1, <4>2 DEF Viewed, x
      <4>4. windows'[used] = x /\ \A w \in DOMAIN windows : w # used => windows'[w] = windows[w]
        BY <2>1, <4>1 DEF x, Viewed
      <4> QED
        BY <4>2, <4>3, <4>4
    <3> QED
      BY <1>6, <2>1, <3>1, <3>2
  <2>3. used \in Nat \ {0, Null}
    BY <1>4, <2>1, NullIsNone
  <2>4. Showing' /\ Named'
    <3>1. \A v \in Names : views'[v].win = views[v].win
      BY <1>11, <1>12, <2>1 DEF used
    <3>2. \A w \in DOMAIN windows : /\ windows'[w].view = windows[w].view
                                    /\ windows'[w].open => windows[w].open
      BY <2>1, <2>2
    <3>3. \A w \in DOMAIN windows : windows[w].view \in Names
      BY <1>1, <1>3
    <3>4. Showing'
      BY <2>2, <3>1, <3>2, <3>3 DEF Viewed, Showing
    <3>5. Named'
      BY <2>2, <3>1, <3>2 DEF Viewed, Named
    <3> QED
      BY <3>4, <3>5
  <2>5. Again(view, c, url)
    BY <1>14, <2>1, <2>2 DEF Again, w0
  <2>6. view # "ext"
    BY <1>14
  <2> QED
    BY <1>12, <2>1, <2>2, <2>3, <2>4, <2>5, <2>6 DEF Viewed, w0
<1> QED
  BY <1>13, <1>14

-----------------------------------------------------------------------------
(* The calls.                                                               *)

\* Where a call is, what it waits for and what its window shows.
Placed(c) ==
  /\ call[c].phase \in {"done", "answered"} <=> call[c].result # Null
  /\ call[c].phase \in {"listening", "answered"} => c \in listeners
  /\ call[c].phase \in {"fetching", "polling", "asking"} => job[c].method = "HTTP/POST"
  /\ c \in listeners => /\ call[c].phase \in {"listening", "answered", "done"}
                        /\ job[c].method # "HTTP/POST"
  /\ c \in timers => c \in listeners /\ call[c].win # Null
  /\ call[c].phase \in {"idle", "fetching"} => call[c].win = Null
  /\ call[c].phase \in {"listening", "answered", "polling", "asking"} => call[c].win # Null
  /\ call[c].phase = "again" => call[c].moved
  /\ call[c].phase \in {"polling", "asking"} => job[c].local # Null
  /\ call[c].win # Null =>
       /\ call[c].win \in DOMAIN windows
       /\ c \in listeners => windows[call[c].win].view = View[job[c].method]
       /\ call[c].phase \in {"polling", "asking"} => windows[call[c].win].view = View[job[c].local]
       /\ windows[call[c].win].view = "frame" => windows[call[c].win].page.for = c
       /\ call[c].phase \notin {"polling", "asking", "done"} => windows[call[c].win].view # "browser"

Core == TypeOK /\ Showing /\ Named /\ \A c \in Calls : Placed(c)

\* The windows stay, with what they view; one that is closed is not opened again.
Kept == \A w \in DOMAIN windows :
  /\ w \in DOMAIN windows' /\ windows'[w].view = windows[w].view
  /\ windows'[w].open => windows[w].open
  /\ windows[w].view = "frame" => windows'[w].page.for = windows[w].page.for

\* Of call d nothing changes but that it is not alone any more.
Else(d) ==
  /\ call'[d].phase = call[d].phase /\ call'[d].result = call[d].result
  /\ call'[d].win = call[d].win /\ call'[d].source = call[d].source
  /\ call'[d].moved = call[d].moved /\ call'[d].canContinue = call[d].canContinue
  /\ call'[d].shouldContinue = call[d].shouldContinue /\ call'[d].decision = call[d].decision
  /\ call'[d].inTime = call[d].inTime /\ (call'[d].alone => call[d].alone)

LEMMA PlacedStill ==
  ASSUME NEW c \in Calls, Placed(c), Kept, Else(c), job'[c] = job[c],
         c \in listeners' <=> c \in listeners, c \in timers' => c \in timers
  PROVE  Placed(c)'
<1>1. /\ call'[c].phase = call[c].phase /\ call'[c].result = call[c].result
      /\ call'[c].win = call[c].win /\ call'[c].moved = call[c].moved
  BY DEF Else
<1>2. call[c].win # Null =>
       /\ call[c].win \in DOMAIN windows'
       /\ windows'[call[c].win].view = windows[call[c].win].view
       /\ windows[call[c].win].view = "frame" => windows'[call[c].win].page.for = c
  BY DEF Placed, Kept
<1> QED
  BY <1>1, <1>2 DEF Placed

\* A call begins.
Started(c, phase, win, result) ==
  /\ call' \in [Calls -> States]
  /\ call'[c].phase = phase /\ call'[c].win = win /\ call'[c].result = result
  /\ call'[c].source = Null /\ call'[c].alone = Alone(c) /\ call'[c].moved = call[c].moved
  /\ call'[c].canContinue = call[c].canContinue /\ call'[c].shouldContinue = call[c].shouldContinue
  /\ call'[c].decision = call[c].decision /\ call'[c].inTime = call[c].inTime
  /\ \A d \in Calls \ {c} : Else(d) /\ (UnderWay(d) => ~ call'[d].alone)

LEMMA BeginsStarts ==
  ASSUME TypeOK, NEW c \in Calls, NEW phase \in Phases, NEW win \in Nat \cup {Null},
         NEW result \in Results \cup {Null}, Begins(c, phase, win, result)
  PROVE  Started(c, phase, win, result)
<1> DEFINE a == Alone(c)
<1>1. a \in BOOLEAN
  BY DEF Alone
<1>2. call' = [d \in Calls |->
                 IF d = c THEN [call[c] EXCEPT !.phase = phase, !.win = win, !.source = Null,
                                               !.result = result, !.alone = a]
                 ELSE IF UnderWay(d) THEN [call[d] EXCEPT !.alone = FALSE] ELSE call[d]]
  BY DEF Begins
<1> HIDE DEF a
<1>3. \A d \in Calls : call[d] \in States
  BY DEF TypeOK
<1>4. \A x \in States :
        /\ [x EXCEPT !.alone = FALSE] \in States
        /\ [x EXCEPT !.phase = phase, !.win = win, !.source = Null, !.result = result, !.alone = a]
             \in States
  BY <1>1 DEF States
<1>5. \A d \in Calls :
        call'[d] = IF d = c THEN [call[c] EXCEPT !.phase = phase, !.win = win, !.source = Null,
                                               !.result = result, !.alone = a]
                 ELSE IF UnderWay(d) THEN [call[d] EXCEPT !.alone = FALSE] ELSE call[d]
  BY <1>2
<1>6. call' \in [Calls -> States]
  BY <1>2, <1>3, <1>4
<1>7. ASSUME NEW d \in Calls \ {c} PROVE Else(d) /\ (UnderWay(d) => ~ call'[d].alone)
  <2>1. call'[d] = IF UnderWay(d) THEN [call[d] EXCEPT !.alone = FALSE] ELSE call[d]
    BY <1>5
  <2>2. call[d] \in States
    BY <1>3
  <2> QED
    BY <2>1, <2>2 DEF Else, States
<1>8. call'[c] = [call[c] EXCEPT !.phase = phase, !.win = win, !.source = Null,
                                               !.result = result, !.alone = a]
  BY <1>5
<1>9. /\ call'[c].phase = phase /\ call'[c].win = win /\ call'[c].result = result
      /\ call'[c].source = Null /\ call'[c].alone = a /\ call'[c].moved = call[c].moved
      /\ call'[c].canContinue = call[c].canContinue /\ call'[c].shouldContinue = call[c].shouldContinue
      /\ call'[c].decision = call[c].decision /\ call'[c].inTime = call[c].inTime
  BY <1>3, <1>8 DEF States
<1> QED
  BY <1>6, <1>7, <1>9 DEF Started, a

\* Its view threw, or shows its page.
Threw(c) ==
  /\ Started(c, "done", Null, Result("failed", c))
  /\ UNCHANGED <<timers, views, windows>>
Showed(c) ==
  /\ Started(c, "listening", Shown(View[job[c].method]), Null)
  /\ Renders(View[job[c].method], c, job[c].url)
  /\ ~ (View[job[c].method] = "frame" /\ Shows(View[job[c].method]))
  /\ timers' = IF View[job[c].method] \in {"pop", "tab"} THEN timers \cup {c} ELSE timers
Executes(c) ==
  /\ call[c].phase \in {"idle", "again"} /\ job[c].method # "HTTP/POST" /\ job[c].method \in Methods
  /\ View[job[c].method] \in Names /\ job[c].url \in STRING
  /\ listeners' = listeners \cup {c} /\ UNCHANGED <<job, mail>>
  /\ Threw(c) \/ Showed(c)

LEMMA ExecServiceKind ==
  ASSUME Core, NEW c \in Calls, NEW blocked \in BOOLEAN, execService(c, blocked) PROVE Executes(c)
<1> DEFINE view == View[job[c].method]
<1>1. /\ job[c] \in Services /\ job[c].method \in Methods /\ job[c].url \in STRING
      /\ call[c].phase \in {"idle", "again"} /\ job[c].method # "HTTP/POST" /\ view \in Names
      /\ listeners' = listeners \cup {c} /\ UNCHANGED <<job, mail>>
  BY ViewsOf DEF Core, TypeOK, Services, execService
<1> HIDE DEF view
<1>2. CASE Throws(view, blocked)
  <2>1. Begins(c, "done", Null, Result("failed", c)) /\ UNCHANGED <<timers, views, windows>>
    BY <1>2 DEF execService, view
  <2>2. Result("failed", c) \in Results
    BY DEF Result, Results
  <2> QED
    BY <1>1, <2>1, <2>2, BeginsStarts DEF Core, Executes, Threw, Phases, view
<1>3. CASE ~ Throws(view, blocked)
  <2>1. /\ Renders(view, c, job[c].url) /\ Begins(c, "listening", Shown(view), Null)
        /\ timers' = IF view \in {"pop", "tab"} THEN timers \cup {c} ELSE timers
        /\ ~ (view = "frame" /\ Shows(view))
    BY <1>3 DEF execService, Throws, view
  <2>2. Shown(view) \in Nat
    BY <1>1, <2>1, RendersFacts DEF Core, TypeOK, Viewed
  <2>3. Started(c, "listening", Shown(view), Null)
    BY <2>1, <2>2, BeginsStarts DEF Core, Phases
  <2> QED
    BY <1>1, <2>1, <2>3 DEF Executes, Showed, view
<1> QED
  BY <1>2, <1>3

-----------------------------------------------------------------------------
(* A call ends, or goes on with the service it was redirected to.           *)

\* What neither changes.
Rests(d) ==
  /\ call'[d].win = call[d].win /\ call'[d].source = call[d].source
  /\ call'[d].alone = call[d].alone /\ call'[d].canContinue = call[d].canContinue
  /\ call'[d].shouldContinue = call[d].shouldContinue /\ call'[d].decision = call[d].decision
  /\ call'[d].inTime = call[d].inTime
Finished(d) ==
  /\ call'[d].phase = "done" /\ call'[d].result \in Results
  /\ call[d].result # Null => call'[d].result = call[d].result
  /\ call'[d].moved = call[d].moved /\ Rests(d)
MovesOn(d) ==
  /\ call'[d].phase = "again" /\ call[d].result = Null /\ call'[d].result = Null
  /\ call'[d].moved /\ Rests(d)

LEMMA SettledFacts ==
  ASSUME call \in [Calls -> States], NEW c \in Calls, NEW r,
         r \in Results \/ call[c].result # Null
  PROVE  /\ Settled(c, r) \in States /\ Settled(c, r).phase = "done"
         /\ Settled(c, r).result = IF call[c].result = Null THEN r ELSE call[c].result
         /\ Settled(c, r).result \in Results
         /\ call'[c] = Settled(c, r) => Finished(c)
<1>1. call[c] \in States /\ call[c].result \in Results \cup {Null}
  BY DEF States
<1>2. \A x \in States : [x EXCEPT !.phase = "done"] \in States
  BY DEF States, Phases
<1>3. \A x \in States : \A s \in Results : [x EXCEPT !.phase = "done", !.result = s] \in States
  BY DEF States, Phases
<1>4. Settled(c, r) \in States
  BY <1>1, <1>2, <1>3 DEF Settled
<1>5. /\ Settled(c, r).phase = "done"
      /\ Settled(c, r).result = IF call[c].result = Null THEN r ELSE call[c].result
      /\ Settled(c, r).moved = call[c].moved
      /\ Settled(c, r).win = call[c].win /\ Settled(c, r).source = call[c].source
      /\ Settled(c, r).alone = call[c].alone /\ Settled(c, r).canContinue = call[c].canContinue
      /\ Settled(c, r).shouldContinue = call[c].shouldContinue
      /\ Settled(c, r).decision = call[c].decision /\ Settled(c, r).inTime = call[c].inTime
  BY <1>1 DEF Settled, States
<1>6. Settled(c, r).result \in Results
  BY <1>1, <1>5
<1> QED
  BY <1>4, <1>5, <1>6 DEF Finished, Rests

LEMMA RedirectedFacts ==
  ASSUME call \in [Calls -> States], NEW c \in Calls, call[c].result = Null
  PROVE  /\ Redirected(c) \in States
         /\ call'[c] = Redirected(c) => \/ MovesOn(c)
                                        \/ Finished(c) /\ call'[c].result = Result("failed", c)
<1>1. CASE RedirectTo.type = job[c].type
  <2>1. Redirected(c) = [call[c] EXCEPT !.phase = "again", !.moved = TRUE]
    BY <1>1 DEF Redirected
  <2>2. call[c] \in States
    OBVIOUS
  <2>3. Redirected(c) \in States
    BY <2>1, <2>2 DEF States, Phases
  <2>4. call'[c] = Redirected(c) => MovesOn(c)
    BY <2>1, <2>2 DEF States, MovesOn, Rests
  <2> QED
    BY <2>3, <2>4
<1>2. CASE RedirectTo.type # job[c].type
  <2>1. Redirected(c) = Settled(c, Result("failed", c))
    BY <1>2 DEF Redirected
  <2>2. Result("failed", c) \in Results
    BY DEF Result, Results
  <2> QED
    BY <2>1, <2>2, SettledFacts
<1> QED
  BY <1>1, <1>2

LEMMA RedirectsFacts ==
  ASSUME job \in [Calls -> Services], NEW C \in SUBSET Calls, Redirects(C)
  PROVE  /\ job' \in [Calls -> Services]
         /\ \A d \in Calls : /\ d \notin C => job'[d] = job[d]
                             /\ job'[d].local = job[d].local /\ job'[d].redir = job[d].redir
                             /\ job'[d].hook => job[d].hook
<1>1. \A d \in Calls : job[d] \in Services
  OBVIOUS
<1>2. RedirectTo.method \in Methods /\ RedirectTo.url \in STRING
  BY ServiceAssumption
<1> DEFINE to(x) == [x EXCEPT !.method = RedirectTo.method, !.url = RedirectTo.url, !.hook = FALSE]
<1>3. \A x \in Services : /\ to(x) \in Services /\ to(x).local = x.local /\ to(x).redir = x.redir
                          /\ ~ to(x).hook
  BY <1>2 DEF Services
<1>4. job' = [d \in Calls |-> IF d \notin C THEN job[d] ELSE to(job[d])]
  BY DEF Redirects
<1> HIDE DEF to
<1> QED
  BY <1>1, <1>3, <1>4

\* The handlers and intervals of the calls C were reached, those of U ended.
Unshown(U) == {View[job[c].method] : c \in {d \in U : call[d].win # Null}} \ {"ext"}
Outcome(d) ==
  \/ call'[d].result = Result("failed", d)
  \/ /\ mail # << >> /\ mail[1].type \in {"RESPONSE", "JSONRPC", "CLOSE"} /\ Accepts(d, mail[1])
     /\ call'[d].result.of = mail[1].of
     /\ mail[1].type = "CLOSE" => call'[d].result.how = "halted"
  \/ /\ d \in timers /\ ~ windows[call[d].win].open
     /\ call'[d].result = Result("halted", IF windows[call[d].win].by = "user" THEN d ELSE Null)
Took(C, U) ==
  /\ C \subseteq listeners /\ U \subseteq C
  /\ call' \in [Calls -> States] /\ job' \in [Calls -> Services]
  /\ listeners' = listeners \ U /\ timers' = timers \ U
  /\ Closes(Unshown(U))
  /\ mail' = mail \/ (mail # << >> /\ mail' = Tail(mail))
  /\ \A d \in Calls \ C : call'[d] = call[d] /\ job'[d] = job[d]
  /\ \A d \in C : Finished(d) \/ (MovesOn(d) /\ d \in U)
  /\ \A d \in C : Finished(d) /\ call[d].result = Null => Outcome(d)
  /\ \A d \in C \ U : job'[d] = job[d] /\ job[d].redir /\ ~ job[d].hook /\ Finished(d)
  /\ \A d \in C : /\ job'[d] # job[d] =>
                       /\ call[d].result = Null
                       /\ Finished(d) => call'[d].result = Result("failed", d)
                  /\ job'[d].local = job[d].local

LEMMA ResponseTakes ==
  ASSUME Core, onResponse
  PROVE  \E C \in SUBSET Calls : \E U \in SUBSET Calls : Took(C, U)
<1> DEFINE m == mail[1]
           C == Takers(m)
           U == {c \in Takers(m) : ~ Keeps(c, m)}
           r == Result(IF m.status = "APPROVED" THEN "approved" ELSE "declined", m.of)
<1>1. m \in Messages /\ C \in SUBSET Calls /\ C \subseteq listeners /\ U \subseteq C
  BY DEF onResponse, Core, TypeOK, Takers
<1>2. r \in Results /\ r.of = m.of
  BY <1>1 DEF Result, Results, Messages
<1>3. \A d \in Calls : call'[d] = IF d \in C THEN Settled(d, r) ELSE call[d]
  BY DEF onResponse
<1>4. call' \in [Calls -> States]
  <2>1. call' = [d \in Calls |-> IF d \in C THEN Settled(d, r) ELSE call[d]]
    BY DEF onResponse
  <2>2. \A d \in Calls : Settled(d, r) \in States /\ call[d] \in States
    BY <1>2, SettledFacts DEF Core, TypeOK
  <2> HIDE DEF r, C
  <2> QED
    BY <2>1, <2>2
<1>5. \A d \in C : Finished(d)
  BY <1>1, <1>2, <1>3, SettledFacts DEF Core, TypeOK
<1>6. \A d \in C : call[d].result = Null => Outcome(d)
  <2> SUFFICES ASSUME NEW d \in C, call[d].result = Null PROVE Outcome(d)
    OBVIOUS
  <2>1. d \in Calls /\ call'[d].result = r
    BY <1>1, <1>2, <1>3, SettledFacts DEF Core, TypeOK
  <2>2. Accepts(d, m)
    BY DEF Takers
  <2>3. mail # << >> /\ m.type \in {"RESPONSE", "JSONRPC"}
    BY DEF onResponse
  <2> QED
    BY <1>2, <2>1, <2>2, <2>3 DEF Outcome
<1>7. \A d \in C \ U : job[d].redir /\ ~ job[d].hook
  BY DEF Keeps
<1>8. job' = job /\ mail # << >> /\ mail' = Tail(mail) /\ Unmounts(U)
  BY DEF onResponse
<1>9. /\ listeners' = listeners \ U /\ timers' = timers \ U /\ Closes(Unshown(U))
  BY <1>8 DEF Unmounts, Unshown
<1> HIDE DEF C, U, m, r
<1>10. \A d \in Calls \ C : call'[d] = call[d]
  BY <1>3
<1>11. Took(C, U)
  BY <1>1, <1>4, <1>5, <1>6, <1>7, <1>8, <1>9, <1>10 DEF Took, Core, TypeOK
<1> QED
  BY <1>1, <1>11

LEMMA CloseTakes ==
  ASSUME Core, onClose
  PROVE  \E C \in SUBSET Calls : \E U \in SUBSET Calls : Took(C, U)
<1> DEFINE m == mail[1]
           C == Takers(m)
           r == Result("halted", m.of)
<1>1. m \in Messages /\ C \in SUBSET Calls /\ C \subseteq listeners
  BY DEF onClose, Delivers, Core, TypeOK, Takers
<1>2. r \in Results /\ r.of = m.of /\ r.how = "halted"
  BY <1>1 DEF Result, Results, Messages
<1>3. \A d \in Calls : call'[d] = IF d \in C THEN Settled(d, r) ELSE call[d]
  BY DEF onClose
<1>4. call' \in [Calls -> States]
  <2>1. call' = [d \in Calls |-> IF d \in C THEN Settled(d, r) ELSE call[d]]
    BY DEF onClose
  <2>2. \A d \in Calls : Settled(d, r) \in States /\ call[d] \in States
    BY <1>2, SettledFacts DEF Core, TypeOK
  <2> HIDE DEF r, C
  <2> QED
    BY <2>1, <2>2
<1>5. \A d \in C : Finished(d)
  BY <1>1, <1>2, <1>3, SettledFacts DEF Core, TypeOK
<1>6. \A d \in C : call[d].result = Null => Outcome(d)
  <2> SUFFICES ASSUME NEW d \in C, call[d].result = Null PROVE Outcome(d)
    OBVIOUS
  <2>1. d \in Calls /\ call'[d].result = r
    BY <1>1, <1>2, <1>3, SettledFacts DEF Core, TypeOK
  <2>2. Accepts(d, m)
    BY DEF Takers
  <2>3. mail # << >> /\ m.type = "CLOSE"
    BY DEF onClose, Delivers
  <2> QED
    BY <1>2, <2>1, <2>2, <2>3 DEF Outcome
<1>7. job' = job /\ mail # << >> /\ mail' = Tail(mail) /\ Unmounts(C)
  BY DEF onClose, Delivers
<1>8. /\ listeners' = listeners \ C /\ timers' = timers \ C /\ Closes(Unshown(C))
  BY <1>7 DEF Unmounts, Unshown
<1> HIDE DEF C, m, r
<1>9. \A d \in Calls \ C : call'[d] = call[d]
  BY <1>3
<1>10. Took(C, C)
  BY <1>1, <1>4, <1>5, <1>6, <1>7, <1>8, <1>9 DEF Took, Core, TypeOK
<1> QED
  BY <1>1, <1>10

LEMMA RedirectTakes ==
  ASSUME Core, onRedirect
  PROVE  \E C \in SUBSET Calls : \E U \in SUBSET Calls : Took(C, U)
<1> DEFINE m == mail[1]
           C == Takers(m)
           moves == {c \in Takers(m) : call[c].result = Null}
<1>1. C \in SUBSET Calls /\ C \subseteq listeners /\ moves \subseteq C
  BY DEF onRedirect, Delivers, Core, TypeOK, Takers
<1>2. \A d \in Calls : call'[d] = IF d \in moves THEN Redirected(d)
                                  ELSE IF d \in C THEN Settled(d, Null) ELSE call[d]
  BY DEF onRedirect
<1>3. \A d \in Calls \ moves : d \in C => call[d].result # Null
  OBVIOUS
<1>4. \A d \in moves : call[d].result = Null
  OBVIOUS
<1>5. call' = [d \in Calls |-> IF d \in moves THEN Redirected(d)
                               ELSE IF d \in C THEN Settled(d, Null) ELSE call[d]]
  BY DEF onRedirect
<1>6. Redirects(moves) /\ Unmounts(C) /\ mail # << >> /\ mail' = Tail(mail)
  BY DEF onRedirect, Delivers
<1> HIDE DEF C, moves, m
<1>7. call' \in [Calls -> States]
  <2>1. \A d \in Calls : call'[d] \in States
    BY <1>2, <1>3, <1>4, SettledFacts, RedirectedFacts DEF Core, TypeOK
  <2> QED
    BY <1>5, <2>1
<1>8. \A d \in moves : MovesOn(d) \/ (Finished(d) /\ call'[d].result = Result("failed", d))
  BY <1>1, <1>2, <1>4, RedirectedFacts DEF Core, TypeOK
<1>9. \A d \in C \ moves : Finished(d) /\ call[d].result # Null
  BY <1>1, <1>2, <1>3, SettledFacts DEF Core, TypeOK
<1>10. /\ job' \in [Calls -> Services]
       /\ \A d \in Calls : (d \notin moves => job'[d] = job[d]) /\ job'[d].local = job[d].local
  BY <1>1, <1>6, RedirectsFacts DEF Core, TypeOK
<1>11. listeners' = listeners \ C /\ timers' = timers \ C /\ Closes(Unshown(C))
  BY <1>6 DEF Unmounts, Unshown
<1>12. \A d \in Calls \ C : call'[d] = call[d] /\ job'[d] = job[d]
  BY <1>1, <1>2, <1>10
<1>13. \A d \in C : Finished(d) \/ (MovesOn(d) /\ d \in C)
  BY <1>8, <1>9
<1>14. \A d \in C : Finished(d) /\ call[d].result = Null => Outcome(d)
  <2> SUFFICES ASSUME NEW d \in moves, Finished(d) PROVE Outcome(d)
    BY <1>9
  <2>1. ~ MovesOn(d)
    BY DEF Finished, MovesOn
  <2> QED
    BY <1>8, <2>1 DEF Outcome
<1>15. \A d \in C : /\ job'[d] # job[d] =>
                         /\ call[d].result = Null
                         /\ Finished(d) => call'[d].result = Result("failed", d)
                    /\ job'[d].local = job[d].local
  <2>1. \A d \in moves : Finished(d) => ~ MovesOn(d)
    BY DEF Finished, MovesOn
  <2> QED
    BY <1>1, <1>4, <1>8, <1>10, <2>1
<1>16. Took(C, C)
  BY <1>1, <1>6, <1>7, <1>10, <1>11, <1>12, <1>13, <1>14, <1>15 DEF Took
<1> QED
  BY <1>1, <1>16

LEMMA OneCall ==
  ASSUME call \in [Calls -> States], NEW c \in Calls, NEW x \in States, call' = [call EXCEPT ![c] = x]
  PROVE  /\ call' \in [Calls -> States] /\ call'[c] = x
         /\ \A d \in Calls \ {c} : call'[d] = call[d]
  OBVIOUS

LEMMA TimerTakes ==
  ASSUME Core, NEW c \in Calls, TimerFires(c)
  PROVE  \E C \in SUBSET Calls : \E U \in SUBSET Calls : Took(C, U)
<1> DEFINE w == windows[call[c].win]
           r == Result("halted", IF w.by = "user" THEN c ELSE Null)
<1>1. /\ c \in timers /\ ~ w.open /\ c \in listeners
      /\ call' = [call EXCEPT ![c] = Settled(c, r)] /\ Unmounts({c}) /\ UNCHANGED <<job, mail>>
  BY DEF TimerFires, Core, Placed
<1>2. r \in Results
  BY DEF Result, Results
<1>3. Settled(c, r) \in States
  BY <1>2, SettledFacts DEF Core, TypeOK
<1>4. /\ call' \in [Calls -> States] /\ call'[c] = Settled(c, r)
      /\ \A d \in Calls \ {c} : call'[d] = call[d]
  BY <1>1, <1>3, OneCall DEF Core, TypeOK
<1>5. Finished(c) /\ (call[c].result = Null => Outcome(c))
  BY <1>1, <1>2, <1>4, SettledFacts DEF Core, TypeOK, Outcome
<1>6. listeners' = listeners \ {c} /\ timers' = timers \ {c} /\ Closes(Unshown({c}))
  BY <1>1 DEF Unmounts, Unshown
<1>7. Took({c}, {c})
  BY <1>1, <1>4, <1>5, <1>6 DEF Took, Core, TypeOK
<1> QED
  BY <1>7

LEMMA HookTakes ==
  ASSUME Core, NEW c \in Calls, HookAborts(c)
  PROVE  \E C \in SUBSET Calls : \E U \in SUBSET Calls : Took(C, U)
<1>1. /\ call[c].phase = "answered" /\ c \in listeners /\ call[c].result # Null
      /\ call' = [call EXCEPT ![c].phase = "done"] /\ Unmounts({c}) /\ UNCHANGED <<job, mail>>
  BY DEF HookAborts, Core, Placed
<1>2. call' = [call EXCEPT ![c] = Settled(c, Null)]
  BY <1>1 DEF Settled
<1>3. Settled(c, Null) \in States
  BY <1>1, SettledFacts DEF Core, TypeOK
<1>4. /\ call' \in [Calls -> States] /\ call'[c] = Settled(c, Null)
      /\ \A d \in Calls \ {c} : call'[d] = call[d]
  BY <1>2, <1>3, OneCall DEF Core, TypeOK
<1>5. Finished(c)
  BY <1>1, <1>4, SettledFacts DEF Core, TypeOK
<1>6. listeners' = listeners \ {c} /\ timers' = timers \ {c} /\ Closes(Unshown({c}))
  BY <1>1 DEF Unmounts, Unshown
<1>7. Took({c}, {c})
  BY <1>1, <1>4, <1>5, <1>6 DEF Took, Core, TypeOK
<1> QED
  BY <1>7

-----------------------------------------------------------------------------
(* Each step keeps the types, the views and where the calls are.            *)

LEMMA CoreParts ==
  Core => /\ Viewed /\ job \in [Calls -> Services] /\ call \in [Calls -> States]
          /\ listeners \in SUBSET Calls /\ timers \in SUBSET Calls /\ mail \in Seq(Messages)
          /\ \A c \in Calls : /\ Placed(c) /\ call[c] \in States /\ job[c] \in Services
                              /\ job[c].method \in Methods /\ job[c].url \in STRING
                              /\ job[c].local \in Locals \cup {Null}
          /\ \A w \in DOMAIN windows : windows[w] \in Screens
  BY DEF Core, TypeOK, Viewed, Services

LEMMA CoreBuilt ==
  ASSUME Viewed', job' \in [Calls -> Services], call' \in [Calls -> States],
         listeners' \in SUBSET Calls, timers' \in SUBSET Calls, mail' \in Seq(Messages),
         \A c \in Calls : Placed(c)'
  PROVE  Core'
  BY DEF Core, TypeOK, Viewed

LEMMA UnshownNames ==
  ASSUME Core, NEW U \in SUBSET listeners
  PROVE  Unshown(U) \in SUBSET Names /\ "ext" \notin Unshown(U) /\ "browser" \notin Unshown(U)
<1>1. \A c \in U : c \in Calls /\ job[c].method \in Methods /\ job[c].method # "HTTP/POST"
  BY DEF Core, TypeOK, Placed, Services
<1>2. \A c \in U : View[job[c].method] \in Names \ {"browser"}
  BY <1>1, ViewsOf
<1> QED
  BY <1>2 DEF Unshown

LEMMA TookViews ==
  ASSUME Core, NEW C \in SUBSET Calls, NEW U \in SUBSET Calls, Took(C, U)
  PROVE  /\ Viewed' /\ Kept /\ DOMAIN windows' = DOMAIN windows
         /\ \A w \in DOMAIN windows : Shut(w)
         /\ \A w \in DOMAIN windows : windows[w].view \in Unshown(U) => ~ windows'[w].open
         /\ \A v \in Names \ Unshown(U) : views'[v] = views[v]
         /\ \A w \in DOMAIN windows : windows[w].view \notin Unshown(U) => windows'[w] = windows[w]
<1>1. U \in SUBSET listeners /\ Closes(Unshown(U))
  BY DEF Took
<1>2. Unshown(U) \in SUBSET Names /\ "browser" \notin Unshown(U)
  BY <1>1, UnshownNames
<1>3. /\ Viewed' /\ DOMAIN windows' = DOMAIN windows
      /\ \A w \in DOMAIN windows : Shut(w)
      /\ \A w \in DOMAIN windows : windows[w].view \in Unshown(U) \ {"browser"} => ~ windows'[w].open
      /\ \A v \in Names \ Unshown(U) : views'[v] = views[v]
      /\ \A w \in DOMAIN windows : windows[w].view \notin Unshown(U) => windows'[w] = windows[w]
  BY <1>1, <1>2, CoreParts, ClosesFacts
<1>4. Kept
  BY <1>3 DEF Kept, Shut
<1> QED
  BY <1>2, <1>3, <1>4

LEMMA MailTyped ==
  ASSUME mail \in Seq(Messages), mail' = mail \/ (mail # << >> /\ mail' = Tail(mail))
  PROVE  mail' \in Seq(Messages)
  OBVIOUS

LEMMA TookCore ==
  ASSUME Core, NEW C \in SUBSET Calls, NEW U \in SUBSET Calls, Took(C, U)
  PROVE  Core'
<1>1. Viewed' /\ Kept
  BY TookViews
<1>2. /\ job' \in [Calls -> Services] /\ call' \in [Calls -> States]
      /\ listeners' \in SUBSET Calls /\ timers' \in SUBSET Calls
      /\ listeners' = listeners \ U /\ timers' = timers \ U
  BY CoreParts DEF Took
<1>3. mail' \in Seq(Messages)
  BY CoreParts, MailTyped DEF Took
<1>4. ASSUME NEW c \in Calls PROVE Placed(c)'
  <2>1. Placed(c)
    BY DEF Core
  <2>2. CASE c \notin C
    <3>1. call'[c] = call[c] /\ job'[c] = job[c]
      BY <2>2 DEF Took
    <3>2. Else(c) /\ (c \in listeners' <=> c \in listeners) /\ (c \in timers' => c \in timers)
      BY <1>2, <2>2, <3>1 DEF Else, Took
    <3> QED
      BY <1>1, <2>1, <3>1, <3>2, PlacedStill
  <2>3. CASE c \in C
    <3>1. c \in listeners /\ call[c].phase \in {"listening", "answered", "done"}
      BY <2>1, <2>3 DEF Took, Placed
    <3>2. call'[c].win = call[c].win
      BY <2>3 DEF Took, Finished, MovesOn, Rests
    <3>3. call[c].win # Null =>
            /\ call[c].win \in DOMAIN windows'
            /\ windows'[call[c].win].view = windows[call[c].win].view
            /\ windows[call[c].win].view = "frame" => windows'[call[c].win].page.for = c
      BY <1>1, <2>1 DEF Placed, Kept
    <3>4. CASE Finished(c)
      <4>1. call'[c].phase = "done" /\ call'[c].result # Null
        BY <3>4, NullIsNone DEF Finished
      <4>2. CASE c \in U
        <5>1. c \notin listeners' /\ c \notin timers'
          BY <1>2, <4>2
        <5> QED
          BY <2>1, <3>2, <3>3, <4>1, <5>1 DEF Placed
      <4>3. CASE c \notin U
        <5>1. job'[c] = job[c]
          BY <2>3, <4>3 DEF Took
        <5>2. (c \in listeners' <=> c \in listeners) /\ (c \in timers' => c \in timers)
          BY <1>2, <4>3
        <5> QED
          BY <2>1, <3>1, <3>2, <3>3, <4>1, <5>1, <5>2 DEF Placed
      <4> QED
        BY <4>2, <4>3
    <3>5. CASE MovesOn(c) /\ c \in U
      <4>1. c \notin listeners' /\ c \notin timers'
        BY <1>2, <3>5
      <4>2. call'[c].phase = "again" /\ call[c].result = Null /\ call'[c].result = Null /\ call'[c].moved
        BY <3>5 DEF MovesOn
      <4>3. call[c].phase = "listening"
        BY <2>1, <3>1, <4>2 DEF Placed
      <4> QED
        BY <2>1, <3>2, <3>3, <4>1, <4>2, <4>3 DEF Placed
    <3> QED
      BY <2>3, <3>4, <3>5 DEF Took
  <2> QED
    BY <2>2, <2>3
<1> QED
  BY <1>1, <1>2, <1>3, <1>4, CoreBuilt

\* A page is ready and the handlers that take its message answer it.
Hears(w, c) == /\ c \in Takers(mail[1]) /\ call[c].win # Null
               /\ View[job[c].method] = windows[w].view
               /\ windows[w].view # "ext" => call[c].win = w
Heeds ==
  /\ mail # << >> /\ mail' = Tail(mail) /\ UNCHANGED <<job, listeners, timers, views>>
  /\ call' \in [Calls -> States] /\ windows' \in Seq(Screens)
  /\ DOMAIN windows' = DOMAIN windows
  /\ \A c \in Calls :
       /\ call'[c].phase = call[c].phase /\ call'[c].result = call[c].result
       /\ call'[c].win = call[c].win /\ call'[c].alone = call[c].alone
       /\ call'[c].moved = call[c].moved /\ call'[c].canContinue = call[c].canContinue
       /\ call'[c].shouldContinue = call[c].shouldContinue /\ call'[c].decision = call[c].decision
       /\ call'[c].inTime = call[c].inTime
       /\ \/ call'[c].source = call[c].source
          \/ c \in Takers(mail[1]) /\ call[c].source = Null /\ call'[c].source = mail[1].source
  /\ \A w \in DOMAIN windows :
       /\ windows'[w].view = windows[w].view /\ windows'[w].open = windows[w].open
       /\ windows'[w].by = windows[w].by
       /\ windows'[w].page.for = windows[w].page.for /\ windows'[w].page.ended = windows[w].page.ended
       /\ windows'[w].page.ready = windows[w].page.ready
       /\ \A c \in windows'[w].page.heard : c \in windows[w].page.heard \/ Hears(w, c)

LEMMA ReadyHeeds == ASSUME Core, onReady PROVE Heeds
<1> DEFINE m == mail[1]
           T == Takers(m)
           h(w) == {c \in T : /\ call[c].win # Null
                              /\ View[job[c].method] = windows[w].view
                              /\ windows[w].view # "ext" => call[c].win = w}
<1>1. mail # << >> /\ mail' = Tail(mail) /\ UNCHANGED <<job, listeners, timers, views>>
  BY DEF onReady, Delivers
<1>2. m \in Messages /\ m.source \in Nat
  <2>1. mail \in Seq(Messages)
    BY CoreParts
  <2>2. mail[1] \in Messages
    BY <1>1, <2>1
  <2> QED
    BY <2>2 DEF Messages
<1>3. call' = [c \in Calls |-> IF c \in T /\ call[c].source = Null
                               THEN [call[c] EXCEPT !.source = m.source] ELSE call[c]]
  BY DEF onReady
<1>4. \A w \in DOMAIN windows : h(w) \subseteq Calls /\ \A c \in h(w) : Hears(w, c)
  <2>1. T \subseteq Calls
    BY CoreParts DEF Takers
  <2> QED
    BY <2>1 DEF Hears
<1>5. windows' = [w \in DOMAIN windows |->
                    IF windows[w].open THEN [windows[w] EXCEPT !.page.heard = @ \cup h(w)] ELSE windows[w]]
  BY DEF onReady
<1> HIDE DEF h, T, m
<1>6. \A x \in States : /\ [x EXCEPT !.source = m.source] \in States
        /\ [x EXCEPT !.source = m.source].source = m.source
        /\ \A y \in {[x EXCEPT !.source = m.source]} :
             /\ y.phase = x.phase /\ y.result = x.result /\ y.win = x.win /\ y.alone = x.alone
             /\ y.moved = x.moved /\ y.canContinue = x.canContinue
             /\ y.shouldContinue = x.shouldContinue /\ y.decision = x.decision /\ y.inTime = x.inTime
  BY <1>2 DEF States
<1>7. call' \in [Calls -> States]
  BY <1>3, <1>6, CoreParts
<1>8. ASSUME NEW c \in Calls
      PROVE  /\ call'[c].phase = call[c].phase /\ call'[c].result = call[c].result
             /\ call'[c].win = call[c].win /\ call'[c].alone = call[c].alone
             /\ call'[c].moved = call[c].moved /\ call'[c].canContinue = call[c].canContinue
             /\ call'[c].shouldContinue = call[c].shouldContinue /\ call'[c].decision = call[c].decision
             /\ call'[c].inTime = call[c].inTime
             /\ \/ call'[c].source = call[c].source
                \/ c \in Takers(mail[1]) /\ call[c].source = Null /\ call'[c].source = mail[1].source
  <2>1. call[c] \in States
    BY CoreParts
  <2>2. call'[c] = IF c \in T /\ call[c].source = Null
                   THEN [call[c] EXCEPT !.source = m.source] ELSE call[c]
    BY <1>3
  <2>3. CASE c \in T /\ call[c].source = Null
    BY <1>6, <2>1, <2>2, <2>3 DEF T, m
  <2>4. CASE ~ (c \in T /\ call[c].source = Null)
    BY <2>2, <2>4
  <2> QED
    BY <2>3, <2>4
<1>9. \A x \in Screens : \A H \in SUBSET Calls :
        /\ [x EXCEPT !.page.heard = @ \cup H] \in Screens
        /\ \A y \in {[x EXCEPT !.page.heard = @ \cup H]} :
             /\ y.view = x.view /\ y.open = x.open /\ y.by = x.by /\ y.page.for = x.page.for
             /\ y.page.ended = x.page.ended /\ y.page.ready = x.page.ready
             /\ y.page.heard = x.page.heard \cup H
  BY DEF Screens, Pages
<1>10. ASSUME NEW w \in DOMAIN windows
       PROVE  /\ windows'[w] \in Screens
              /\ windows'[w].view = windows[w].view /\ windows'[w].open = windows[w].open
              /\ windows'[w].by = windows[w].by
              /\ windows'[w].page.for = windows[w].page.for /\ windows'[w].page.ended = windows[w].page.ended
              /\ windows'[w].page.ready = windows[w].page.ready
              /\ \A c \in windows'[w].page.heard : c \in windows[w].page.heard \/ Hears(w, c)
  <2>1. windows[w] \in Screens
    BY CoreParts
  <2>2. windows'[w] = IF windows[w].open THEN [windows[w] EXCEPT !.page.heard = @ \cup h(w)] ELSE windows[w]
    BY <1>5
  <2>3. h(w) \in SUBSET Calls /\ \A c \in h(w) : Hears(w, c)
    BY <1>4
  <2>4. CASE windows[w].open
    <3>1. windows'[w] = [windows[w] EXCEPT !.page.heard = @ \cup h(w)]
      BY <2>2, <2>4
    <3> QED
      BY <1>9, <2>1, <2>3, <3>1
  <2>5. CASE ~ windows[w].open
    BY <2>1, <2>2, <2>5
  <2> QED
    BY <2>4, <2>5
<1>11. windows' \in Seq(Screens) /\ DOMAIN windows' = DOMAIN windows
  <2>1. DOMAIN windows' = DOMAIN windows /\ windows' = [w \in DOMAIN windows |-> windows'[w]]
    BY <1>5
  <2> QED
    BY <1>10, <2>1, SeqPointwise, CoreParts DEF Viewed
<1> QED
  BY <1>1, <1>7, <1>8, <1>10, <1>11 DEF Heeds

LEMMA HeedsCore == ASSUME Core, Heeds PROVE Core'
<1>1. UNCHANGED <<job, listeners, timers, views>> /\ call' \in [Calls -> States] /\ Kept
  BY DEF Heeds, Kept
<1>2. mail' \in Seq(Messages)
  BY CoreParts, MailTyped DEF Heeds
<1>3. Viewed'
  <2>1. Showing' /\ Named'
    <3>1. \A w \in DOMAIN windows : windows'[w].view = windows[w].view /\ windows'[w].open = windows[w].open
      BY DEF Heeds
    <3>2. DOMAIN windows' = DOMAIN windows /\ views' = views
      BY DEF Heeds
    <3> QED
      BY <3>1, <3>2 DEF Core, Showing, Named
  <2> QED
    BY <2>1, CoreParts DEF Heeds, Viewed
<1>4. ASSUME NEW c \in Calls PROVE Placed(c)'
  <2>1. /\ call'[c].phase = call[c].phase /\ call'[c].result = call[c].result
        /\ call'[c].win = call[c].win /\ call'[c].moved = call[c].moved
    BY DEF Heeds
  <2>2. Placed(c)
    BY CoreParts
  <2>3. call[c].win # Null =>
          /\ call[c].win \in DOMAIN windows'
          /\ windows'[call[c].win].view = windows[call[c].win].view
          /\ windows[call[c].win].view = "frame" => windows'[call[c].win].page.for = c
    BY <1>1, <2>2 DEF Placed, Kept
  <2> QED
    BY <1>1, <2>1, <2>2, <2>3 DEF Placed
<1> QED
  BY <1>1, <1>2, <1>3, <1>4, CoreBuilt, CoreParts

-----------------------------------------------------------------------------
(* A strategy starts.                                                       *)

LEMMA RendersKept ==
  ASSUME Core, NEW view \in Names, NEW c \in Calls, NEW url \in STRING,
         Renders(view, c, url), ~ (view = "frame" /\ Shows(view))
  PROVE  Viewed' /\ Kept
<1>1. /\ Viewed' /\ DOMAIN windows' = DOMAIN windows \cup {Shown(view)}
      /\ Fresh(view, c, url) \/ Again(view, c, url)
      /\ \A w \in DOMAIN windows :
              /\ windows'[w].view = windows[w].view /\ (windows'[w].open => windows[w].open)
              /\ w # Shown(view) => windows'[w].page = windows[w].page
  BY RendersFacts, CoreParts
<1>2. ASSUME NEW w \in DOMAIN windows, windows[w].view = "frame" PROVE w # Shown(view)
  BY <1>1, <1>2 DEF Fresh, Again
<1> QED
  BY <1>1, <1>2 DEF Kept

LEMMA ExecutesCore ==
  ASSUME Core, NEW c \in Calls, Executes(c) PROVE Core'
<1> DEFINE view == View[job[c].method]
<1>1. /\ Placed(c) /\ call[c].phase \in {"idle", "again"} /\ c \notin listeners /\ c \notin timers
      /\ listeners' = listeners \cup {c} /\ UNCHANGED <<job, mail>>
      /\ job[c].method # "HTTP/POST" /\ job[c].method \in Methods /\ view \in Names
      /\ job[c].url \in STRING
  BY CoreParts DEF Executes, Placed
<1>2. ASSUME Kept, call' \in [Calls -> States], \A d \in Calls \ {c} : Else(d),
             \A d \in Calls \ {c} : d \in timers' => d \in timers
      PROVE  \A d \in Calls \ {c} : Placed(d)'
  <2> SUFFICES ASSUME NEW d \in Calls \ {c} PROVE Placed(d)'
    OBVIOUS
  <2>1. Placed(d) /\ Else(d) /\ job'[d] = job[d] /\ (d \in listeners' <=> d \in listeners)
        /\ (d \in timers' => d \in timers)
    BY <1>1, <1>2, CoreParts
  <2> QED
    BY <1>2, <2>1, PlacedStill
<1>3. listeners' \in SUBSET Calls /\ job' \in [Calls -> Services] /\ mail' \in Seq(Messages)
  BY <1>1, CoreParts
<1>4. CASE Threw(c)
  <2>1. /\ call' \in [Calls -> States] /\ \A d \in Calls \ {c} : Else(d)
        /\ call'[c].phase = "done" /\ call'[c].win = Null /\ call'[c].result = Result("failed", c)
        /\ UNCHANGED <<timers, views, windows>>
    BY <1>4 DEF Threw, Started
  <2>2. Kept /\ Viewed'
    BY <2>1, CoreParts DEF Kept, Viewed, Showing, Named
  <2>3. call'[c].result # Null
    <3>1. Result("failed", c) \in Results
      BY DEF Result, Results
    <3> QED
      BY <2>1, <3>1, NullIsNone
  <2>4. Placed(c)'
    BY <1>1, <2>1, <2>3 DEF Placed
  <2>5. \A d \in Calls \ {c} : Placed(d)'
    BY <1>2, <2>1, <2>2
  <2>6. \A d \in Calls : Placed(d)'
    BY <2>4, <2>5
  <2> QED
    BY <1>3, <2>1, <2>2, <2>6, CoreBuilt, CoreParts
<1>5. CASE Showed(c)
  <2>1. /\ call' \in [Calls -> States] /\ \A d \in Calls \ {c} : Else(d)
        /\ call'[c].phase = "listening" /\ call'[c].win = Shown(view) /\ call'[c].result = Null
        /\ Renders(view, c, job[c].url) /\ ~ (view = "frame" /\ Shows(view))
        /\ timers' = IF view \in {"pop", "tab"} THEN timers \cup {c} ELSE timers
    BY <1>5 DEF Showed, Started
  <2>2. Kept /\ Viewed'
    BY <1>1, <2>1, RendersKept
  <2>3. /\ Shown(view) # Null /\ Shown(view) \in DOMAIN windows' /\ windows'[Shown(view)].view = view
        /\ view = "frame" => windows'[Shown(view)].page.for = c
    <3>1. /\ Shown(view) \in Nat \ {0, Null} /\ DOMAIN windows' = DOMAIN windows \cup {Shown(view)}
          /\ windows'[Shown(view)].view = view
          /\ Fresh(view, c, job[c].url) \/ Again(view, c, job[c].url)
      BY <1>1, <2>1, RendersFacts, CoreParts
    <3> QED
      BY <3>1 DEF Fresh, Again, Page
  <2>4. view # "browser"
    BY <1>1, ViewsOf
  <2> HIDE DEF view
  <2>5. Placed(c)'
    <3>1. job' = job /\ view = View[job[c].method]
      BY <1>1 DEF view
    <3> QED
      BY <1>1, <2>1, <2>3, <2>4, <3>1 DEF Placed
  <2>6. \A d \in Calls \ {c} : Placed(d)'
    BY <1>2, <2>1, <2>2
  <2>7. \A d \in Calls : Placed(d)'
    BY <2>5, <2>6
  <2>8. timers' \in SUBSET Calls
    BY <2>1, CoreParts
  <2> QED
    BY <1>3, <2>1, <2>2, <2>7, <2>8, CoreBuilt, CoreParts
<1> QED
  BY <1>4, <1>5 DEF Executes

-----------------------------------------------------------------------------
(* HTTP/POST: what happens to the call c alone.                             *)

Solely(c) ==
  /\ call' \in [Calls -> States] /\ \A d \in Calls \ {c} : call'[d] = call[d] /\ job'[d] = job[d]
  /\ job' \in [Calls -> Services] /\ UNCHANGED <<listeners, timers, mail>>
Answered(c) ==
  /\ call[c].phase = "fetching" /\ Finished(c) /\ job' = job /\ UNCHANGED <<views, windows>>
  /\ call'[c].result.how # "failed" => call'[c].result.of = c
Referred(c) ==
  /\ call[c].phase = "fetching" /\ UNCHANGED <<views, windows>> /\ job'[c].local = job[c].local
  /\ ~ call[c].moved
  /\ MovesOn(c) \/ (Finished(c) /\ call'[c].result = Result("failed", c))
Pends(c) ==
  /\ call[c].phase = "fetching" /\ job' = job /\ job[c].local \in Locals
  /\ call'[c].phase = "polling" /\ call'[c].win = Shown(View[job[c].local])
  /\ call'[c].result = call[c].result /\ call'[c].source = call[c].source
  /\ call'[c].alone = call[c].alone /\ call'[c].moved = call[c].moved
  /\ call'[c].canContinue = call[c].canContinue /\ call'[c].shouldContinue = call[c].shouldContinue
  /\ call'[c].decision = call[c].decision /\ call'[c].inTime = call[c].inTime
  /\ Renders(View[job[c].local], c, job[c].url)
  /\ ~ (View[job[c].local] = "frame" /\ Shows(View[job[c].local]))
Turns(c, phase) ==
  /\ call[c].phase \in {"polling", "asking"} /\ UNCHANGED <<job, views, windows>>
  /\ call'[c].phase = phase /\ phase \in {"polling", "asking"}
  /\ call'[c].result = call[c].result /\ call'[c].win = call[c].win
  /\ call'[c].source = call[c].source /\ call'[c].alone = call[c].alone
  /\ call'[c].moved = call[c].moved /\ call'[c].shouldContinue = call[c].shouldContinue
WalletSays(c) ==
  /\ Turns(c, call[c].phase) /\ call[c].decision = Null
  /\ call'[c].canContinue = call[c].canContinue /\ call'[c].decision # Null
  /\ call'[c].inTime = windows[call[c].win].open
Asks(c) ==
  /\ call[c].phase = "polling" /\ Turns(c, "asking") /\ call'[c].canContinue = call[c].shouldContinue
  /\ call'[c].decision = call[c].decision /\ call'[c].inTime = call[c].inTime
Waits(c) ==
  /\ call[c].phase = "asking" /\ Turns(c, "polling") /\ call'[c].canContinue = call[c].canContinue
  /\ call[c].decision = Null /\ call'[c].decision = Null /\ call'[c].inTime = call[c].inTime
Concludes(c) ==
  /\ call[c].phase \in {"polling", "asking"} /\ Finished(c) /\ job' = job
  /\ Closes({View[job[c].local]}) /\ call'[c].result.of = c
  /\ \/ call[c].phase = "polling" /\ ~ call[c].canContinue
     \/ call[c].decision # Null /\ call'[c].result.how = call[c].decision
     \/ call'[c].result.how = "failed"
Polls(c) == /\ Solely(c)
            /\ \/ Answered(c) \/ Referred(c) \/ Pends(c) \/ WalletSays(c) \/ Asks(c) \/ Waits(c)
               \/ Concludes(c)

LEMMA ServerDecidesKind == ASSUME Core, NEW c \in Calls, ServerDecides(c) PROVE Polls(c)
<1>1. PICK how \in {"approved", "declined", "failed"} :
        call' = [call EXCEPT ![c] = Settled(c, Result(how, c))]
  BY DEF ServerDecides
<1>2. Result(how, c) \in Results /\ Result(how, c).of = c
  BY DEF Result, Results
<1>3. call[c].phase = "fetching" /\ UNCHANGED <<job, listeners, timers, views, windows, mail>>
      /\ call[c].result = Null
  BY CoreParts DEF ServerDecides, Placed
<1>4. Settled(c, Result(how, c)) \in States
  BY <1>2, SettledFacts, CoreParts
<1>5. /\ call' \in [Calls -> States] /\ call'[c] = Settled(c, Result(how, c))
      /\ \A d \in Calls \ {c} : call'[d] = call[d]
  BY <1>1, <1>4, OneCall, CoreParts
<1>6. Finished(c) /\ call'[c].result = Result(how, c)
  BY <1>2, <1>3, <1>5, SettledFacts, CoreParts
<1> QED
  BY <1>2, <1>3, <1>5, <1>6, CoreParts DEF Polls, Solely, Answered

LEMMA ServerRedirectsKind == ASSUME Core, NEW c \in Calls, ServerRedirects(c) PROVE Polls(c)
<1>1. /\ call[c].phase = "fetching" /\ UNCHANGED <<listeners, timers, views, windows, mail>>
      /\ call[c].result = Null /\ call' = [call EXCEPT ![c] = Redirected(c)] /\ Redirects({c})
      /\ ~ call[c].moved
  BY CoreParts DEF ServerRedirects, Placed
<1>2. Redirected(c) \in States
  BY <1>1, RedirectedFacts, CoreParts
<1>3. /\ call' \in [Calls -> States] /\ call'[c] = Redirected(c)
      /\ \A d \in Calls \ {c} : call'[d] = call[d]
  BY <1>1, <1>2, OneCall, CoreParts
<1>4. MovesOn(c) \/ (Finished(c) /\ call'[c].result = Result("failed", c))
  BY <1>1, <1>3, RedirectedFacts, CoreParts
<1>5. /\ job' \in [Calls -> Services] /\ job'[c].local = job[c].local
      /\ \A d \in Calls \ {c} : job'[d] = job[d]
  BY <1>1, RedirectsFacts, CoreParts
<1> QED
  BY <1>1, <1>3, <1>4, <1>5 DEF Polls, Solely, Referred

LEMMA ServerPendsKind == ASSUME Core, NEW c \in Calls, ServerPends(c) PROVE Polls(c)
<1> DEFINE local == job[c].local
           fails == local = Null \/ (local # Null /\ Throws(View[local], FALSE))
           x == [call[c] EXCEPT !.phase = "polling", !.win = Shown(View[local])]
<1>1. /\ call[c].phase = "fetching" /\ call[c].result = Null /\ local \in Locals \cup {Null}
      /\ call[c] \in States /\ job[c].url \in STRING
  BY CoreParts DEF ServerPends, Placed
<1>2. /\ call' = [call EXCEPT ![c] = IF fails THEN Settled(c, Result("failed", Null)) ELSE x]
      /\ IF fails THEN UNCHANGED <<views, windows>> ELSE Renders(View[local], c, job[c].url)
      /\ UNCHANGED <<job, listeners, timers, mail>>
  BY DEF ServerPends
<1> HIDE DEF fails, x
<1>3. CASE fails
  <2>1. Result("failed", Null) \in Results /\ Result("failed", Null).how = "failed"
    BY DEF Result, Results
  <2>2. Settled(c, Result("failed", Null)) \in States
    BY <2>1, SettledFacts, CoreParts
  <2>3. /\ call' \in [Calls -> States] /\ call'[c] = Settled(c, Result("failed", Null))
        /\ \A d \in Calls \ {c} : call'[d] = call[d]
    BY <1>2, <1>3, <2>2, OneCall, CoreParts
  <2>4. Finished(c) /\ call'[c].result = Result("failed", Null)
    BY <1>1, <2>1, <2>3, SettledFacts, CoreParts
  <2> QED
    BY <1>1, <1>2, <1>3, <2>1, <2>3, <2>4, CoreParts DEF Polls, Solely, Answered
<1>4. CASE ~ fails
  <2>1. /\ local \in Locals /\ Renders(View[local], c, job[c].url)
        /\ ~ (View[local] = "frame" /\ Shows(View[local])) /\ call' = [call EXCEPT ![c] = x]
    BY <1>1, <1>2, <1>4 DEF fails, Throws
  <2>2. View[local] \in Names
    BY <2>1, ViewsOf
  <2>3. Shown(View[local]) \in Nat
    BY <1>1, <2>1, <2>2, RendersFacts, CoreParts
  <2>4. x \in States
    BY <1>1, <2>3 DEF x, States, Phases
  <2>5. /\ call' \in [Calls -> States] /\ call'[c] = x
        /\ \A d \in Calls \ {c} : call'[d] = call[d]
    BY <2>1, <2>4, OneCall, CoreParts
  <2>6. /\ x.phase = "polling" /\ x.win = Shown(View[local]) /\ x.result = call[c].result
        /\ x.source = call[c].source /\ x.alone = call[c].alone /\ x.moved = call[c].moved
        /\ x.canContinue = call[c].canContinue /\ x.shouldContinue = call[c].shouldContinue
        /\ x.decision = call[c].decision /\ x.inTime = call[c].inTime
    BY <1>1 DEF x, States
  <2>7. Pends(c)
    BY <1>1, <1>2, <2>1, <2>5, <2>6 DEF Pends
  <2> QED
    BY <1>2, <2>5, <2>7, CoreParts DEF Polls, Solely
<1> QED
  BY <1>3, <1>4

LEMMA WalletDecidesKind == ASSUME Core, NEW c \in Calls, WalletDecides(c) PROVE Polls(c)
<1>1. /\ call[c].phase \in {"polling", "asking"} /\ call[c].decision = Null
      /\ UNCHANGED <<job, listeners, timers, views, windows, mail>>
      /\ call[c] \in States
  BY CoreParts DEF WalletDecides
<1>2. windows[call[c].win].open \in BOOLEAN
  <2>1. call[c].win \in DOMAIN windows
    BY <1>1, CoreParts DEF Placed
  <2> QED
    BY <2>1, CoreParts DEF Screens
<1>3. PICK how \in {"approved", "declined"} :
        call' = [call EXCEPT ![c].decision = how, ![c].inTime = windows[call[c].win].open]
  BY DEF WalletDecides
<1> DEFINE o == windows[call[c].win].open
           x == [call[c] EXCEPT !.decision = how, !.inTime = o]
<1>4. call' = [call EXCEPT ![c] = x]
  BY <1>3, CoreParts
<1>5. o \in BOOLEAN
  BY <1>2
<1> HIDE DEF o
<1>6. x \in States
  BY <1>1, <1>5 DEF States
<1>7. /\ x.phase = call[c].phase /\ x.result = call[c].result /\ x.win = call[c].win
      /\ x.source = call[c].source /\ x.alone = call[c].alone /\ x.moved = call[c].moved
      /\ x.shouldContinue = call[c].shouldContinue /\ x.canContinue = call[c].canContinue
      /\ x.decision = how /\ x.inTime = o
  BY <1>1 DEF States
<1> HIDE DEF x
<1>8. /\ call' \in [Calls -> States] /\ call'[c] = x /\ \A d \in Calls \ {c} : call'[d] = call[d]
  BY <1>4, <1>6, OneCall, CoreParts
<1>9. how # Null
  BY NullIsNone
<1>10. Turns(c, call[c].phase)
  BY <1>1, <1>7, <1>8 DEF Turns
<1>11. WalletSays(c)
  BY <1>1, <1>7, <1>8, <1>9, <1>10 DEF WalletSays, o
<1> QED
  BY <1>1, <1>8, <1>11, CoreParts DEF Polls, Solely

LEMMA PollPendingKind == ASSUME Core, NEW c \in Calls, PollPending(c) PROVE Polls(c)
<1> DEFINE x == [call[c] EXCEPT !.phase = "polling"]
<1>1. /\ call[c].phase = "asking" /\ call[c].decision = Null
      /\ UNCHANGED <<job, listeners, timers, views, windows, mail>>
      /\ call[c] \in States /\ call' = [call EXCEPT ![c] = x]
  BY CoreParts DEF PollPending
<1>2. x \in States
  BY <1>1 DEF States, Phases
<1>3. /\ x.phase = "polling" /\ x.result = call[c].result /\ x.win = call[c].win
      /\ x.source = call[c].source /\ x.alone = call[c].alone /\ x.moved = call[c].moved
      /\ x.shouldContinue = call[c].shouldContinue /\ x.canContinue = call[c].canContinue
      /\ x.decision = call[c].decision /\ x.inTime = call[c].inTime
  BY <1>1 DEF States
<1> HIDE DEF x
<1>4. /\ call' \in [Calls -> States] /\ call'[c] = x /\ \A d \in Calls \ {c} : call'[d] = call[d]
  BY <1>1, <1>2, OneCall, CoreParts
<1>5. Waits(c)
  BY <1>1, <1>3, <1>4 DEF Waits, Turns
<1> QED
  BY <1>1, <1>4, <1>5, CoreParts DEF Polls, Solely

LEMMA SettlesKind ==
  ASSUME Core, NEW c \in Calls, NEW how \in {"approved", "declined", "halted", "failed"},
         call[c].phase \in {"polling", "asking"}, call' = [call EXCEPT ![c] = Settled(c, Result(how, c))],
         CloseView(c), UNCHANGED <<job, listeners, timers, mail>>,
         \/ call[c].phase = "polling" /\ ~ call[c].canContinue
         \/ call[c].decision # Null /\ how = call[c].decision
         \/ how = "failed"
  PROVE  Polls(c)
<1>1. /\ Result(how, c) \in Results /\ Result(how, c).of = c /\ Result(how, c).how = how
      /\ call[c].result = Null
  BY CoreParts DEF Result, Results, Placed
<1>2. Settled(c, Result(how, c)) \in States
  BY <1>1, SettledFacts, CoreParts
<1>3. /\ call' \in [Calls -> States] /\ call'[c] = Settled(c, Result(how, c))
      /\ \A d \in Calls \ {c} : call'[d] = call[d]
  BY <1>2, OneCall, CoreParts
<1>4. Finished(c) /\ call'[c].result = Result(how, c)
  BY <1>1, <1>3, SettledFacts, CoreParts
<1>5. Concludes(c)
  BY <1>1, <1>4 DEF Concludes, CloseView
<1> QED
  BY <1>3, <1>5, CoreParts DEF Polls, Solely

LEMMA PollKind == ASSUME Core, NEW c \in Calls, poll(c) PROVE Polls(c)
<1>1. call[c].phase = "polling" /\ UNCHANGED <<job, listeners, timers, mail>> /\ call[c] \in States
  BY CoreParts DEF poll
<1>2. CASE call[c].canContinue
  <2> DEFINE x == [call[c] EXCEPT !.phase = "asking", !.canContinue = call[c].shouldContinue]
  <2>1. call' = [call EXCEPT ![c] = x] /\ UNCHANGED <<views, windows>>
    BY <1>2, CoreParts DEF poll, checkCanContinue
  <2>2. x \in States
    BY <1>1 DEF States, Phases
  <2>3. /\ x.phase = "asking" /\ x.result = call[c].result /\ x.win = call[c].win
        /\ x.source = call[c].source /\ x.alone = call[c].alone /\ x.moved = call[c].moved
        /\ x.shouldContinue = call[c].shouldContinue /\ x.canContinue = call[c].shouldContinue
        /\ x.decision = call[c].decision /\ x.inTime = call[c].inTime
    BY <1>1 DEF States
  <2> HIDE DEF x
  <2>4. /\ call' \in [Calls -> States] /\ call'[c] = x /\ \A d \in Calls \ {c} : call'[d] = call[d]
    BY <2>1, <2>2, OneCall, CoreParts
  <2>5. Asks(c)
    BY <1>1, <2>1, <2>3, <2>4 DEF Asks, Turns
  <2> QED
    BY <1>1, <2>4, <2>5, CoreParts DEF Polls, Solely
<1>3. CASE ~ call[c].canContinue
  <2>1. call' = [call EXCEPT ![c] = Settled(c, Result("halted", c))] /\ CloseView(c)
    BY <1>3 DEF poll, checkCanContinue
  <2> QED
    BY <1>1, <1>3, <2>1, SettlesKind
<1> QED
  BY <1>2, <1>3

LEMMA PollAnsweredKind == ASSUME Core, NEW c \in Calls, PollAnswered(c) PROVE Polls(c)
<1>1. /\ call[c].phase = "asking" /\ UNCHANGED <<job, listeners, timers, mail>> /\ CloseView(c)
      /\ call' = [call EXCEPT ![c] = Settled(c, Result(call[c].decision, c))]
      /\ call[c].decision # Null
  BY DEF PollAnswered
<1>2. call[c].decision \in {"approved", "declined"}
  BY <1>1, CoreParts DEF States
<1> QED
  BY <1>1, <1>2, SettlesKind

LEMMA PollFailsKind == ASSUME Core, NEW c \in Calls, PollFails(c) PROVE Polls(c)
  BY SettlesKind DEF PollFails

LEMMA PollsViews ==
  ASSUME Core, NEW c \in Calls, Polls(c) PROVE Viewed' /\ Kept
<1>1. Solely(c) /\ Placed(c)
  BY CoreParts DEF Polls
<1>2. CASE Answered(c) \/ Referred(c) \/ WalletSays(c) \/ Asks(c) \/ Waits(c)
  <2>1. UNCHANGED <<views, windows>>
    BY <1>2 DEF Answered, Referred, WalletSays, Asks, Waits, Turns
  <2> QED
    BY <2>1, CoreParts DEF Kept, Viewed, Showing, Named
<1>3. CASE Pends(c)
  <2>1. View[job[c].local] \in Names
    BY <1>3, ViewsOf DEF Pends
  <2> QED
    BY <1>3, <2>1, RendersKept, CoreParts DEF Pends
<1>4. CASE Concludes(c)
  <2>1. job[c].local \in Locals
    BY <1>1, <1>4, CoreParts DEF Concludes, Placed
  <2>2. {View[job[c].local]} \in SUBSET Names
    BY <2>1, ViewsOf
  <2>3. Viewed' /\ DOMAIN windows' = DOMAIN windows /\ \A w \in DOMAIN windows : Shut(w)
    BY <1>4, <2>2, ClosesFacts, CoreParts DEF Concludes
  <2> QED
    BY <2>3 DEF Kept, Shut
<1> QED
  BY <1>2, <1>3, <1>4 DEF Polls

LEMMA PollsCore == ASSUME Core, NEW c \in Calls, Polls(c) PROVE Core'
<1>1. Viewed' /\ Kept
  BY PollsViews
<1>2. Solely(c) /\ Placed(c) /\ call[c].phase \in {"fetching", "polling", "asking"}
      /\ c \notin listeners /\ c \notin timers /\ call[c].result = Null
  BY CoreParts DEF Polls, Placed, Answered, Referred, Pends, WalletSays, Turns, Asks, Waits, Concludes
<1>3. c \notin listeners' /\ c \notin timers'
  BY <1>2 DEF Solely
<1>4. ASSUME NEW d \in Calls \ {c} PROVE Placed(d)'
  <2>1. /\ Placed(d) /\ Else(d) /\ job'[d] = job[d] /\ (d \in listeners' <=> d \in listeners)
        /\ (d \in timers' => d \in timers)
    BY <1>2, CoreParts DEF Solely, Else
  <2> QED
    BY <1>1, <2>1, PlacedStill
<1>5. call[c].win # Null =>
            /\ call[c].win \in DOMAIN windows'
            /\ windows'[call[c].win].view = windows[call[c].win].view
            /\ windows[call[c].win].view = "frame" => windows'[call[c].win].page.for = c
  BY <1>1, <1>2 DEF Placed, Kept
<1>6. ASSUME Finished(c) PROVE Placed(c)'
  <2>1. call'[c].phase = "done" /\ call'[c].result # Null /\ call'[c].win = call[c].win
    BY <1>6, NullIsNone DEF Finished, Rests
  <2> QED
    BY <1>3, <1>5, <2>1 DEF Placed
<1>7. Placed(c)'
  <2>1. CASE Answered(c) \/ Concludes(c)
    BY <1>6, <2>1 DEF Answered, Concludes
  <2>2. CASE Referred(c)
    <3>1. CASE MovesOn(c)
      <4>1. /\ call'[c].phase = "again" /\ call'[c].result = Null /\ call'[c].moved
            /\ call'[c].win = call[c].win /\ call[c].win = Null
        BY <1>2, <2>2, <3>1 DEF MovesOn, Rests, Referred, Placed
      <4> QED
        BY <1>3, <4>1 DEF Placed
    <3> QED
      BY <1>6, <2>2, <3>1 DEF Referred
  <2>3. CASE Pends(c)
    <3> DEFINE view == View[job[c].local]
               w == Shown(view)
    <3>1. /\ job[c].local \in Locals /\ job[c].local # Null /\ view \in Names
      BY <2>3, ViewsOf, NullIsNone DEF Pends
    <3>2. /\ w # Null /\ w \in DOMAIN windows' /\ windows'[w].view = view
          /\ view = "frame" => windows'[w].page.for = c
      <4>1. /\ w \in Nat \ {0, Null} /\ DOMAIN windows' = DOMAIN windows \cup {w}
            /\ windows'[w].view = view
            /\ Fresh(view, c, job[c].url) \/ Again(view, c, job[c].url)
        BY <2>3, <3>1, RendersFacts, CoreParts DEF Pends
      <4> QED
        BY <4>1 DEF Fresh, Again, Page
    <3>3. call'[c].phase = "polling" /\ call'[c].win = w /\ call'[c].result = Null /\ job' = job
      BY <1>2, <2>3 DEF Pends
    <3>4. job[c].method = "HTTP/POST"
      BY <1>2 DEF Placed
    <3>5. View[job[c].local] = view
      OBVIOUS
    <3> HIDE DEF view, w
    <3> QED
      BY <1>3, <3>1, <3>2, <3>3, <3>4, <3>5 DEF Placed
  <2>4. CASE WalletSays(c) \/ Asks(c) \/ Waits(c)
    <3>1. /\ call[c].phase \in {"polling", "asking"} /\ call'[c].phase \in {"polling", "asking"}
          /\ UNCHANGED <<job, views, windows>> /\ call'[c].result = Null
          /\ call'[c].win = call[c].win /\ call'[c].moved = call[c].moved
      <4>1. PICK p : Turns(c, p)
        BY <2>4 DEF WalletSays, Asks, Waits
      <4> QED
        BY <1>2, <4>1 DEF Turns
    <3> QED
      BY <1>2, <1>3, <1>5, <3>1 DEF Placed
  <2> QED
    BY <1>2, <2>1, <2>2, <2>3, <2>4 DEF Polls
<1>8. \A d \in Calls : Placed(d)'
  BY <1>4, <1>7
<1>9. /\ call' \in [Calls -> States] /\ job' \in [Calls -> Services]
       /\ listeners' \in SUBSET Calls /\ timers' \in SUBSET Calls /\ mail' \in Seq(Messages)
  BY <1>2, CoreParts DEF Solely
<1> QED
  BY <1>1, <1>8, <1>9, CoreBuilt

-----------------------------------------------------------------------------
(* A candidate of discovery, the pages, the user.                           *)

Chosen(c) ==
  /\ call' \in [Calls -> States] /\ UNCHANGED <<job, listeners, timers, views, windows, mail>>
  /\ \A d \in Calls \ {c} : call'[d] = call[d]
  /\ call[c].phase = "listening" /\ call'[c].phase = "answered" /\ job[c].hook
  /\ call'[c].result = Result("approved", c) /\ call'[c].moved = call[c].moved /\ Rests(c)

LEMMA CandidateKind == ASSUME Core, NEW c \in Calls, CandidateAnswers(c) PROVE Chosen(c)
<1> DEFINE r == Result("approved", c)
           x == [call[c] EXCEPT !.phase = "answered", !.result = r]
<1>1. /\ call[c].phase = "listening" /\ UNCHANGED <<job, listeners, timers, views, windows, mail>>
      /\ call[c] \in States /\ job[c].hook
  BY CoreParts DEF CandidateAnswers
<1>2. r \in Results
  BY DEF Result, Results
<1>3. call' = [call EXCEPT ![c] = x]
  BY CoreParts DEF CandidateAnswers
<1>4. r = Result("approved", c)
  OBVIOUS
<1> HIDE DEF r
<1>5. /\ x \in States /\ x.phase = "answered" /\ x.result = r /\ x.win = call[c].win
      /\ x.source = call[c].source /\ x.alone = call[c].alone /\ x.moved = call[c].moved
      /\ x.shouldContinue = call[c].shouldContinue /\ x.canContinue = call[c].canContinue
      /\ x.decision = call[c].decision /\ x.inTime = call[c].inTime
  BY <1>1, <1>2 DEF States, Phases
<1> HIDE DEF x
<1>6. /\ call' \in [Calls -> States] /\ call'[c] = x /\ \A d \in Calls \ {c} : call'[d] = call[d]
  BY <1>3, <1>5, OneCall, CoreParts
<1> QED
  BY <1>1, <1>4, <1>5, <1>6 DEF Chosen, Rests

LEMMA ChosenCore == ASSUME Core, NEW c \in Calls, Chosen(c) PROVE Core'
<1>1. UNCHANGED <<job, listeners, timers, views, windows, mail>> /\ call' \in [Calls -> States]
  BY DEF Chosen
<1>2. Viewed' /\ Kept
  BY <1>1, CoreParts DEF Viewed, Showing, Named, Kept
<1>3. ASSUME NEW d \in Calls \ {c} PROVE Placed(d)'
  <2>1. /\ Placed(d) /\ Else(d) /\ job'[d] = job[d] /\ (d \in listeners' <=> d \in listeners)
        /\ (d \in timers' => d \in timers)
    BY <1>1, CoreParts DEF Chosen, Else
  <2> QED
    BY <1>2, <2>1, PlacedStill
<1>4. Placed(c)'
  <2>1. /\ call[c].phase = "listening" /\ call'[c].phase = "answered"
        /\ call'[c].win = call[c].win /\ call'[c].moved = call[c].moved
    BY DEF Chosen, Rests
  <2>2. call'[c].result # Null
    <3>1. call'[c].result \in Results
      BY DEF Chosen, Result, Results
    <3> QED
      BY <3>1, NullIsNone
  <2>3. Placed(c)
    BY CoreParts
  <2> QED
    BY <1>1, <2>1, <2>2, <2>3 DEF Placed
<1>5. \A d \in Calls : Placed(d)'
  BY <1>3, <1>4
<1> QED
  BY <1>1, <1>2, <1>5, CoreBuilt, CoreParts

\* The page of window w posts a message: it is ready, or it ends.
Speaks(w, m) ==
  /\ UNCHANGED <<job, call, listeners, timers, views>> /\ w \in DOMAIN windows /\ Talks(w)
  /\ m \in Messages /\ mail' = Append(mail, m) /\ m.source = SourceOf(w)
  /\ \/ m.of = windows[w].page.for /\ m.type \in {"READY", "CLOSE"}
     \/ m.of \in windows[w].page.heard /\ m.type \in {"RESPONSE", "JSONRPC"}
  /\ windows' \in Seq(Screens) /\ DOMAIN windows' = DOMAIN windows
  /\ \A v \in DOMAIN windows \ {w} : windows'[v] = windows[v]
  /\ windows'[w].view = windows[w].view /\ windows'[w].open = windows[w].open
  /\ windows'[w].by = windows[w].by /\ windows'[w].page.for = windows[w].page.for
  /\ windows'[w].page.heard = windows[w].page.heard
  /\ windows[w].page.ended => windows'[w].page.ended

LEMMA SourceTyped ==
  ASSUME Core, NEW w \in DOMAIN windows
  PROVE  SourceOf(w) \in Nat /\ SourceOf(w) = (IF windows[w].view = "ext" THEN App ELSE w)
<1>1. w \in Nat
  BY CoreParts DEF Viewed
<1> QED
  BY <1>1 DEF SourceOf, App

LEMMA PageReadyKind ==
  ASSUME Core, NEW w \in DOMAIN windows, PageReady(w) PROVE \E m \in Messages : Speaks(w, m)
<1> DEFINE m == Message(w, "READY", Null, windows[w].page.for)
           x == [windows[w] EXCEPT !.page.ready = TRUE]
<1>1. windows[w] \in Screens
  BY CoreParts
<1>2. m \in Messages /\ m.source = SourceOf(w) /\ m.of = windows[w].page.for /\ m.type = "READY"
  BY <1>1, SourceTyped DEF Message, Messages, Screens, Pages
<1>3. /\ x \in Screens /\ x.view = windows[w].view /\ x.open = windows[w].open /\ x.by = windows[w].by
      /\ x.page.for = windows[w].page.for /\ x.page.heard = windows[w].page.heard
      /\ x.page.ended = windows[w].page.ended
  BY <1>1 DEF Screens, Pages
<1>4. windows' = [windows EXCEPT ![w] = x]
  BY CoreParts DEF PageReady
<1>5. UNCHANGED <<job, call, listeners, timers, views>> /\ Talks(w) /\ mail' = Append(mail, m)
  BY DEF PageReady, Posted
<1> HIDE DEF m, x
<1>6. /\ windows' \in Seq(Screens) /\ DOMAIN windows' = DOMAIN windows /\ windows'[w] = x
      /\ \A v \in DOMAIN windows \ {w} : windows'[v] = windows[v]
  BY <1>3, <1>4, CoreParts DEF Viewed
<1>7. Speaks(w, m)
  BY <1>2, <1>3, <1>5, <1>6 DEF Speaks
<1> QED
  BY <1>2, <1>7

LEMMA EndsKind ==
  ASSUME Core, NEW w \in DOMAIN windows, Ends(w) PROVE \E m \in Messages : Speaks(w, m)
<1> DEFINE x == [windows[w] EXCEPT !.page.ended = TRUE]
<1>1. windows[w] \in Screens
  BY CoreParts
<1>2. PICK m \in Messages : /\ m.source = SourceOf(w) /\ mail' = Append(mail, m)
                            /\ \/ m.of = windows[w].page.for /\ m.type = "CLOSE"
                               \/ m.of \in windows[w].page.heard /\ m.type \in {"RESPONSE", "JSONRPC"}
  <2>1. CASE PageCloses(w)
    <3> DEFINE m == Message(w, "CLOSE", Null, windows[w].page.for)
    <3>1. m \in Messages /\ m.source = SourceOf(w) /\ m.of = windows[w].page.for /\ m.type = "CLOSE"
      BY <1>1, SourceTyped DEF Message, Messages, Screens, Pages
    <3>2. mail' = Append(mail, m)
      BY <2>1 DEF PageCloses, Posted
    <3> QED
      BY <3>1, <3>2
  <2>2. CASE PageAnswers(w)
    <3>1. PICK c \in windows[w].page.heard, status \in {"APPROVED", "DECLINED", "REDIRECT"},
               type \in {"RESPONSE", "JSONRPC"} : mail' = Append(mail, Message(w, type, status, c))
      BY <2>2 DEF PageAnswers, Statuses, Posted
    <3> DEFINE m == Message(w, type, status, c)
    <3>2. c \in Calls
      BY <1>1 DEF Screens, Pages
    <3>3. m \in Messages /\ m.source = SourceOf(w) /\ m.of = c /\ m.type = type
      BY <3>2, SourceTyped DEF Message, Messages
    <3> QED
      BY <3>1, <3>3
  <2> QED
    BY <2>1, <2>2 DEF Ends
<1>3. /\ x \in Screens /\ x.view = windows[w].view /\ x.open = windows[w].open /\ x.by = windows[w].by
      /\ x.page.for = windows[w].page.for /\ x.page.heard = windows[w].page.heard
      /\ x.page.ended
  BY <1>1 DEF Screens, Pages
<1>4. windows' = [windows EXCEPT ![w] = x]
  BY CoreParts DEF Ends, PageCloses, PageAnswers
<1>5. UNCHANGED <<job, call, listeners, timers, views>> /\ Talks(w)
  BY DEF Ends, PageCloses, PageAnswers
<1> HIDE DEF x
<1>6. /\ windows' \in Seq(Screens) /\ DOMAIN windows' = DOMAIN windows /\ windows'[w] = x
      /\ \A v \in DOMAIN windows \ {w} : windows'[v] = windows[v]
  BY <1>3, <1>4, CoreParts DEF Viewed
<1>7. Speaks(w, m)
  BY <1>2, <1>3, <1>5, <1>6 DEF Speaks
<1> QED
  BY <1>7

\* The user closes window w.
Leaves(w) ==
  /\ UNCHANGED <<job, listeners, timers, views, mail>> /\ w \in DOMAIN windows /\ windows[w].open
  /\ windows[w].view \in {"pop", "tab", "browser"}
  /\ windows' \in Seq(Screens) /\ DOMAIN windows' = DOMAIN windows
  /\ \A v \in DOMAIN windows \ {w} : windows'[v] = windows[v]
  /\ windows'[w].view = windows[w].view /\ ~ windows'[w].open /\ windows'[w].by = "user"
  /\ windows'[w].page = windows[w].page
  /\ call' \in [Calls -> States]
  /\ \A c \in Calls :
       /\ call'[c].phase = call[c].phase /\ call'[c].result = call[c].result
       /\ call'[c].win = call[c].win /\ call'[c].source = call[c].source
       /\ call'[c].alone = call[c].alone
       /\ call'[c].moved = call[c].moved /\ call'[c].canContinue = call[c].canContinue
       /\ call'[c].decision = call[c].decision /\ call'[c].inTime = call[c].inTime
       /\ \/ call'[c].shouldContinue = call[c].shouldContinue
          \/ windows[w].view = "browser" /\ call[c].win = w /\ ~ call'[c].shouldContinue

LEMMA UserClosesKind ==
  ASSUME Core, NEW w \in DOMAIN windows, UserCloses(w) PROVE Leaves(w)
<1> DEFINE x == [windows[w] EXCEPT !.open = FALSE, !.by = "user"]
<1>1. windows[w] \in Screens
  BY CoreParts
<1>2. x \in Screens /\ x.view = windows[w].view /\ ~ x.open /\ x.by = "user" /\ x.page = windows[w].page
  BY <1>1 DEF Screens
<1>3. windows' = [windows EXCEPT ![w] = x]
  BY CoreParts DEF UserCloses
<1>4. /\ UNCHANGED <<job, listeners, timers, views, mail>> /\ windows[w].open
      /\ windows[w].view \in {"pop", "tab", "browser"}
  BY DEF UserCloses
<1> HIDE DEF x
<1>5. /\ windows' \in Seq(Screens) /\ DOMAIN windows' = DOMAIN windows /\ windows'[w] = x
      /\ \A v \in DOMAIN windows \ {w} : windows'[v] = windows[v]
  BY <1>2, <1>3, CoreParts DEF Viewed
<1>6. call' = [c \in Calls |-> IF windows[w].view = "browser" /\ call[c].win = w
                THEN [call[c] EXCEPT !.shouldContinue = FALSE] ELSE call[c]]
  BY DEF UserCloses
<1>7. \A y \in States : [y EXCEPT !.shouldContinue = FALSE] \in States
  BY DEF States
<1>8. call' \in [Calls -> States]
  BY <1>6, <1>7, CoreParts
<1>9. ASSUME NEW c \in Calls
      PROVE  /\ call'[c].phase = call[c].phase /\ call'[c].result = call[c].result
             /\ call'[c].win = call[c].win /\ call'[c].source = call[c].source
             /\ call'[c].alone = call[c].alone
             /\ call'[c].moved = call[c].moved /\ call'[c].canContinue = call[c].canContinue
             /\ call'[c].decision = call[c].decision /\ call'[c].inTime = call[c].inTime
             /\ \/ call'[c].shouldContinue = call[c].shouldContinue
                \/ windows[w].view = "browser" /\ call[c].win = w /\ ~ call'[c].shouldContinue
  <2>1. call[c] \in States
    BY CoreParts
  <2>2. call'[c] = IF windows[w].view = "browser" /\ call[c].win = w
                   THEN [call[c] EXCEPT !.shouldContinue = FALSE] ELSE call[c]
    BY <1>6
  <2>3. CASE windows[w].view = "browser" /\ call[c].win = w
    BY <2>1, <2>2, <2>3 DEF States
  <2>4. CASE ~ (windows[w].view = "browser" /\ call[c].win = w)
    BY <2>2, <2>4
  <2> QED
    BY <2>3, <2>4
<1> QED
  BY <1>2, <1>4, <1>5, <1>8, <1>9 DEF Leaves

LEMMA SpeaksCore ==
  ASSUME Core, NEW w \in DOMAIN windows, NEW m \in Messages, Speaks(w, m) PROVE Core'
<1>1. UNCHANGED <<job, call, listeners, timers, views>> /\ Kept
  BY DEF Speaks, Kept
<1>2. mail' \in Seq(Messages)
  <2>1. mail \in Seq(Messages)
    BY CoreParts
  <2> QED
    BY <2>1 DEF Speaks
<1>3. Viewed'
  <2>1. \A v \in DOMAIN windows : windows'[v].view = windows[v].view /\ windows'[v].open = windows[v].open
    BY DEF Speaks
  <2>2. DOMAIN windows' = DOMAIN windows /\ views' = views /\ windows' \in Seq(Screens)
    BY DEF Speaks
  <2> QED
    BY <2>1, <2>2, CoreParts DEF Viewed, Showing, Named
<1>4. ASSUME NEW c \in Calls PROVE Placed(c)'
  <2>1. Placed(c) /\ Else(c)
    BY <1>1, CoreParts DEF Else
  <2> QED
    BY <1>1, <2>1, PlacedStill
<1> QED
  BY <1>1, <1>2, <1>3, <1>4, CoreBuilt, CoreParts

LEMMA LeavesCore ==
  ASSUME Core, NEW w \in DOMAIN windows, Leaves(w) PROVE Core'
<1>1. UNCHANGED <<job, listeners, timers, views, mail>> /\ call' \in [Calls -> States]
  BY DEF Leaves
<1>2. \A v \in DOMAIN windows : /\ windows'[v].view = windows[v].view /\ windows'[v].page = windows[v].page
                                /\ windows'[v].open => windows[v].open
  BY DEF Leaves
<1>3. DOMAIN windows' = DOMAIN windows /\ windows' \in Seq(Screens)
  BY DEF Leaves
<1>4. Kept
  BY <1>2, <1>3 DEF Kept
<1>5. Viewed'
  BY <1>1, <1>2, <1>3, CoreParts DEF Viewed, Showing, Named
<1>6. ASSUME NEW c \in Calls PROVE Placed(c)'
  <2>1. Placed(c)
    BY CoreParts
  <2>2. /\ call'[c].phase = call[c].phase /\ call'[c].result = call[c].result
        /\ call'[c].win = call[c].win /\ call'[c].moved = call[c].moved
    BY DEF Leaves
  <2>3. call[c].win # Null =>
            /\ call[c].win \in DOMAIN windows'
            /\ windows'[call[c].win].view = windows[call[c].win].view
            /\ windows[call[c].win].view = "frame" => windows'[call[c].win].page.for = c
    BY <1>4, <2>1 DEF Placed, Kept
  <2> QED
    BY <1>1, <2>1, <2>2, <2>3 DEF Placed
<1> QED
  BY <1>1, <1>5, <1>6, CoreBuilt, CoreParts

\* A strategy of HTTP/POST starts.
Fetches(c) ==
  /\ call[c].phase \in {"idle", "again"} /\ job[c].method = "HTTP/POST"
  /\ Started(c, "fetching", Null, Null)
  /\ UNCHANGED <<job, listeners, timers, views, windows, mail>>

LEMMA PostsKind == ASSUME Core, NEW c \in Calls, Posts(c) PROVE Fetches(c)
  BY BeginsStarts DEF Core, Posts, Fetches, Phases

LEMMA FetchesCore == ASSUME Core, NEW c \in Calls, Fetches(c) PROVE Core'
<1>1. /\ UNCHANGED <<job, listeners, timers, views, windows, mail>> /\ call' \in [Calls -> States]
      /\ \A d \in Calls \ {c} : Else(d)
  BY DEF Fetches, Started
<1>2. Viewed' /\ Kept
  BY <1>1, CoreParts DEF Viewed, Showing, Named, Kept
<1>3. ASSUME NEW d \in Calls \ {c} PROVE Placed(d)'
  <2>1. /\ Placed(d) /\ Else(d) /\ job'[d] = job[d] /\ (d \in listeners' <=> d \in listeners)
        /\ (d \in timers' => d \in timers)
    BY <1>1, CoreParts
  <2> QED
    BY <1>2, <2>1, PlacedStill
<1>4. Placed(c)'
  <2>1. /\ call'[c].phase = "fetching" /\ call'[c].win = Null /\ call'[c].result = Null
        /\ call[c].phase \in {"idle", "again"} /\ job[c].method = "HTTP/POST" /\ Placed(c)
    BY CoreParts DEF Fetches, Started
  <2> QED
    BY <1>1, <2>1 DEF Placed
<1>5. \A d \in Calls : Placed(d)'
  BY <1>3, <1>4
<1> QED
  BY <1>1, <1>2, <1>5, CoreBuilt, CoreParts

\* Every step is one of these.
Kinds ==
  \/ \E C \in SUBSET Calls : \E U \in SUBSET Calls : Took(C, U)
  \/ Heeds
  \/ \E c \in Calls : Executes(c) \/ Fetches(c) \/ Polls(c) \/ Chosen(c)
  \/ \E w \in DOMAIN windows : Leaves(w) \/ \E m \in Messages : Speaks(w, m)

LEMMA StepKinds == Core /\ [Next]_vars => Kinds \/ UNCHANGED vars
<1> SUFFICES ASSUME Core, Next PROVE Kinds
  OBVIOUS
<1>1. CASE Handler
  BY <1>1, ReadyHeeds, ResponseTakes, RedirectTakes, CloseTakes DEF Handler, Kinds
<1>2. ASSUME NEW c \in Calls, Strategy(c) PROVE Kinds
  BY <1>2, ExecServiceKind, PostsKind, TimerTakes, HookTakes, PollKind DEF Strategy, Kinds
<1>3. ASSUME NEW c \in Calls, Server(c) PROVE Kinds
  BY <1>3, ServerDecidesKind, ServerRedirectsKind, ServerPendsKind, PollPendingKind, PollAnsweredKind,
     PollFailsKind DEF Server, Kinds
<1>4. ASSUME NEW c \in Calls, CandidateAnswers(c) \/ WalletDecides(c) PROVE Kinds
  BY <1>4, CandidateKind, WalletDecidesKind DEF Kinds
<1>5. ASSUME NEW w \in DOMAIN windows, PageReady(w) \/ Ends(w) \/ UserCloses(w) PROVE Kinds
  BY <1>5, PageReadyKind, EndsKind, UserClosesKind DEF Kinds
<1> QED
  BY <1>1, <1>2, <1>3, <1>4, <1>5 DEF Next

LEMMA CoreUnchanged == Core /\ UNCHANGED vars => Core'
  BY DEF Core, TypeOK, Showing, Named, Placed, vars

LEMMA InitCore == Init => Core
<1> SUFFICES ASSUME Init PROVE Core
  OBVIOUS
<1>1. /\ job \in [Calls -> Services] /\ listeners = {} /\ timers = {} /\ windows = << >> /\ mail = << >>
      /\ call = [c \in Calls |-> Idle] /\ views = [v \in Names |-> [win |-> Null, url |-> Null]]
  BY ServiceAssumption DEF Init
<1>2. Idle \in States
  BY DEF Idle, States, Phases
<1>3. call \in [Calls -> States] /\ \A c \in Calls : call[c] = Idle
  BY <1>1, <1>2
<1>4. /\ windows \in Seq(Screens) /\ DOMAIN windows = {} /\ mail \in Seq(Messages)
  BY <1>1
<1>5. /\ views \in [Names -> [win : Nat \cup {Null}, url : STRING \cup {Null}]]
      /\ \A v \in Names : views[v].win = Null
  BY <1>1
<1>6. Showing /\ Named
  BY <1>4, <1>5 DEF Showing, Named
<1>7. /\ Idle.phase = "idle" /\ Idle.result = Null /\ Idle.win = Null
  BY DEF Idle
<1>8. \A c \in Calls : Placed(c)
  BY <1>1, <1>3, <1>7 DEF Placed
<1> QED
  BY <1>1, <1>3, <1>4, <1>5, <1>6, <1>8 DEF Core, TypeOK

LEMMA CoreStep == Core /\ [Next]_vars => Core'
  BY StepKinds, CoreUnchanged, TookCore, HeedsCore, ExecutesCore, FetchesCore, PollsCore, ChosenCore,
     SpeaksCore, LeavesCore DEF Kinds

\* The calls, their views and windows and the messages are what they should
\* be, through every step of execService and its strategies.
THEOREM TypeCorrect == Spec => []TypeOK
<1>1. Spec => []Core
  BY InitCore, CoreStep, PTL DEF Spec
<1>2. Core => TypeOK
  BY DEF Core
<1> QED
  BY <1>1, <1>2, PTL

-----------------------------------------------------------------------------
(* What the wallet decides in time is what the call ends with.              *)

\* The polling has not stopped while the view is open, and asks once more
\* after it is closed.
Decided(c) ==
  /\ call[c].phase \notin {"polling", "asking", "done"} =>
       call[c].shouldContinue /\ call[c].canContinue /\ call[c].decision = Null
  /\ call[c].inTime => call[c].decision # Null
  /\ call[c].phase \in {"polling", "asking"} =>
       /\ ~ call[c].shouldContinue => ~ windows[call[c].win].open
       /\ ~ call[c].canContinue => ~ call[c].shouldContinue
       /\ call[c].phase = "polling" /\ call[c].inTime => call[c].canContinue
Reached(c) == job[c].method = "HTTP/POST" /\ call[c].phase = "done" /\ call[c].inTime =>
                call[c].result.how \in {call[c].decision, "failed"}
Deciding == Core /\ \A c \in Calls : Decided(c) /\ Reached(c)

LEMMA InitDeciding == Init => Deciding
<1> SUFFICES ASSUME Init, NEW c \in Calls PROVE Decided(c) /\ Reached(c)
  BY InitCore DEF Deciding
<1>1. call[c] = Idle
  BY DEF Init
<1> QED
  BY <1>1 DEF Decided, Reached, Idle

\* Of the call d nothing changes that Decided and Reached are about.
LEMMA DecidedStill ==
  ASSUME Core, NEW d \in Calls, Decided(d), Reached(d), Kept, Else(d), job'[d] = job[d]
  PROVE  Decided(d)' /\ Reached(d)'
<1>1. /\ call'[d].phase = call[d].phase /\ call'[d].result = call[d].result
      /\ call'[d].win = call[d].win /\ call'[d].canContinue = call[d].canContinue
      /\ call'[d].shouldContinue = call[d].shouldContinue /\ call'[d].decision = call[d].decision
      /\ call'[d].inTime = call[d].inTime
  BY DEF Else
<1>2. Placed(d)
  BY CoreParts
<1>3. call[d].phase \in {"polling", "asking"} =>
        (windows'[call[d].win].open => windows[call[d].win].open)
  BY <1>2 DEF Placed, Kept
<1> QED
  BY <1>1, <1>3 DEF Decided, Reached

LEMMA TookDecided ==
  ASSUME Deciding, NEW C \in SUBSET Calls, NEW U \in SUBSET Calls, Took(C, U), NEW c \in Calls
  PROVE  Decided(c)' /\ Reached(c)'
<1>1. Core /\ Decided(c) /\ Reached(c) /\ Kept /\ Placed(c)
  BY TookViews, CoreParts DEF Deciding
<1>2. CASE c \notin C
  <2>1. Else(c) /\ job'[c] = job[c]
    BY <1>2 DEF Took, Else
  <2> QED
    BY <1>1, <2>1, DecidedStill
<1>3. CASE c \in C
  <2>1. c \in listeners /\ call[c].phase \in {"listening", "answered", "done"} /\ job[c].method # "HTTP/POST"
    BY <1>1, <1>3 DEF Took, Placed
  <2>2. Finished(c) \/ MovesOn(c)
    BY <1>3 DEF Took
  <2>3. job'[c] # job[c] => call[c].result = Null
    BY <1>3 DEF Took
  <2>4. call[c].result = Null => call[c].phase = "listening"
    BY <1>1, <2>1 DEF Placed
  <2>5. CASE Finished(c)
    BY <1>1, <2>1, <2>3, <2>4, <2>5 DEF Finished, Rests, Decided, Reached
  <2>6. CASE MovesOn(c)
    BY <1>1, <2>4, <2>6 DEF MovesOn, Rests, Decided, Reached
  <2> QED
    BY <2>2, <2>5, <2>6
<1> QED
  BY <1>2, <1>3

LEMMA StartedDecided ==
  ASSUME Deciding, NEW c \in Calls, NEW phase \in {"done", "listening", "fetching"}, NEW win, NEW result,
         Started(c, phase, win, result), call[c].phase \in {"idle", "again"}, Kept, UNCHANGED job
  PROVE  \A d \in Calls : Decided(d)' /\ Reached(d)'
<1>1. Core /\ \A d \in Calls : Decided(d) /\ Reached(d)
  BY DEF Deciding
<1>2. \A d \in Calls \ {c} : Decided(d)' /\ Reached(d)'
  BY <1>1, DecidedStill DEF Started
<1>3. Decided(c)' /\ Reached(c)'
  BY <1>1 DEF Started, Decided, Reached
<1> QED
  BY <1>2, <1>3

LEMMA PollsDecided ==
  ASSUME Deciding, NEW c \in Calls, Polls(c) PROVE \A d \in Calls : Decided(d)' /\ Reached(d)'
<1>1. Core /\ Decided(c) /\ Reached(c) /\ Kept /\ Solely(c) /\ Placed(c) /\ call[c] \in States
  BY PollsViews, CoreParts DEF Deciding, Polls
<1>2. \A d \in Calls \ {c} : Decided(d)' /\ Reached(d)'
  <2> SUFFICES ASSUME NEW d \in Calls \ {c} PROVE Decided(d)' /\ Reached(d)'
    OBVIOUS
  <2>1. Decided(d) /\ Reached(d) /\ Else(d) /\ job'[d] = job[d]
    BY <1>1 DEF Solely, Else, Deciding
  <2> QED
    BY <1>1, <2>1, DecidedStill
<1>3. Decided(c)' /\ Reached(c)'
  <2>1. CASE Answered(c)
    BY <1>1, <2>1 DEF Answered, Finished, Rests, Decided, Reached
  <2>2. CASE Referred(c)
    BY <1>1, <2>2 DEF Referred, MovesOn, Finished, Rests, Decided, Reached
  <2>3. CASE Pends(c)
    BY <1>1, <2>3 DEF Pends, Decided, Reached
  <2>4. CASE WalletSays(c)
    <3>1. windows' = windows /\ windows[call[c].win].open \in BOOLEAN
      <4>1. call[c].win \in DOMAIN windows
        BY <1>1, <2>4 DEF WalletSays, Turns, Placed
      <4> QED
        BY <1>1, <2>4, <4>1, CoreParts DEF WalletSays, Turns, Screens
    <3> QED
      BY <1>1, <2>4, <3>1 DEF WalletSays, Turns, Decided, Reached
  <2>5. CASE Asks(c)
    BY <1>1, <2>5 DEF Asks, Turns, Decided, Reached
  <2>6. CASE Waits(c)
    BY <1>1, <2>6 DEF Waits, Turns, Decided, Reached
  <2>7. CASE Concludes(c)
    BY <1>1, <2>7 DEF Concludes, Finished, Rests, Decided, Reached
  <2> QED
    BY <2>1, <2>2, <2>3, <2>4, <2>5, <2>6, <2>7 DEF Polls
<1> QED
  BY <1>2, <1>3

LEMMA DecidingStep == Deciding /\ [Next]_vars => Deciding'
<1> SUFFICES ASSUME Deciding, [Next]_vars PROVE Deciding'
  OBVIOUS
<1>1. Core /\ Core' /\ \A c \in Calls : Decided(c) /\ Reached(c)
  BY CoreStep DEF Deciding
<1> SUFFICES \A c \in Calls : Decided(c)' /\ Reached(c)'
  BY <1>1 DEF Deciding
<1>2. CASE UNCHANGED vars
  BY <1>1, <1>2 DEF vars, Decided, Reached
<1>3. ASSUME NEW C \in SUBSET Calls, NEW U \in SUBSET Calls, Took(C, U)
      PROVE  \A c \in Calls : Decided(c)' /\ Reached(c)'
  BY <1>3, TookDecided
<1>4. ASSUME \A c \in Calls : Else(c) /\ job'[c] = job[c], Kept
      PROVE  \A c \in Calls : Decided(c)' /\ Reached(c)'
  BY <1>1, <1>4, DecidedStill
<1>5. CASE Heeds
  <2>1. \A c \in Calls : /\ call'[c].phase = call[c].phase /\ call'[c].result = call[c].result
      /\ call'[c].win = call[c].win /\ call'[c].canContinue = call[c].canContinue
      /\ call'[c].shouldContinue = call[c].shouldContinue /\ call'[c].decision = call[c].decision
      /\ call'[c].inTime = call[c].inTime /\ job'[c] = job[c]
    BY <1>5 DEF Heeds
  <2>2. \A c \in Calls : call[c].phase \in {"polling", "asking"} =>
           (windows'[call[c].win].open <=> windows[call[c].win].open)
    BY <1>1, <1>5, CoreParts DEF Heeds, Placed
  <2> QED
    BY <1>1, <2>1, <2>2 DEF Decided, Reached
<1>6. ASSUME NEW c \in Calls, Executes(c) PROVE \A d \in Calls : Decided(d)' /\ Reached(d)'
  <2>1. CASE Threw(c)
    <3>1. Kept /\ UNCHANGED job /\ call[c].phase \in {"idle", "again"}
      BY <1>6, <2>1 DEF Threw, Kept, Executes
    <3> QED
      BY <2>1, <3>1, StartedDecided DEF Threw
  <2>2. CASE Showed(c)
    <3>1. Kept /\ UNCHANGED job /\ call[c].phase \in {"idle", "again"}
      BY <1>1, <1>6, <2>2, RendersKept DEF Showed, Executes
    <3> QED
      BY <2>2, <3>1, StartedDecided DEF Showed
  <2> QED
    BY <1>6, <2>1, <2>2 DEF Executes
<1>7. ASSUME NEW c \in Calls, Fetches(c) PROVE \A d \in Calls : Decided(d)' /\ Reached(d)'
  <2>1. Kept
    BY <1>7 DEF Fetches, Kept
  <2> QED
    BY <1>7, <2>1, StartedDecided DEF Fetches
<1>8. ASSUME NEW c \in Calls, Chosen(c) PROVE \A d \in Calls : Decided(d)' /\ Reached(d)'
  <2>1. Decided(c)' /\ Reached(c)'
    BY <1>1, <1>8 DEF Chosen, Rests, Decided, Reached
  <2>2. Kept /\ \A d \in Calls \ {c} : Else(d) /\ job'[d] = job[d]
    BY <1>8 DEF Chosen, Kept, Else
  <2> QED
    BY <1>1, <2>1, <2>2, DecidedStill
<1>9. ASSUME NEW w \in DOMAIN windows, NEW m \in Messages, Speaks(w, m)
      PROVE  \A d \in Calls : Decided(d)' /\ Reached(d)'
  <2>1. Kept /\ \A d \in Calls : Else(d) /\ job'[d] = job[d]
    BY <1>9 DEF Speaks, Kept, Else
  <2> QED
    BY <1>4, <2>1
<1>10. ASSUME NEW w \in DOMAIN windows, Leaves(w), NEW c \in Calls PROVE Decided(c)' /\ Reached(c)'
  <2>1. /\ call'[c].phase = call[c].phase /\ call'[c].result = call[c].result
        /\ call'[c].win = call[c].win /\ call'[c].canContinue = call[c].canContinue
        /\ call'[c].decision = call[c].decision /\ call'[c].inTime = call[c].inTime
        /\ job'[c] = job[c]
        /\ \/ call'[c].shouldContinue = call[c].shouldContinue
           \/ windows[w].view = "browser" /\ call[c].win = w /\ ~ call'[c].shouldContinue
    BY <1>10 DEF Leaves
  <2>2. Placed(c) /\ Decided(c) /\ Reached(c)
    BY <1>1, CoreParts
  <2>3. call[c].phase \in {"polling", "asking"} =>
           (windows'[call[c].win].open => windows[call[c].win].open)
    BY <1>10, <2>2 DEF Leaves, Placed
  <2>4. ~ windows'[w].open
    BY <1>10 DEF Leaves
  <2>5. windows[w].view = "browser" /\ call[c].win = w => call[c].phase \in {"polling", "asking", "done"}
    <3>1. w # Null
      <4>1. w \in Nat
        BY <1>1, CoreParts DEF Viewed
      <4> QED
        BY <4>1, NullIsNone
    <3> QED
      BY <2>2, <3>1 DEF Placed
  <2> QED
    BY <2>1, <2>2, <2>3, <2>4, <2>5 DEF Decided, Reached
<1> QED
  BY <1>1, <1>2, <1>3, <1>5, <1>6, <1>7, <1>8, <1>9, <1>10, PollsDecided, StepKinds DEF Kinds

\* What the wallet has decided before its view is closed is what a call of
\* HTTP/POST ends with (http-post.js:48-56), unless it fails.
THEOREM DecidedInTime == Spec => []DecisionReached
<1>1. Spec => []Deciding
  BY InitDeciding, DecidingStep, PTL DEF Spec
<1>2. Deciding => DecisionReached
  BY DEF Deciding, Reached, DecisionReached
<1> QED
  BY <1>1, <1>2, PTL

-----------------------------------------------------------------------------
(* A frame is answered by what its page heard of it.                        *)

FramesHear == \A w \in DOMAIN windows :
  windows[w].view = "frame" => windows[w].page.heard \subseteq {windows[w].page.for}
OwnWord(m) ==
  m.type \in {"RESPONSE", "JSONRPC"} /\ m.source # App =>
    /\ m.source \in DOMAIN windows
    /\ windows[m.source].view = "frame" => m.of = windows[m.source].page.for
FramesSay == \A i \in 1 .. Len(mail) : OwnWord(mail[i])
OwnAnswer(c) == job[c].method = "IFRAME/RPC" /\ call[c].result # Null
                /\ call[c].result.how \in {"approved", "declined"} => call[c].result.of = c
Framed == Core /\ FramesHear /\ FramesSay /\ \A c \in Calls : OwnAnswer(c)

LEMMA InitFramed == Init => Framed
<1> SUFFICES ASSUME Init PROVE Framed
  OBVIOUS
<1>1. Core /\ windows = << >> /\ mail = << >> /\ \A c \in Calls : call[c] = Idle
  BY InitCore DEF Init
<1> QED
  BY <1>1 DEF Framed, FramesHear, FramesSay, OwnAnswer, Idle

LEMMA MailStays ==
  ASSUME mail \in Seq(Messages), mail' = mail \/ (mail # << >> /\ mail' = Tail(mail))
  PROVE  \A i \in 1 .. Len(mail') : \E j \in 1 .. Len(mail) : mail'[i] = mail[j]
<1>1. CASE mail' = mail
  BY <1>1
<1>2. CASE mail # << >> /\ mail' = Tail(mail)
  <2>1. Len(Tail(mail)) = Len(mail) - 1 /\ \A i \in 1 .. Len(mail) - 1 : Tail(mail)[i] = mail[i + 1]
    BY <1>2
  <2>2. Len(mail) \in Nat
    OBVIOUS
  <2>3. \A i \in 1 .. Len(mail) - 1 : i + 1 \in 1 .. Len(mail)
    BY <2>2
  <2> QED
    BY <1>2, <2>1, <2>3
<1> QED
  BY <1>1, <1>2

LEMMA MailGrows ==
  ASSUME mail \in Seq(Messages), NEW m \in Messages, mail' = Append(mail, m)
  PROVE  \A i \in 1 .. Len(mail') : mail'[i] = m \/ \E j \in 1 .. Len(mail) : mail'[i] = mail[j]
<1>1. /\ Len(Append(mail, m)) = Len(mail) + 1 /\ Append(mail, m)[Len(mail) + 1] = m
      /\ \A i \in 1 .. Len(mail) : Append(mail, m)[i] = mail[i]
  OBVIOUS
<1>2. Len(mail) \in Nat
  OBVIOUS
<1> QED
  BY <1>1, <1>2

LEMMA SaidStays ==
  ASSUME Core, FramesSay, Kept, mail' = mail \/ (mail # << >> /\ mail' = Tail(mail))
  PROVE  FramesSay'
<1> SUFFICES ASSUME NEW i \in 1 .. Len(mail') PROVE OwnWord(mail[i])'
  BY DEF FramesSay
<1>1. PICK j \in 1 .. Len(mail) : mail'[i] = mail[j]
  BY MailStays, CoreParts
<1>2. OwnWord(mail[j])
  BY DEF FramesSay
<1> QED
  BY <1>1, <1>2 DEF OwnWord, Kept

\* The frames hear no more than they did.
Silent == \A w \in DOMAIN windows' : windows'[w].view = "frame" =>
  \/ w \in DOMAIN windows /\ windows[w].view = "frame" /\ windows'[w].page = windows[w].page
  \/ windows'[w].page.heard = {}

LEMMA SilentHears == ASSUME FramesHear, Silent PROVE FramesHear'
  BY DEF FramesHear, Silent

LEMMA RendersSilent ==
  ASSUME Core, NEW view \in Names, NEW c \in Calls, NEW url \in STRING,
         Renders(view, c, url), ~ (view = "frame" /\ Shows(view))
  PROVE  Silent
<1>1. /\ DOMAIN windows' = DOMAIN windows \cup {Shown(view)}
      /\ windows'[Shown(view)].view = view
      /\ Fresh(view, c, url) \/ Again(view, c, url)
      /\ \A w \in DOMAIN windows :
              /\ windows'[w].view = windows[w].view
              /\ w # Shown(view) => windows'[w].page = windows[w].page
  BY RendersFacts, CoreParts
<1>2. Page(c, url).heard = {}
  BY DEF Page
<1> SUFFICES ASSUME NEW w \in DOMAIN windows', windows'[w].view = "frame"
             PROVE  \/ w \in DOMAIN windows /\ windows[w].view = "frame" /\ windows'[w].page = windows[w].page
                    \/ windows'[w].page.heard = {}
  BY DEF Silent
<1>3. CASE w = Shown(view)
  BY <1>1, <1>2, <1>3 DEF Fresh, Again
<1>4. CASE w # Shown(view)
  BY <1>1, <1>4
<1> QED
  BY <1>3, <1>4

LEMMA PollsSilent == ASSUME Core, NEW c \in Calls, Polls(c) PROVE Silent
<1>1. CASE Answered(c) \/ Referred(c) \/ WalletSays(c) \/ Asks(c) \/ Waits(c)
  <2>1. windows' = windows
    BY <1>1 DEF Answered, Referred, WalletSays, Asks, Waits, Turns
  <2> QED
    BY <2>1 DEF Silent
<1>2. CASE Pends(c)
  <2>1. View[job[c].local] \in Names
    BY <1>2, ViewsOf DEF Pends
  <2> QED
    BY <1>2, <2>1, RendersSilent, CoreParts DEF Pends
<1>3. CASE Concludes(c)
  <2>1. Placed(c) /\ call[c].phase \in {"polling", "asking"}
    BY <1>3, CoreParts DEF Concludes
  <2>2. job[c].local \in Locals
    BY <2>1, CoreParts DEF Placed
  <2>3. {View[job[c].local]} \in SUBSET Names
    BY <2>2, ViewsOf
  <2>4. DOMAIN windows' = DOMAIN windows /\ \A w \in DOMAIN windows : Shut(w)
    BY <1>3, <2>3, ClosesFacts, CoreParts DEF Concludes
  <2> QED
    BY <2>4 DEF Shut, Silent
<1> QED
  BY <1>1, <1>2, <1>3 DEF Polls

LEMMA OwnAccepted ==
  ASSUME Framed, NEW c \in Calls, job[c].method = "IFRAME/RPC", call[c].phase = "listening",
         c \in listeners, mail # << >>, mail[1].type \in {"RESPONSE", "JSONRPC"}, Accepts(c, mail[1])
  PROVE  mail[1].of = c
<1>1. Placed(c) /\ Viewed
  BY CoreParts DEF Framed
<1>2. call[c].win # Null /\ call[c].win \in DOMAIN windows
  BY <1>1 DEF Placed
<1>3. windows[call[c].win].view = "frame" /\ windows[call[c].win].page.for = c
  BY <1>1, <1>2, ViewFacts DEF Placed
<1>4. mail[1].source = call[c].win
  <2>1. call[c].win = Null \/ mail[1].source = call[c].win
    BY <1>2 DEF Accepts
  <2> QED
    BY <1>2, <2>1
<1>5. call[c].win # App
  BY <1>1, <1>2 DEF Viewed, App
<1>6. OwnWord(mail[1])
  <2>1. mail \in Seq(Messages)
    BY CoreParts DEF Framed
  <2>2. 1 \in 1 .. Len(mail)
    BY <2>1
  <2> QED
    BY <2>2 DEF Framed, FramesSay
<1> QED
  BY <1>2, <1>3, <1>4, <1>5, <1>6 DEF OwnWord

LEMMA TookFramed ==
  ASSUME Framed, NEW C \in SUBSET Calls, NEW U \in SUBSET Calls, Took(C, U) PROVE Framed'
<1>1. Core /\ Core' /\ Kept /\ DOMAIN windows' = DOMAIN windows /\ \A w \in DOMAIN windows : Shut(w)
  BY TookViews, TookCore DEF Framed
<1>2. FramesHear'
  <2>1. Silent
    BY <1>1 DEF Silent, Shut
  <2> QED
    BY <2>1, SilentHears DEF Framed
<1>3. FramesSay'
  BY <1>1, SaidStays DEF Framed, Took
<1>4. ASSUME NEW c \in Calls PROVE OwnAnswer(c)'
  <2>1. CASE c \notin C
    BY <2>1 DEF Took, Framed, OwnAnswer
  <2>2. CASE c \in C
    <3>1. CASE MovesOn(c)
      BY <3>1 DEF MovesOn, OwnAnswer
    <3>2. CASE Finished(c) /\ call[c].result # Null
      <4>1. job'[c] = job[c] /\ call'[c].result = call[c].result
        BY <2>2, <3>2 DEF Finished, Took
      <4> QED
        BY <4>1 DEF Framed, OwnAnswer
    <3>3. CASE Finished(c) /\ call[c].result = Null
      <4>1. Outcome(c) /\ c \in listeners
        BY <2>2, <3>3 DEF Took
      <4>2. call[c].phase = "listening"
        BY <1>1, <3>3, <4>1, CoreParts DEF Placed
      <4>3. CASE call'[c].result = Result("failed", c)
        BY <4>3 DEF Result, OwnAnswer
      <4>4. CASE call'[c].result # Result("failed", c)
        <5>1. job'[c] = job[c]
          BY <2>2, <3>3, <4>4 DEF Took
        <5>2. CASE /\ c \in timers
                   /\ call'[c].result = Result("halted", IF windows[call[c].win].by = "user" THEN c ELSE Null)
          BY <5>2 DEF Result, OwnAnswer
        <5>3. CASE /\ mail # << >> /\ mail[1].type \in {"RESPONSE", "JSONRPC", "CLOSE"} /\ Accepts(c, mail[1])
                   /\ call'[c].result.of = mail[1].of
                   /\ mail[1].type = "CLOSE" => call'[c].result.how = "halted"
          <6>1. CASE mail[1].type = "CLOSE"
            BY <5>3, <6>1 DEF OwnAnswer
          <6>2. CASE mail[1].type \in {"RESPONSE", "JSONRPC"}
            <7>1. job[c].method = "IFRAME/RPC" => mail[1].of = c
              BY <4>1, <4>2, <5>3, <6>2, OwnAccepted
            <7> QED
              BY <5>1, <5>3, <7>1 DEF OwnAnswer
          <6> QED
            BY <5>3, <6>1, <6>2
        <5> QED
          BY <4>1, <4>4, <5>2, <5>3 DEF Outcome
      <4> QED
        BY <4>3, <4>4
    <3> QED
      BY <2>2, <3>1, <3>2, <3>3 DEF Took
  <2> QED
    BY <2>1, <2>2
<1> QED
  BY <1>1, <1>2, <1>3, <1>4 DEF Framed

LEMMA HeedsFramed == ASSUME Framed, Heeds PROVE Framed'
<1>1. Core /\ Core' /\ Kept
  BY HeedsCore DEF Framed, Heeds, Kept
<1>2. FramesSay'
  BY <1>1, SaidStays DEF Framed, Heeds
<1>3. FramesHear'
  <2> SUFFICES ASSUME NEW w \in DOMAIN windows, windows[w].view = "frame", NEW c \in windows'[w].page.heard
               PROVE  c = windows[w].page.for
    BY DEF FramesHear, Heeds
  <2>1. CASE c \in windows[w].page.heard
    BY <2>1 DEF Framed, FramesHear
  <2>2. CASE Hears(w, c)
    <3>1. c \in Calls /\ c \in listeners /\ call[c].win = w /\ call[c].win # Null
      BY <1>1, <2>2, CoreParts DEF Hears, Takers
    <3>2. Placed(c)
      BY <1>1, <3>1, CoreParts
    <3> QED
      BY <3>1, <3>2 DEF Placed
  <2> QED
    BY <2>1, <2>2 DEF Heeds
<1>4. \A c \in Calls : OwnAnswer(c)'
  BY DEF Heeds, Framed, OwnAnswer
<1> QED
  BY <1>1, <1>2, <1>3, <1>4 DEF Framed

LEMMA SilentFramed ==
  ASSUME Framed, Core', Kept, Silent, mail' = mail, \A c \in Calls : OwnAnswer(c)' PROVE Framed'
<1>1. FramesHear'
  BY SilentHears DEF Framed
<1>2. FramesSay'
  BY SaidStays DEF Framed
<1> QED
  BY <1>1, <1>2 DEF Framed

LEMMA ExecutesFramed == ASSUME Framed, NEW c \in Calls, Executes(c) PROVE Framed'
<1>1. Core /\ Core' /\ UNCHANGED <<job, mail>>
  BY ExecutesCore DEF Framed, Executes
<1>2. Kept /\ Silent
  <2>1. CASE Threw(c)
    BY <2>1 DEF Threw, Kept, Silent
  <2>2. CASE Showed(c)
    BY <1>1, <2>2, RendersKept, RendersSilent DEF Executes, Showed
  <2> QED
    BY <2>1, <2>2 DEF Executes
<1>3. ASSUME NEW d \in Calls PROVE OwnAnswer(d)'
  <2>1. CASE d = c
    <3>1. call'[c].result = Null \/ call'[c].result = Result("failed", c)
      BY DEF Executes, Threw, Showed, Started
    <3> QED
      BY <2>1, <3>1 DEF OwnAnswer, Result
  <2>2. CASE d # c
    <3>1. call'[d].result = call[d].result
      BY <2>2 DEF Executes, Threw, Showed, Started, Else
    <3> QED
      BY <1>1, <3>1 DEF Framed, OwnAnswer
  <2> QED
    BY <2>1, <2>2
<1> QED
  BY <1>1, <1>2, <1>3, SilentFramed

LEMMA FetchesFramed == ASSUME Framed, NEW c \in Calls, Fetches(c) PROVE Framed'
<1>1. Core' /\ UNCHANGED <<job, mail, windows>>
  BY FetchesCore DEF Framed, Fetches
<1>2. Kept /\ Silent
  BY <1>1 DEF Kept, Silent
<1>3. ASSUME NEW d \in Calls PROVE OwnAnswer(d)'
  <2>1. CASE d = c
    BY <2>1 DEF OwnAnswer, Fetches, Started
  <2>2. CASE d # c
    <3>1. call'[d].result = call[d].result
      BY <2>2 DEF Fetches, Started, Else
    <3> QED
      BY <1>1, <3>1 DEF Framed, OwnAnswer
  <2> QED
    BY <2>1, <2>2
<1> QED
  BY <1>1, <1>2, <1>3, SilentFramed

LEMMA PollsFramed == ASSUME Framed, NEW c \in Calls, Polls(c) PROVE Framed'
<1>1. Core /\ Core' /\ Kept /\ Silent /\ mail' = mail
  BY PollsCore, PollsViews, PollsSilent DEF Framed, Polls, Solely
<1>2. ASSUME NEW d \in Calls PROVE OwnAnswer(d)'
  <2>1. CASE d = c
    <3>1. CASE Answered(c)
      BY <2>1, <3>1 DEF Answered, OwnAnswer
    <3>2. CASE Concludes(c)
      BY <2>1, <3>2 DEF Concludes, OwnAnswer
    <3>3. CASE Referred(c)
      BY <2>1, <3>3 DEF Referred, OwnAnswer, MovesOn, Result
    <3>4. CASE Pends(c) \/ WalletSays(c) \/ Asks(c) \/ Waits(c)
      <4>1. call'[c].result = call[c].result /\ job' = job
        BY <3>4 DEF Pends, WalletSays, Asks, Waits, Turns
      <4> QED
        BY <2>1, <4>1 DEF Framed, OwnAnswer
    <3> QED
      BY <3>1, <3>2, <3>3, <3>4 DEF Polls
  <2>2. CASE d # c
    BY <2>2 DEF Polls, Solely, Framed, OwnAnswer
  <2> QED
    BY <2>1, <2>2
<1> QED
  BY <1>1, <1>2, SilentFramed

LEMMA ChosenFramed == ASSUME Framed, NEW c \in Calls, Chosen(c) PROVE Framed'
<1>1. Core' /\ UNCHANGED <<job, mail, windows>>
  BY ChosenCore DEF Framed, Chosen
<1>2. Kept /\ Silent
  BY <1>1 DEF Kept, Silent
<1>3. ASSUME NEW d \in Calls PROVE OwnAnswer(d)'
  <2>1. CASE d = c
    BY <2>1 DEF OwnAnswer, Chosen, Result
  <2>2. CASE d # c
    BY <2>2 DEF Chosen, Framed, OwnAnswer
  <2> QED
    BY <2>1, <2>2
<1> QED
  BY <1>1, <1>2, <1>3, SilentFramed

LEMMA SpeaksFramed ==
  ASSUME Framed, NEW w \in DOMAIN windows, NEW m \in Messages, Speaks(w, m) PROVE Framed'
<1>1. Core /\ Core' /\ Kept /\ UNCHANGED <<job, call>> /\ DOMAIN windows' = DOMAIN windows
  BY SpeaksCore DEF Framed, Speaks, Kept
<1>2. FramesHear'
  <2>1. \A v \in DOMAIN windows : /\ windows'[v].view = windows[v].view
                                  /\ windows'[v].page.heard = windows[v].page.heard
                                  /\ windows'[v].page.for = windows[v].page.for
    BY DEF Speaks
  <2> QED
    BY <1>1, <2>1 DEF Framed, FramesHear
<1>3. OwnWord(m)
  <2> SUFFICES ASSUME m.type \in {"RESPONSE", "JSONRPC"}, m.source # App
               PROVE  /\ m.source \in DOMAIN windows
                      /\ windows[m.source].view = "frame" => m.of = windows[m.source].page.for
    BY DEF OwnWord
  <2>1. m.source = w
    BY <1>1, SourceTyped DEF Speaks
  <2>2. m.of \in windows[w].page.heard
    BY DEF Speaks
  <2> QED
    BY <2>1, <2>2 DEF Framed, FramesHear
<1>4. FramesSay'
  <2> SUFFICES ASSUME NEW i \in 1 .. Len(mail') PROVE OwnWord(mail[i])'
    BY DEF FramesSay
  <2>1. mail'[i] = m \/ \E j \in 1 .. Len(mail) : mail'[i] = mail[j]
    BY <1>1, MailGrows, CoreParts DEF Speaks
  <2>2. PICK x : mail'[i] = x /\ OwnWord(x)
    BY <1>3, <2>1 DEF Framed, FramesSay
  <2> QED
    BY <1>1, <2>2 DEF OwnWord, Kept
<1>5. \A c \in Calls : OwnAnswer(c)'
  BY <1>1 DEF Framed, OwnAnswer
<1> QED
  BY <1>1, <1>2, <1>4, <1>5 DEF Framed

LEMMA LeavesFramed == ASSUME Framed, NEW w \in DOMAIN windows, Leaves(w) PROVE Framed'
<1>1. Core' /\ UNCHANGED <<job, mail>>
  BY LeavesCore DEF Framed, Leaves
<1>2. Kept /\ Silent
  BY DEF Leaves, Kept, Silent
<1>3. \A c \in Calls : OwnAnswer(c)'
  BY <1>1 DEF Leaves, Framed, OwnAnswer
<1> QED
  BY <1>1, <1>2, <1>3, SilentFramed

LEMMA FramedStep == Framed /\ [Next]_vars => Framed'
<1> SUFFICES ASSUME Framed, [Next]_vars PROVE Framed'
  OBVIOUS
<1>1. CASE UNCHANGED vars
  <2>1. Core'
    BY <1>1, CoreUnchanged DEF Framed
  <2>2. Kept /\ Silent /\ mail' = mail
    BY <1>1 DEF vars, Kept, Silent
  <2>3. \A c \in Calls : OwnAnswer(c)'
    BY <1>1 DEF vars, Framed, OwnAnswer
  <2> QED
    BY <2>1, <2>2, <2>3, SilentFramed
<1>2. Core
  BY DEF Framed
<1> QED
  BY <1>1, <1>2, StepKinds, TookFramed, HeedsFramed, ExecutesFramed, FetchesFramed, PollsFramed,
     ChosenFramed, SpeaksFramed, LeavesFramed DEF Kinds

\* Whatever else is under way, a service in an iframe is answered by what
\* its own page heard of it (buildMessageHandler.js:33,43).
THEOREM OwnFrameAnswers == Spec => []FramesAnswerTheirOwn
<1>1. Spec => []Framed
  BY InitFramed, FramedStep, PTL DEF Spec
<1>2. Framed => FramesAnswerTheirOwn
  BY DEF Framed, OwnAnswer, FramesAnswerTheirOwn
<1> QED
  BY <1>1, <1>2, PTL

-----------------------------------------------------------------------------
(* A page that may still talk is attended by a call that listens to it.     *)

Attended == \A w \in DOMAIN windows :
  Talks(w) /\ windows[w].view # "ext" => \E c \in listeners : call[c].win = w
Unasked(c) == ~ call[c].moved /\ call[c].phase \in {"idle", "fetching"} =>
                \A w \in DOMAIN windows : windows[w].page.for # c
Manned == Core /\ Attended /\ \A c \in Calls : Unasked(c)

LEMMA InitManned == Init => Manned
<1> SUFFICES ASSUME Init PROVE Manned
  OBVIOUS
<1>1. Core /\ windows = << >>
  BY InitCore DEF Init
<1> QED
  BY <1>1 DEF Manned, Attended, Unasked

\* No page starts to talk.
Quiet == /\ DOMAIN windows' = DOMAIN windows
         /\ \A w \in DOMAIN windows : /\ Talks(w)' => Talks(w)
                                      /\ windows'[w].view = windows[w].view
                                      /\ windows'[w].page.for = windows[w].page.for

LEMMA AttendedStays ==
  ASSUME Core, Attended, Quiet,
         \A c \in listeners :
           /\ call'[c].win = call[c].win
           /\ \/ c \in listeners'
              \/ call[c].win # Null => windows[call[c].win].view = "ext" \/ ~ windows'[call[c].win].open
  PROVE  Attended'
<1> SUFFICES ASSUME NEW w \in DOMAIN windows, Talks(w)', windows[w].view # "ext"
             PROVE  \E c \in listeners' : call'[c].win = w
  BY DEF Attended, Quiet
<1>1. PICK c \in listeners : call[c].win = w
  BY DEF Attended, Quiet
<1>2. windows'[w].open
  BY DEF Talks
<1>3. w # Null
  <2>1. w \in Nat
    BY CoreParts DEF Viewed
  <2> QED
    BY <2>1, NullIsNone
<1> QED
  BY <1>1, <1>2, <1>3

LEMMA UnaskedStays ==
  ASSUME NEW d \in Calls, Unasked(d),
         call'[d].phase \in {"idle", "fetching"} /\ ~ call'[d].moved =>
           call[d].phase \in {"idle", "fetching"} /\ ~ call[d].moved,
         \A w \in DOMAIN windows' : windows'[w].page.for = d =>
           w \in DOMAIN windows /\ windows[w].page.for = d
  PROVE  Unasked(d)'
  BY DEF Unasked

LEMMA TookQuiet ==
  ASSUME Core, NEW C \in SUBSET Calls, NEW U \in SUBSET Calls, Took(C, U) PROVE Quiet
<1>1. DOMAIN windows' = DOMAIN windows /\ \A w \in DOMAIN windows : Shut(w)
  BY TookViews
<1> SUFFICES ASSUME NEW w \in DOMAIN windows, Talks(w)' PROVE Talks(w)
  BY <1>1 DEF Quiet, Shut
<1> DEFINE d == windows[w].page.for
<1>2. d \in Calls
  BY CoreParts DEF Screens, Pages
<1>3. windows'[w].page = windows[w].page /\ (windows'[w].open => windows[w].open)
  BY <1>1 DEF Shut
<1>4. job'[d].method # "HTTP/POST" /\ windows'[w].open /\ ~ windows[w].page.ended
  BY <1>3 DEF Talks
<1>5. job[d].method # "HTTP/POST"
  <2>1. CASE d \in C
    <3>1. d \in listeners
      BY <2>1 DEF Took
    <3> HIDE DEF d
    <3> QED
      BY <1>2, <3>1, CoreParts DEF Placed
  <2>2. CASE d \notin C
    <3>1. job'[d] = job[d]
      BY <1>2, <2>2 DEF Took
    <3> QED
      BY <1>4, <3>1
  <2> QED
    BY <2>1, <2>2
<1> QED
  BY <1>3, <1>4, <1>5 DEF Talks

LEMMA TookManned ==
  ASSUME Manned, NEW C \in SUBSET Calls, NEW U \in SUBSET Calls, Took(C, U) PROVE Manned'
<1>1. Core /\ Core' /\ Quiet
  BY TookCore, TookQuiet DEF Manned
<1>2. /\ listeners' = listeners \ U /\ C \subseteq listeners /\ U \subseteq C
      /\ \A c \in C : Finished(c) \/ MovesOn(c)
      /\ \A c \in Calls \ C : call'[c] = call[c]
  BY DEF Took
<1>3. Attended'
  <2> SUFFICES ASSUME NEW c \in listeners
               PROVE  /\ call'[c].win = call[c].win
                      /\ \/ c \in listeners'
                         \/ call[c].win # Null =>
                              windows[call[c].win].view = "ext" \/ ~ windows'[call[c].win].open
    BY <1>1, AttendedStays DEF Manned
  <2>1. c \in Calls /\ Placed(c)
    BY <1>1, CoreParts
  <2>2. call'[c].win = call[c].win
    BY <1>2, <2>1 DEF Finished, MovesOn, Rests
  <2>3. ASSUME c \in U, call[c].win # Null, windows[call[c].win].view # "ext"
        PROVE  ~ windows'[call[c].win].open
    <3>1. call[c].win \in DOMAIN windows /\ windows[call[c].win].view = View[job[c].method]
      BY <2>1, <2>3 DEF Placed
    <3>2. View[job[c].method] \in Unshown(U)
      BY <2>3, <3>1 DEF Unshown
    <3> QED
      BY <1>1, <3>1, <3>2, TookViews
  <2> QED
    BY <1>2, <2>2, <2>3
<1>4. ASSUME NEW d \in Calls PROVE Unasked(d)'
  <2>1. call'[d].phase \in {"idle", "fetching"} /\ ~ call'[d].moved =>
           call[d].phase \in {"idle", "fetching"} /\ ~ call[d].moved
    BY <1>2 DEF Finished, MovesOn
  <2> QED
    BY <1>1, <2>1, UnaskedStays DEF Manned, Quiet
<1> QED
  BY <1>1, <1>3, <1>4 DEF Manned

\* A step that neither opens a window nor ends a handler.
LEMMA QuietManned ==
  ASSUME Manned, Core', Quiet, listeners \subseteq listeners',
         \A c \in listeners : call'[c].win = call[c].win,
         \A d \in Calls : call'[d].phase \in {"idle", "fetching"} /\ ~ call'[d].moved =>
           call[d].phase \in {"idle", "fetching"} /\ ~ call[d].moved
  PROVE  Manned'
<1>1. Attended'
  BY AttendedStays DEF Manned
<1>2. ASSUME NEW d \in Calls PROVE Unasked(d)'
  BY UnaskedStays DEF Manned, Quiet
<1> QED
  BY <1>1, <1>2 DEF Manned

LEMMA SameQuiet == ASSUME UNCHANGED <<windows, job>> PROVE Quiet
  BY DEF Quiet, Talks

\* Call c is shown a view: its page may talk, the others do not start to.
LEMMA RendersTalk ==
  ASSUME Core, NEW view \in Names, NEW c \in Calls, NEW url \in STRING,
         Renders(view, c, url), ~ (view = "frame" /\ Shows(view)), UNCHANGED job,
         NEW w \in DOMAIN windows', Talks(w)'
  PROVE  \/ w = Shown(view) /\ windows'[w].page = Page(c, url)
         \/ w \in DOMAIN windows /\ Talks(w) /\ windows'[w].page = windows[w].page
            /\ windows'[w].view = windows[w].view
<1>1. /\ DOMAIN windows' = DOMAIN windows \cup {Shown(view)}
      /\ Fresh(view, c, url) \/ Again(view, c, url)
      /\ \A v \in DOMAIN windows :
              /\ windows'[v].view = windows[v].view /\ (windows'[v].open => windows[v].open)
              /\ v # Shown(view) => windows'[v].page = windows[v].page
  BY RendersFacts, CoreParts
<1>2. ASSUME w \in DOMAIN windows, windows'[w].page = windows[w].page PROVE Talks(w)
  BY <1>1, <1>2 DEF Talks
<1>3. CASE w = Shown(view)
  BY <1>1, <1>2, <1>3 DEF Fresh, Again
<1>4. CASE w # Shown(view)
  BY <1>1, <1>2, <1>4
<1> QED
  BY <1>3, <1>4

LEMMA RendersFor ==
  ASSUME Core, NEW view \in Names, NEW c \in Calls, NEW url \in STRING,
         Renders(view, c, url), ~ (view = "frame" /\ Shows(view))
  PROVE  \A d \in Calls \ {c} : \A w \in DOMAIN windows' : windows'[w].page.for = d =>
           w \in DOMAIN windows /\ windows[w].page.for = d
<1>1. /\ DOMAIN windows' = DOMAIN windows \cup {Shown(view)}
      /\ Fresh(view, c, url) \/ Again(view, c, url)
      /\ \A v \in DOMAIN windows : v # Shown(view) => windows'[v].page = windows[v].page
  BY RendersFacts, CoreParts
<1>2. Page(c, url).for = c
  BY DEF Page
<1> QED
  BY <1>1, <1>2 DEF Fresh, Again

LEMMA ExecutesManned == ASSUME Manned, NEW c \in Calls, Executes(c) PROVE Manned'
<1>1. Core /\ Core' /\ UNCHANGED job /\ listeners' = listeners \cup {c} /\ c \notin listeners
  <2>1. Core /\ Placed(c)
    BY CoreParts DEF Manned
  <2> QED
    BY <2>1, ExecutesCore DEF Executes, Placed
<1>2. /\ call'[c].phase \in {"done", "listening"}
      /\ \A d \in Calls \ {c} : call'[d].phase = call[d].phase /\ call'[d].moved = call[d].moved
                                /\ call'[d].win = call[d].win
  BY DEF Executes, Threw, Showed, Started, Else
<1>3. listeners \subseteq Calls
  BY <1>1, CoreParts
<1>4. CASE Threw(c)
  <2>1. Quiet
    BY <1>1, <1>4, SameQuiet DEF Threw
  <2> QED
    BY <1>1, <1>2, <1>3, <2>1, QuietManned
<1>5. CASE Showed(c)
  <2> DEFINE view == View[job[c].method]
  <2>1. /\ view \in Names /\ job[c].url \in STRING /\ Renders(view, c, job[c].url)
        /\ ~ (view = "frame" /\ Shows(view)) /\ call'[c].win = Shown(view)
    BY <1>5 DEF Executes, Showed, Started
  <2> HIDE DEF view
  <2>2. Attended'
    <3> SUFFICES ASSUME NEW w \in DOMAIN windows', Talks(w)', windows'[w].view # "ext"
                 PROVE  \E d \in listeners' : call'[d].win = w
      BY DEF Attended
    <3>1. CASE w = Shown(view)
      BY <1>1, <2>1, <3>1
    <3>2. CASE w # Shown(view)
      <4>1. w \in DOMAIN windows /\ Talks(w) /\ windows'[w].view = windows[w].view
        BY <1>1, <2>1, <3>2, RendersTalk
      <4>2. PICK d \in listeners : call[d].win = w
        BY <4>1 DEF Manned, Attended
      <4> QED
        BY <1>1, <1>2, <1>3, <4>2
    <3> QED
      BY <3>1, <3>2
  <2>3. ASSUME NEW d \in Calls PROVE Unasked(d)'
    <3>1. CASE d = c
      BY <1>2, <3>1 DEF Unasked
    <3>2. CASE d # c
      <4>1. \A e \in Calls \ {c} : \A w \in DOMAIN windows' : windows'[w].page.for = e =>
              w \in DOMAIN windows /\ windows[w].page.for = e
        BY <1>1, <2>1, RendersFor
      <4>2. \A w \in DOMAIN windows' : windows'[w].page.for = d =>
              w \in DOMAIN windows /\ windows[w].page.for = d
        BY <3>2, <4>1
      <4> QED
        BY <1>2, <3>2, <4>2, UnaskedStays DEF Manned
    <3> QED
      BY <3>1, <3>2
  <2> QED
    BY <1>1, <2>2, <2>3 DEF Manned
<1> QED
  BY <1>4, <1>5 DEF Executes

LEMMA PollsManned == ASSUME Manned, NEW c \in Calls, Polls(c) PROVE Manned'
<1>1. /\ Core /\ Core' /\ Solely(c) /\ Placed(c)
      /\ call[c].phase \in {"fetching", "polling", "asking"} /\ c \notin listeners
      /\ \A d \in Calls : Unasked(d)
  <2>1. Core /\ Placed(c)
    BY CoreParts DEF Manned
  <2> QED
    BY <2>1, PollsCore
    DEF Manned, Polls, Placed, Answered, Referred, Pends, WalletSays, Turns, Asks, Waits, Concludes
<1>2. /\ listeners' = listeners /\ listeners \subseteq Calls
      /\ \A d \in Calls \ {c} : call'[d] = call[d]
  BY <1>1, CoreParts DEF Solely
<1>3. call'[c].phase \notin {"idle", "fetching"}
  BY DEF Polls, Answered, Referred, Pends, WalletSays, Turns, Asks, Waits, Concludes, Finished, MovesOn
<1>4. ASSUME Quiet PROVE Manned'
  BY <1>1, <1>2, <1>3, <1>4, QuietManned
<1>5. CASE Answered(c) \/ WalletSays(c) \/ Asks(c) \/ Waits(c)
  BY <1>4, <1>5, SameQuiet DEF Answered, WalletSays, Turns, Asks, Waits
<1>6. CASE Referred(c)
  <2>1. \A w \in DOMAIN windows : windows[w].page.for # c
    BY <1>1, <1>6 DEF Referred, Unasked
  <2>2. windows' = windows /\ \A d \in Calls \ {c} : job'[d] = job[d]
    BY <1>1, <1>6 DEF Referred, Solely
  <2>3. \A w \in DOMAIN windows : windows[w].page.for \in Calls
    BY <1>1, CoreParts DEF Screens, Pages
  <2>4. Quiet
    BY <2>1, <2>2, <2>3 DEF Quiet, Talks
  <2> QED
    BY <1>4, <2>4
<1>7. CASE Concludes(c)
  <2>1. job[c].local \in Locals /\ job' = job
    BY <1>1, <1>7, CoreParts DEF Concludes, Placed
  <2>2. {View[job[c].local]} \in SUBSET Names
    BY <2>1, ViewsOf
  <2>3. DOMAIN windows' = DOMAIN windows /\ \A w \in DOMAIN windows : Shut(w)
    BY <1>1, <1>7, <2>2, ClosesFacts, CoreParts DEF Concludes
  <2>4. Quiet
    BY <2>1, <2>3 DEF Quiet, Talks, Shut
  <2> QED
    BY <1>4, <2>4
<1>8. CASE Pends(c)
  <2> DEFINE view == View[job[c].local]
  <2>1. /\ view \in Names /\ job[c].url \in STRING /\ Renders(view, c, job[c].url)
        /\ ~ (view = "frame" /\ Shows(view)) /\ job' = job
    BY <1>1, <1>8, ViewsOf, CoreParts DEF Pends
  <2> HIDE DEF view
  <2>2. job[c].method = "HTTP/POST"
    BY <1>1 DEF Placed
  <2>3. Attended'
    <3> SUFFICES ASSUME NEW w \in DOMAIN windows', Talks(w)', windows'[w].view # "ext"
                 PROVE  \E d \in listeners' : call'[d].win = w
      BY DEF Attended
    <3>1. windows'[w].page # Page(c, job[c].url)
      BY <2>1, <2>2 DEF Talks, Page
    <3>2. w \in DOMAIN windows /\ Talks(w) /\ windows'[w].view = windows[w].view
      BY <1>1, <2>1, <3>1, RendersTalk
    <3>3. PICK d \in listeners : call[d].win = w
      BY <3>2 DEF Manned, Attended
    <3> QED
      BY <1>1, <1>2, <3>3
  <2>4. ASSUME NEW d \in Calls PROVE Unasked(d)'
    <3>1. CASE d = c
      BY <1>3, <3>1 DEF Unasked
    <3>2. CASE d # c
      <4>1. \A e \in Calls \ {c} : \A w \in DOMAIN windows' : windows'[w].page.for = e =>
              w \in DOMAIN windows /\ windows[w].page.for = e
        <5>1. Core
          BY <1>1
        <5> QED
          BY <5>1, <2>1, RendersFor
      <4>2. \A w \in DOMAIN windows' : windows'[w].page.for = d =>
              w \in DOMAIN windows /\ windows[w].page.for = d
        BY <3>2, <4>1
      <4> QED
        BY <1>1, <1>2, <3>2, <4>2, UnaskedStays
    <3> QED
      BY <3>1, <3>2
  <2> QED
    BY <1>1, <2>3, <2>4 DEF Manned
<1> QED
  BY <1>5, <1>6, <1>7, <1>8, <1>1 DEF Polls

LEMMA HeedsQuiet == Heeds => Quiet
  BY DEF Heeds, Quiet, Talks
LEMMA SpeaksQuiet == ASSUME NEW w \in DOMAIN windows, NEW m \in Messages, Speaks(w, m) PROVE Quiet
<1>1. \A v \in DOMAIN windows : /\ windows'[v].view = windows[v].view /\ windows'[v].open = windows[v].open
                                /\ windows'[v].page.for = windows[v].page.for
                                /\ windows[v].page.ended => windows'[v].page.ended
  BY DEF Speaks
<1> QED
  BY <1>1 DEF Speaks, Quiet, Talks
LEMMA LeavesQuiet == ASSUME NEW w \in DOMAIN windows, Leaves(w) PROVE Quiet
<1>1. \A v \in DOMAIN windows : /\ windows'[v].view = windows[v].view
                                /\ windows'[v].open => windows[v].open
                                /\ windows'[v].page = windows[v].page
  BY DEF Leaves
<1> QED
  BY <1>1 DEF Leaves, Quiet, Talks

LEMMA MannedStep == Manned /\ [Next]_vars => Manned'
<1> SUFFICES ASSUME Manned, [Next]_vars PROVE Manned'
  OBVIOUS
<1>1. Core /\ Core' /\ listeners \subseteq Calls
  BY CoreStep, CoreParts DEF Manned
<1>2. CASE UNCHANGED vars
  <2>1. Quiet
    BY <1>2, SameQuiet DEF vars
  <2>2. /\ listeners' = listeners /\ call' = call
    BY <1>2 DEF vars
  <2> QED
    BY <1>1, <2>1, <2>2, QuietManned
<1>3. CASE Heeds
  <2>1. /\ listeners' = listeners
        /\ \A d \in Calls : call'[d].phase = call[d].phase /\ call'[d].moved = call[d].moved
                            /\ call'[d].win = call[d].win
    BY <1>3 DEF Heeds
  <2> QED
    BY <1>1, <1>3, <2>1, HeedsQuiet, QuietManned
<1>4. ASSUME NEW c \in Calls, Fetches(c) PROVE Manned'
  <2>1. Quiet
    BY <1>4, SameQuiet DEF Fetches
  <2>2. /\ listeners' = listeners /\ c \notin listeners
        /\ \A d \in Calls \ {c} : call'[d].phase = call[d].phase /\ call'[d].moved = call[d].moved
                            /\ call'[d].win = call[d].win
        /\ call[c].phase = "idle" \/ call[c].moved
        /\ call'[c].moved = call[c].moved
    <3>1. Placed(c)
      BY <1>1, CoreParts
    <3> QED
      BY <1>4, <3>1 DEF Fetches, Started, Else, Placed
  <2> QED
    BY <1>1, <2>1, <2>2, QuietManned
<1>5. ASSUME NEW c \in Calls, Chosen(c) PROVE Manned'
  <2>1. Quiet
    BY <1>5, SameQuiet DEF Chosen
  <2>2. /\ listeners' = listeners /\ \A d \in Calls \ {c} : call'[d] = call[d]
        /\ call'[c].phase = "answered" /\ call'[c].win = call[c].win
    BY <1>5 DEF Chosen, Rests
  <2> QED
    BY <1>1, <2>1, <2>2, QuietManned
<1>6. ASSUME NEW w \in DOMAIN windows, NEW m \in Messages, Speaks(w, m) PROVE Manned'
  <2>1. listeners' = listeners /\ call' = call
    BY <1>6 DEF Speaks
  <2> QED
    BY <1>1, <1>6, <2>1, SpeaksQuiet, QuietManned
<1>7. ASSUME NEW w \in DOMAIN windows, Leaves(w) PROVE Manned'
  <2>1. /\ listeners' = listeners
        /\ \A d \in Calls : call'[d].phase = call[d].phase /\ call'[d].moved = call[d].moved
                            /\ call'[d].win = call[d].win
    BY <1>7 DEF Leaves
  <2> QED
    BY <1>1, <1>7, <2>1, LeavesQuiet, QuietManned
<1> QED
  BY <1>1, <1>2, <1>3, <1>4, <1>5, <1>6, <1>7, StepKinds, TookManned, ExecutesManned, PollsManned DEF Kinds

-----------------------------------------------------------------------------
(* A call alone.                                                            *)

Mine(c, m) == m.of = c \/ (m.source = App /\ job[c].method # "EXT/RPC")
OwnPage(c, w) == \/ windows[w].page.for = c /\ windows[w].page.heard \subseteq {c}
                 \/ windows[w].view = "ext" /\ job[c].method # "EXT/RPC"

\* While it is under way no other is, and nothing else listens; only its own
\* page may talk, what is posted is for it, and only the user closes its window.
Single(c) == call[c].alone /\ UnderWay(c) =>
               \A d \in Calls \ {c} : ~ UnderWay(d) /\ d \notin listeners
Lone(c) == Single(c) /\
  (call[c].alone =>
     /\ call[c].phase = "listening" =>
          /\ \A i \in 1 .. Len(mail) : Mine(c, mail[i])
          /\ \A w \in DOMAIN windows : Talks(w) => OwnPage(c, w)
          /\ c \in timers /\ ~ windows[call[c].win].open => windows[call[c].win].by = "user"
     /\ call[c].phase \in {"polling", "asking"} /\ windows[call[c].win].open =>
          views[View[job[c].local]].win = call[c].win)

\* It ends as its own wallet ends it, and leaves nothing behind.
OwnEnd(c) == call[c].alone /\ call[c].result # Null /\ call[c].result.how # "failed" =>
               call[c].result.of = c
Nothing(c) ==
  call[c].phase = "done" /\ call[c].alone /\ ~ (job[c].redir /\ ~ job[c].hook) =>
    /\ c \notin timers
    /\ c \in listeners => ViewThrew(c)
    /\ call[c].win # Null /\ windows[call[c].win].view # "ext" => ~ windows[call[c].win].open
Alright(c) == Lone(c) /\ OwnEnd(c) /\ Nothing(c)
Solitary == \A c \in Calls : Alright(c)

LEMMA InitSolitary == Init => Solitary
<1> SUFFICES ASSUME Init, NEW c \in Calls PROVE Alright(c)
  BY DEF Solitary
<1>1. call[c] = Idle
  BY DEF Init
<1> QED
  BY <1>1 DEF Alright, Lone, Single, OwnEnd, Nothing, Idle

LEMMA LoneNot ==
  ASSUME NEW c \in Calls, ~ (call'[c].alone /\ call'[c].phase \notin {"idle", "done"}) PROVE Lone(c)'
  BY DEF Lone, Single, UnderWay

\* A call that nothing touches ends and leaves as it did.
LEMMA RestedStays ==
  ASSUME NEW c \in Calls, Placed(c), OwnEnd(c), Nothing(c), Kept,
         call'[c].phase = call[c].phase, call'[c].result = call[c].result, call'[c].win = call[c].win,
         call'[c].alone => call[c].alone, job'[c] = job[c],
         c \in listeners' => c \in listeners, c \in timers' => c \in timers
  PROVE  OwnEnd(c)' /\ Nothing(c)'
<1>1. OwnEnd(c)'
  BY DEF OwnEnd
<1>2. call[c].win # Null =>
        /\ windows'[call[c].win].view = windows[call[c].win].view
        /\ windows'[call[c].win].open => windows[call[c].win].open
  BY DEF Placed, Kept
<1>3. Nothing(c)'
  BY <1>2 DEF Nothing, ViewThrew
<1> QED
  BY <1>1, <1>3

\* Another call that is under way takes a step.
LEMMA OtherActs ==
  ASSUME NEW c \in Calls, Alright(c), Placed(c), Kept, NEW d \in Calls \ {c}, UnderWay(d),
         call'[c] = call[c], job'[c] = job[c], listeners' = listeners, timers' = timers
  PROVE  Alright(c)'
<1>1. Lone(c)'
  <2>1. ~ (call[c].alone /\ UnderWay(c))
    BY DEF Alright, Lone, Single
  <2> QED
    BY <2>1, LoneNot DEF UnderWay
<1>2. OwnEnd(c)' /\ Nothing(c)'
  BY RestedStays DEF Alright
<1> QED
  BY <1>1, <1>2 DEF Alright

\* Another call begins.
LEMMA OtherBegins ==
  ASSUME NEW c \in Calls, Alright(c), Placed(c), Kept, Else(c), UnderWay(c) => ~ call'[c].alone,
         job'[c] = job[c], c \in listeners' => c \in listeners, c \in timers' => c \in timers
  PROVE  Alright(c)'
<1>1. Lone(c)'
  BY LoneNot DEF UnderWay, Else
<1>2. OwnEnd(c)' /\ Nothing(c)'
  BY RestedStays DEF Alright, Else
<1> QED
  BY <1>1, <1>2 DEF Alright

LEMMA TookNone ==
  ASSUME Core, NEW C \in SUBSET Calls, NEW U \in SUBSET Calls, Took(C, U), C = {}
  PROVE  /\ call' = call /\ DOMAIN windows' = DOMAIN windows
         /\ \A w \in DOMAIN windows : windows'[w] = windows[w] /\ (Talks(w)' => Talks(w))
         /\ \A v \in Names : views'[v] = views[v]
<1>1. U = {}
  BY DEF Took
<1>2. Unshown(U) = {}
  BY <1>1 DEF Unshown
<1>3. /\ DOMAIN windows' = DOMAIN windows /\ \A w \in DOMAIN windows : windows'[w] = windows[w]
      /\ \A v \in Names : views'[v] = views[v]
  BY <1>2, TookViews
<1>4. \A w \in DOMAIN windows : Talks(w)' => Talks(w)
  BY TookQuiet DEF Quiet
<1>5. call' = call
  <2>1. call' \in [Calls -> States] /\ call \in [Calls -> States] /\ \A d \in Calls : call'[d] = call[d]
    BY CoreParts DEF Took
  <2> QED
    BY <2>1
<1> QED
  BY <1>3, <1>4, <1>5

LEMMA TookLone ==
  ASSUME Core, NEW C \in SUBSET Calls, NEW U \in SUBSET Calls, Took(C, U), NEW c \in Calls, Lone(c)
  PROVE  Lone(c)'
<1>1. Placed(c) /\ C \subseteq listeners /\ listeners' \subseteq listeners
  BY CoreParts DEF Took
<1>2. SUFFICES ASSUME call'[c].alone, call'[c].phase \notin {"idle", "done"} PROVE Lone(c)'
  BY LoneNot
<1>3. /\ call[c].alone /\ call[c].phase \notin {"idle", "done"}
      /\ c \in C => call'[c].phase = "again"
  <2>1. CASE c \notin C
    BY <1>2, <2>1 DEF Took
  <2>2. CASE c \in C
    <3>1. MovesOn(c)
      BY <1>2, <2>2 DEF Took, Finished
    <3>2. call[c].phase = "listening"
      BY <1>1, <2>2, <3>1 DEF MovesOn, Placed
    <3> QED
      BY <1>2, <3>1, <3>2 DEF MovesOn, Rests
  <2> QED
    BY <2>1, <2>2
<1>4. \A d \in Calls \ {c} : ~ UnderWay(d) /\ d \notin listeners
  BY <1>3 DEF Lone, Single, UnderWay
<1>5. Single(c)'
  <2> SUFFICES ASSUME NEW d \in Calls \ {c} PROVE ~ UnderWay(d)' /\ d \notin listeners'
    BY DEF Single
  <2>1. d \notin C
    BY <1>1, <1>4
  <2>2. call'[d] = call[d]
    BY <2>1 DEF Took
  <2> QED
    BY <1>1, <1>4, <2>2 DEF UnderWay
<1>6. CASE c \in C
  BY <1>3, <1>5, <1>6 DEF Lone
<1>7. CASE c \notin C
  <2>1. C = {}
    BY <1>1, <1>4, <1>7
  <2>2. /\ call' = call /\ DOMAIN windows' = DOMAIN windows
        /\ \A w \in DOMAIN windows : windows'[w] = windows[w] /\ (Talks(w)' => Talks(w))
        /\ \A v \in Names : views'[v] = views[v]
    BY <2>1, TookNone
  <2>3. job'[c] = job[c] /\ timers' \subseteq timers
    BY <2>1 DEF Took
  <2>4. \A i \in 1 .. Len(mail') : \E j \in 1 .. Len(mail) : mail'[i] = mail[j]
    BY MailStays, CoreParts DEF Took
  <2>5. CASE call[c].phase = "listening"
    <3>1. /\ \A i \in 1 .. Len(mail) : Mine(c, mail[i])
          /\ \A w \in DOMAIN windows : Talks(w) => OwnPage(c, w)
          /\ c \in timers /\ ~ windows[call[c].win].open => windows[call[c].win].by = "user"
      BY <1>3, <2>5 DEF Lone
    <3>2. \A i \in 1 .. Len(mail') : Mine(c, mail[i])'
      BY <2>3, <2>4, <3>1 DEF Mine
    <3>3. \A w \in DOMAIN windows' : Talks(w)' => OwnPage(c, w)'
      BY <2>2, <2>3, <3>1 DEF OwnPage
    <3>4. call[c].win \in DOMAIN windows
      BY <1>1, <2>5 DEF Placed
    <3>5. c \in timers' /\ ~ windows'[call'[c].win].open => windows'[call'[c].win].by = "user"
      BY <2>2, <2>3, <3>1, <3>4
    <3> QED
      BY <1>5, <2>2, <2>5, <3>2, <3>3, <3>5 DEF Lone
  <2>6. CASE call[c].phase \in {"polling", "asking"}
    <3>1. /\ call[c].win \in DOMAIN windows /\ job[c].local \in Locals
      BY <1>1, <2>6, CoreParts DEF Placed
    <3>2. View[job[c].local] \in Names
      BY <3>1, ViewsOf
    <3>3. windows'[call[c].win].open => views'[View[job[c].local]].win = call[c].win
      BY <1>3, <2>2, <2>6, <3>1, <3>2 DEF Lone
    <3> QED
      BY <1>5, <2>2, <2>3, <2>6, <3>3 DEF Lone
  <2>7. CASE call[c].phase \notin {"listening", "polling", "asking"}
    BY <1>5, <2>2, <2>7 DEF Lone
  <2> QED
    BY <2>5, <2>6, <2>7
<1> QED
  BY <1>6, <1>7

LEMMA TookEnd ==
  ASSUME Core, NEW C \in SUBSET Calls, NEW U \in SUBSET Calls, Took(C, U), NEW c \in C,
         Lone(c), OwnEnd(c)
  PROVE  OwnEnd(c)'
<1>1. Placed(c) /\ c \in listeners
  BY CoreParts DEF Took
<1>2. CASE MovesOn(c)
  BY <1>2 DEF MovesOn, OwnEnd
<1>3. CASE Finished(c) /\ call[c].result # Null
  BY <1>3 DEF Finished, Rests, OwnEnd
<1>4. CASE Finished(c) /\ call[c].result = Null
  <2>1. call[c].phase = "listening" /\ call'[c].alone = call[c].alone
    BY <1>1, <1>4 DEF Placed, Finished, Rests
  <2>2. SUFFICES ASSUME call[c].alone, call'[c].result.how # "failed" PROVE call'[c].result.of = c
    BY <2>1 DEF OwnEnd
  <2>3. /\ \A i \in 1 .. Len(mail) : Mine(c, mail[i])
        /\ c \in timers /\ ~ windows[call[c].win].open => windows[call[c].win].by = "user"
    BY <2>1, <2>2 DEF Lone
  <2>4. Outcome(c)
    BY <1>4 DEF Took
  <2>5. call'[c].result # Result("failed", c)
    BY <2>2 DEF Result
  <2>6. CASE /\ mail # << >> /\ Accepts(c, mail[1]) /\ call'[c].result.of = mail[1].of
    <3>1. Mine(c, mail[1])
      <4>1. mail \in Seq(Messages)
        BY CoreParts
      <4>2. 1 \in 1 .. Len(mail)
        BY <2>6, <4>1
      <4> QED
        BY <2>3, <4>2
    <3>2. ASSUME mail[1].source = App, job[c].method # "EXT/RPC" PROVE FALSE
      <4>1. call[c].win # Null /\ call[c].win \in DOMAIN windows
        BY <1>1, <2>1 DEF Placed
      <4>2. call[c].win # App
        BY <4>1, CoreParts DEF Viewed, App
      <4>3. LET s == call[c].win IN s = Null \/ s = mail[1].source
        BY <2>6, <3>2, <4>1 DEF Accepts
      <4> QED
        BY <3>2, <4>1, <4>2, <4>3
    <3> QED
      BY <2>6, <3>1, <3>2 DEF Mine
  <2>7. CASE /\ c \in timers /\ ~ windows[call[c].win].open
             /\ call'[c].result = Result("halted", IF windows[call[c].win].by = "user" THEN c ELSE Null)
    BY <2>3, <2>7 DEF Result
  <2> QED
    BY <2>4, <2>5, <2>6, <2>7 DEF Outcome
<1> QED
  BY <1>2, <1>3, <1>4 DEF Took

LEMMA TookNothing ==
  ASSUME Core, NEW C \in SUBSET Calls, NEW U \in SUBSET Calls, Took(C, U), NEW c \in C
  PROVE  Nothing(c)'
<1>1. Placed(c) /\ c \in listeners /\ c \in Calls
  BY CoreParts DEF Took
<1>2. CASE c \notin U
  BY <1>2 DEF Took, Nothing
<1>3. CASE c \in U
  <2>6. c \notin listeners' /\ c \notin timers'
    BY <1>3 DEF Took
  <2> SUFFICES ASSUME call'[c].win # Null
               PROVE  windows'[call'[c].win].view # "ext" => ~ windows'[call'[c].win].open
    BY <2>6 DEF Nothing
  <2>1. call'[c].win = call[c].win
    BY DEF Took, Finished, MovesOn, Rests
  <2>2. call[c].win \in DOMAIN windows /\ windows[call[c].win].view = View[job[c].method]
    BY <1>1, <2>1 DEF Placed
  <2>3. windows'[call[c].win].view = windows[call[c].win].view
    BY <2>2, TookViews DEF Kept
  <2>4. View[job[c].method] # "ext" => View[job[c].method] \in Unshown(U)
    BY <1>3, <2>1 DEF Unshown
  <2>5. View[job[c].method] # "ext" => ~ windows'[call[c].win].open
    BY <2>2, <2>4, TookViews
  <2> QED
    BY <2>1, <2>2, <2>3, <2>5
<1> QED
  BY <1>2, <1>3

LEMMA TookAlright ==
  ASSUME Core, NEW C \in SUBSET Calls, NEW U \in SUBSET Calls, Took(C, U), NEW c \in Calls, Alright(c)
  PROVE  Alright(c)'
<1>1. Lone(c)'
  BY TookLone DEF Alright
<1>2. CASE c \in C
  BY <1>1, <1>2, TookEnd, TookNothing DEF Alright
<1>3. CASE c \notin C
  <2>1. /\ call'[c] = call[c] /\ job'[c] = job[c]
        /\ listeners' \subseteq listeners /\ timers' \subseteq timers
        /\ Kept /\ Placed(c)
    BY <1>3, TookViews, CoreParts DEF Took
  <2>2. OwnEnd(c)' /\ Nothing(c)'
    BY <2>1, RestedStays DEF Alright
  <2> QED
    BY <1>1, <2>2 DEF Alright
<1> QED
  BY <1>2, <1>3

\* A step of the pages, the handlers' answers to them and the user.
Around(c) ==
  /\ call'[c].phase = call[c].phase /\ call'[c].result = call[c].result
  /\ call'[c].win = call[c].win /\ call'[c].alone = call[c].alone

LEMMA AroundAlright ==
  ASSUME Core, Kept, DOMAIN windows' = DOMAIN windows, NEW c \in Calls, Alright(c),
         \A d \in Calls : Around(d), UNCHANGED <<job, listeners, timers, views>>,
         call[c].alone /\ call[c].phase = "listening" =>
           /\ \A i \in 1 .. Len(mail') : Mine(c, mail'[i])
           /\ \A w \in DOMAIN windows : Talks(w)' => Talks(w) /\ (OwnPage(c, w) => OwnPage(c, w)'),
         \A w \in DOMAIN windows : ~ windows'[w].open =>
           windows'[w].by = "user" \/ (~ windows[w].open /\ windows'[w].by = windows[w].by)
  PROVE  Alright(c)'
<1>1. Placed(c)
  BY CoreParts
<1>2. OwnEnd(c)' /\ Nothing(c)'
  BY <1>1, RestedStays DEF Alright, Around
<1>3. Single(c)'
  BY DEF Around, Alright, Lone, Single, UnderWay
<1>4. ASSUME call[c].alone, call[c].phase = "listening"
      PROVE  /\ \A i \in 1 .. Len(mail') : Mine(c, mail[i])'
             /\ \A w \in DOMAIN windows' : Talks(w)' => OwnPage(c, w)'
             /\ c \in timers' /\ ~ windows'[call'[c].win].open => windows'[call'[c].win].by = "user"
  <2>1. /\ \A w \in DOMAIN windows : Talks(w) => OwnPage(c, w)
        /\ c \in timers /\ ~ windows[call[c].win].open => windows[call[c].win].by = "user"
    BY <1>4 DEF Alright, Lone
  <2>2. \A i \in 1 .. Len(mail') : Mine(c, mail[i])'
    <3>1. \A i \in 1 .. Len(mail') : Mine(c, mail'[i])
      BY <1>4
    <3> QED
      BY <3>1 DEF Mine
  <2>3. \A w \in DOMAIN windows : Talks(w)' => Talks(w) /\ (OwnPage(c, w) => OwnPage(c, w)')
    BY <1>4
  <2>4. call[c].win \in DOMAIN windows
    BY <1>1, <1>4 DEF Placed
  <2>5. call'[c].win = call[c].win
    BY DEF Around
  <2> QED
    BY <2>1, <2>2, <2>3, <2>4, <2>5
<1>5. ASSUME call[c].alone, call[c].phase \in {"polling", "asking"}, windows'[call[c].win].open
      PROVE  views[View[job[c].local]].win = call[c].win
  <2>1. call[c].win \in DOMAIN windows
    BY <1>1, <1>5 DEF Placed
  <2>2. windows[call[c].win].open
    BY <1>5, <2>1 DEF Kept
  <2> QED
    BY <1>5, <2>2 DEF Alright, Lone
<1>6. call'[c].alone = call[c].alone /\ call'[c].phase = call[c].phase /\ call'[c].win = call[c].win
  BY DEF Around
<1>7. Lone(c)'
  BY <1>3, <1>4, <1>5, <1>6 DEF Lone
<1> QED
  BY <1>2, <1>7 DEF Alright

LEMMA HeedsAlright == ASSUME Core, Heeds, NEW c \in Calls, Alright(c) PROVE Alright(c)'
<1>1. /\ \A d \in Calls : Around(d)
      /\ UNCHANGED <<job, listeners, timers, views>> /\ DOMAIN windows' = DOMAIN windows
  BY DEF Heeds, Around
<1>2. Kept
  BY DEF Heeds, Kept
<1>3. \A w \in DOMAIN windows : ~ windows'[w].open =>
           windows'[w].by = "user" \/ (~ windows[w].open /\ windows'[w].by = windows[w].by)
  BY DEF Heeds
<1>4. ASSUME call[c].alone, call[c].phase = "listening"
      PROVE  /\ \A i \in 1 .. Len(mail') : Mine(c, mail'[i])
             /\ \A w \in DOMAIN windows : Talks(w)' => Talks(w) /\ (OwnPage(c, w) => OwnPage(c, w)')
  <2>1. \A i \in 1 .. Len(mail) : Mine(c, mail[i])
    BY <1>4 DEF Alright, Lone
  <2>2. \A i \in 1 .. Len(mail') : \E j \in 1 .. Len(mail) : mail'[i] = mail[j]
    BY MailStays, CoreParts DEF Heeds
  <2>3. \A i \in 1 .. Len(mail') : Mine(c, mail'[i])
    BY <2>1, <2>2
  <2>4. \A d \in listeners : d = c
    BY <1>4, CoreParts DEF Alright, Lone, Single, UnderWay
  <2>5. ASSUME NEW w \in DOMAIN windows, Talks(w)' PROVE Talks(w) /\ (OwnPage(c, w) => OwnPage(c, w)')
    <3>1. Talks(w)
      BY <2>5, HeedsQuiet DEF Quiet
    <3>2. /\ windows'[w].view = windows[w].view /\ windows'[w].page.for = windows[w].page.for
          /\ \A d \in windows'[w].page.heard : d \in windows[w].page.heard \/ Hears(w, d)
      BY DEF Heeds
    <3>3. \A d \in windows'[w].page.heard : d \in windows[w].page.heard \/ d = c
      BY <2>4, <3>2 DEF Hears, Takers
    <3> QED
      BY <1>1, <3>1, <3>2, <3>3 DEF OwnPage
  <2> QED
    BY <2>3, <2>5
<1> QED
  BY <1>1, <1>2, <1>3, <1>4, AroundAlright

LEMMA SpeaksAlright ==
  ASSUME Core, NEW w \in DOMAIN windows, NEW m \in Messages, Speaks(w, m), NEW c \in Calls, Alright(c)
  PROVE  Alright(c)'
<1>1. /\ \A d \in Calls : Around(d)
      /\ UNCHANGED <<job, listeners, timers, views>> /\ DOMAIN windows' = DOMAIN windows
  BY DEF Speaks, Around
<1>2. \A v \in DOMAIN windows :
        /\ windows'[v].view = windows[v].view /\ windows'[v].page.for = windows[v].page.for
        /\ windows'[v].page.heard = windows[v].page.heard
        /\ windows'[v].open = windows[v].open /\ windows'[v].by = windows[v].by
  BY DEF Speaks
<1>3. Kept
  BY <1>1, <1>2 DEF Kept
<1>4. ASSUME call[c].alone, call[c].phase = "listening"
      PROVE  /\ \A i \in 1 .. Len(mail') : Mine(c, mail'[i])
             /\ \A v \in DOMAIN windows : Talks(v)' => Talks(v) /\ (OwnPage(c, v) => OwnPage(c, v)')
  <2>1. /\ \A i \in 1 .. Len(mail) : Mine(c, mail[i])
        /\ Talks(w) => OwnPage(c, w)
    BY <1>4 DEF Alright, Lone
  <2>2. Mine(c, m)
    <3>1. OwnPage(c, w)
      BY <2>1 DEF Speaks
    <3>2. m.of = windows[w].page.for \/ m.of \in windows[w].page.heard
      BY DEF Speaks
    <3>3. windows[w].view = "ext" => m.source = App
      BY SourceTyped DEF Speaks
    <3> QED
      BY <3>1, <3>2, <3>3 DEF OwnPage, Mine
  <2>3. \A i \in 1 .. Len(mail') : mail'[i] = m \/ \E j \in 1 .. Len(mail) : mail'[i] = mail[j]
    BY MailGrows, CoreParts DEF Speaks
  <2>4. \A i \in 1 .. Len(mail') : Mine(c, mail'[i])
    BY <2>1, <2>2, <2>3
  <2>5. \A v \in DOMAIN windows : Talks(v)' => Talks(v)
    BY SpeaksQuiet DEF Quiet
  <2>6. \A v \in DOMAIN windows : OwnPage(c, v) => OwnPage(c, v)'
    BY <1>1, <1>2 DEF OwnPage
  <2> QED
    BY <2>4, <2>5, <2>6
<1>5. \A v \in DOMAIN windows : ~ windows'[v].open =>
           windows'[v].by = "user" \/ (~ windows[v].open /\ windows'[v].by = windows[v].by)
  BY <1>2
<1> QED
  BY <1>1, <1>3, <1>4, <1>5, AroundAlright

LEMMA LeavesAlright ==
  ASSUME Core, NEW w \in DOMAIN windows, Leaves(w), NEW c \in Calls, Alright(c) PROVE Alright(c)'
<1>1. /\ \A d \in Calls : Around(d) /\ mail' = mail
      /\ UNCHANGED <<job, listeners, timers, views>> /\ DOMAIN windows' = DOMAIN windows
  BY DEF Leaves, Around
<1>2. \A v \in DOMAIN windows :
        /\ windows'[v].view = windows[v].view /\ windows'[v].page = windows[v].page
        /\ windows'[v].open => windows[v].open
  BY DEF Leaves
<1>3. Kept
  BY <1>1, <1>2 DEF Kept
<1>4. ASSUME call[c].alone, call[c].phase = "listening"
      PROVE  /\ \A i \in 1 .. Len(mail') : Mine(c, mail'[i])
             /\ \A v \in DOMAIN windows : Talks(v)' => Talks(v) /\ (OwnPage(c, v) => OwnPage(c, v)')
  <2>1. \A i \in 1 .. Len(mail) : Mine(c, mail[i])
    BY <1>4 DEF Alright, Lone
  <2>2. mail' = mail
    BY DEF Leaves
  <2>3. \A v \in DOMAIN windows : Talks(v)' => Talks(v)
    BY LeavesQuiet DEF Quiet
  <2>4. \A v \in DOMAIN windows : OwnPage(c, v) => OwnPage(c, v)'
    BY <1>1, <1>2 DEF OwnPage
  <2> QED
    BY <2>1, <2>2, <2>3, <2>4
<1>5. \A v \in DOMAIN windows : ~ windows'[v].open =>
           windows'[v].by = "user" \/ (~ windows[v].open /\ windows'[v].by = windows[v].by)
  <2>1. \A v \in DOMAIN windows \ {w} : windows'[v] = windows[v]
    BY DEF Leaves
  <2>2. windows'[w].by = "user"
    BY DEF Leaves
  <2> QED
    BY <2>1, <2>2
<1> QED
  BY <1>1, <1>3, <1>4, <1>5, AroundAlright

\* The call itself begins: it is alone if nothing else was left.
LEMMA BeginsSingle ==
  ASSUME Core, NEW c \in Calls, NEW phase, NEW win, NEW result, Started(c, phase, win, result),
         listeners' = listeners \/ listeners' = listeners \cup {c}
  PROVE  Single(c)'
<1> SUFFICES ASSUME call'[c].alone, NEW d \in Calls \ {c} PROVE ~ UnderWay(d)' /\ d \notin listeners'
  BY DEF Single
<1>1. listeners = {} /\ ~ UnderWay(d)
  BY DEF Started, Alone
<1>2. call'[d].phase = call[d].phase
  BY DEF Started, Else
<1> QED
  BY <1>1, <1>2 DEF UnderWay

LEMMA ExecutesAlright ==
  ASSUME Manned, NEW c \in Calls, Executes(c), NEW d \in Calls, Alright(d) PROVE Alright(d)'
<1>1. /\ Core /\ job' = job /\ listeners' = listeners \cup {c} /\ mail' = mail
      /\ timers' \subseteq timers \cup {c}
      /\ job[c].method # "HTTP/POST" /\ job[c].method \in Methods
  BY DEF Manned, Executes, Threw, Showed
<1>2. Kept
  <2>1. CASE Threw(c)
    BY <2>1 DEF Threw, Kept
  <2>2. CASE Showed(c)
    BY <1>1, <2>2, RendersKept DEF Executes, Showed
  <2> QED
    BY <2>1, <2>2 DEF Executes
<1>3. CASE d # c
  <2>1. Else(d) /\ (UnderWay(d) => ~ call'[d].alone)
    BY <1>3 DEF Executes, Threw, Showed, Started
  <2>2. (d \in listeners' => d \in listeners) /\ (d \in timers' => d \in timers) /\ Placed(d)
    BY <1>1, <1>3, CoreParts
  <2> QED
    BY <1>1, <1>2, <2>1, <2>2, OtherBegins
<1>4. CASE d = c /\ Threw(c)
  <2>1. call'[c].phase = "done" /\ call'[c].win = Null /\ call'[c].result = Result("failed", c)
    BY <1>4 DEF Threw, Started
  <2>2. OwnEnd(c)'
    BY <2>1 DEF OwnEnd, Result
  <2>3. call'[c].alone => c \notin timers'
    BY <1>4 DEF Threw, Started, Alone
  <2>4. Nothing(c)'
    BY <1>1, <2>1, <2>3 DEF Nothing, ViewThrew
  <2> QED
    BY <1>4, <2>1, <2>2, <2>4, LoneNot DEF Alright
<1>5. CASE d = c /\ Showed(c)
  <2> DEFINE view == View[job[c].method]
  <2>1. /\ view \in Names /\ job[c].url \in STRING /\ Renders(view, c, job[c].url)
        /\ ~ (view = "frame" /\ Shows(view))
        /\ call'[c].win = Shown(view) /\ call'[c].phase = "listening" /\ call'[c].result = Null
        /\ call'[c].alone = Alone(c)
    BY <1>5 DEF Executes, Showed, Started
  <2>2. view = "ext" <=> job[c].method = "EXT/RPC"
    BY <1>1, ViewsOf
  <2>3. Single(c)'
    BY <1>1, <1>5, BeginsSingle DEF Showed
  <2> HIDE DEF view
  <2>4. ASSUME Alone(c), NEW w \in DOMAIN windows', Talks(w)' PROVE OwnPage(c, w)'
    <3>1. CASE windows'[w].page = Page(c, job[c].url)
      BY <3>1 DEF Page, OwnPage
    <3>2. CASE windows'[w].page # Page(c, job[c].url)
      <4>1. w \in DOMAIN windows /\ Talks(w) /\ windows'[w].view = windows[w].view
        BY <1>1, <2>1, <2>4, <3>2, RendersTalk
      <4>2. windows[w].view = "ext"
        BY <2>4, <4>1 DEF Manned, Attended, Alone
      <4>3. windows'[w].open
        BY <2>4 DEF Talks
      <4>4. view # "ext"
        BY <1>1, <2>1, <4>1, <4>2, <4>3, RendersFacts, CoreParts
      <4> QED
        BY <1>1, <2>2, <4>1, <4>2, <4>4 DEF OwnPage
    <3> QED
      BY <3>1, <3>2
  <2>5. windows'[Shown(view)].open
    BY <1>1, <2>1, RendersFacts, CoreParts
  <2>6. Alone(c) => \A i \in 1 .. Len(mail') : Mine(c, mail[i])'
    BY <1>1 DEF Alone
  <2>7. Lone(c)'
    BY <2>1, <2>3, <2>4, <2>5, <2>6 DEF Lone
  <2>8. OwnEnd(c)' /\ Nothing(c)'
    BY <2>1 DEF OwnEnd, Nothing
  <2> QED
    BY <1>5, <2>7, <2>8 DEF Alright
<1> QED
  BY <1>3, <1>4, <1>5 DEF Executes

LEMMA FetchesAlright ==
  ASSUME Core, NEW c \in Calls, Fetches(c), NEW d \in Calls, Alright(d) PROVE Alright(d)'
<1>1. Kept
  BY DEF Fetches, Kept
<1>2. CASE d # c
  <2>1. Else(d) /\ (UnderWay(d) => ~ call'[d].alone) /\ Placed(d)
    BY <1>2, CoreParts DEF Fetches, Started
  <2>2. job'[d] = job[d] /\ (d \in listeners' => d \in listeners) /\ (d \in timers' => d \in timers)
    BY DEF Fetches
  <2> QED
    BY <1>1, <2>1, <2>2, OtherBegins
<1>3. CASE d = c
  <2>1. call'[c].phase = "fetching" /\ call'[c].result = Null
    BY DEF Fetches, Started
  <2>2. Single(c)'
    BY BeginsSingle DEF Fetches
  <2> QED
    BY <1>3, <2>1, <2>2 DEF Alright, Lone, OwnEnd, Nothing
<1> QED
  BY <1>2, <1>3

LEMMA ChosenAlright ==
  ASSUME Core, NEW c \in Calls, Chosen(c), NEW d \in Calls, Alright(d) PROVE Alright(d)'
<1>1. Kept /\ UnderWay(c)
  BY DEF Chosen, Kept, UnderWay
<1>2. CASE d # c
  <2>1. call'[d] = call[d] /\ job'[d] = job[d] /\ listeners' = listeners /\ timers' = timers /\ Placed(d)
    BY <1>2, CoreParts DEF Chosen
  <2> QED
    BY <1>1, <1>2, <2>1, OtherActs
<1>3. CASE d = c
  <2>1. /\ call'[c].phase = "answered" /\ call'[c].result.of = c /\ call[c].phase = "listening"
        /\ call'[c].alone = call[c].alone /\ listeners' = listeners
        /\ \A e \in Calls \ {c} : call'[e] = call[e]
    BY DEF Chosen, Result, Rests
  <2>2. Single(c)'
    BY <1>3, <2>1 DEF Alright, Lone, Single, UnderWay
  <2> QED
    BY <1>3, <2>1, <2>2 DEF Alright, Lone, OwnEnd, Nothing
<1> QED
  BY <1>2, <1>3

LEMMA PollsAlright ==
  ASSUME Core, NEW c \in Calls, Polls(c), NEW d \in Calls, Alright(d) PROVE Alright(d)'
<1>1. /\ Kept /\ Solely(c) /\ Placed(c) /\ call[c].phase \in {"fetching", "polling", "asking"}
      /\ c \notin listeners /\ c \notin timers /\ call[c].result = Null
  <2>1. Kept /\ Placed(c)
    BY PollsViews, CoreParts
  <2> QED
    BY <2>1 DEF Polls, Placed, Answered, Referred, Pends, WalletSays, Turns, Asks, Waits, Concludes
<1>2. UnderWay(c)
  BY <1>1 DEF UnderWay
<1>3. CASE d # c
  <2>1. call'[d] = call[d] /\ job'[d] = job[d] /\ listeners' = listeners /\ timers' = timers /\ Placed(d)
    BY <1>1, <1>3, CoreParts DEF Solely
  <2> QED
    BY <1>1, <1>2, <1>3, <2>1, OtherActs
<1>4. CASE d = c
  <2>1. Alright(c)
    BY <1>4
  <2>2. c \notin listeners' /\ c \notin timers'
    BY <1>1 DEF Solely
  <2>3. ASSUME call'[c].alone => call[c].alone PROVE Single(c)'
    <3> SUFFICES ASSUME call'[c].alone, NEW e \in Calls \ {c} PROVE ~ UnderWay(e)' /\ e \notin listeners'
      BY DEF Single
    <3>1. ~ UnderWay(e) /\ e \notin listeners
      BY <1>2, <2>1, <2>3 DEF Alright, Lone, Single
    <3> QED
      BY <1>1, <3>1 DEF Solely, UnderWay
  <2>4. CASE Answered(c)
    <3>1. call'[c].phase = "done" /\ call'[c].win = Null
      BY <1>1, <2>4 DEF Answered, Finished, Rests, Placed
    <3>2. OwnEnd(c)'
      BY <2>4 DEF Answered, OwnEnd
    <3> QED
      BY <1>4, <2>2, <3>1, <3>2, LoneNot DEF Alright, Nothing
  <2>5. CASE Referred(c)
    <3>1. /\ call'[c].win = Null /\ call'[c].alone = call[c].alone /\ call'[c].phase \in {"again", "done"}
          /\ call'[c].result = Null \/ call'[c].result = Result("failed", c)
      BY <1>1, <2>5 DEF Referred, MovesOn, Finished, Rests, Placed
    <3>2. Single(c)'
      BY <2>3, <3>1
    <3> QED
      BY <1>4, <2>2, <3>1, <3>2 DEF Alright, Lone, OwnEnd, Nothing, Result
  <2>6. CASE Pends(c)
    <3> DEFINE view == View[job[c].local]
    <3>1. /\ call'[c].phase = "polling" /\ call'[c].win = Shown(view) /\ call'[c].alone = call[c].alone
          /\ call'[c].result = Null /\ job' = job
      BY <1>1, <2>6 DEF Pends
    <3>2. views'[view].win = Shown(view)
      <4>1. view \in Names
        BY <2>6, ViewsOf DEF Pends
      <4> QED
        BY <2>6, <4>1, RendersFacts, CoreParts DEF Pends
    <3>3. Single(c)'
      BY <2>3, <3>1
    <3>4. Lone(c)'
      BY <3>1, <3>2, <3>3 DEF Lone
    <3>5. OwnEnd(c)' /\ Nothing(c)'
      BY <3>1 DEF OwnEnd, Nothing
    <3> QED
      BY <1>4, <3>4, <3>5 DEF Alright
  <2>7. CASE WalletSays(c) \/ Asks(c) \/ Waits(c)
    <3>1. /\ UNCHANGED <<job, views, windows>> /\ call'[c].result = Null
          /\ call'[c].win = call[c].win /\ call'[c].alone = call[c].alone
          /\ call[c].phase \in {"polling", "asking"} /\ call'[c].phase \in {"polling", "asking"}
      <4>1. PICK p : Turns(c, p)
        BY <2>7 DEF WalletSays, Asks, Waits
      <4> QED
        BY <1>1, <4>1 DEF Turns
    <3>2. Single(c)'
      BY <2>3, <3>1
    <3>3. Lone(c)'
      BY <2>1, <3>1, <3>2 DEF Alright, Lone
    <3> QED
      BY <1>4, <3>1, <3>3 DEF Alright, OwnEnd, Nothing
  <2>8. CASE Concludes(c)
    <3> DEFINE view == View[job[c].local]
               w == call[c].win
    <3>1. /\ call'[c].phase = "done" /\ call'[c].result.of = c /\ call'[c].win = w
          /\ call'[c].alone = call[c].alone /\ call[c].phase \in {"polling", "asking"} /\ Closes({view})
      BY <2>8 DEF Concludes, Finished, Rests
    <3>2. job[c].local \in Locals /\ w # Null /\ w \in DOMAIN windows
      BY <1>1, <3>1, CoreParts DEF Placed
    <3>3. view \in Names
      BY <3>2, ViewsOf
    <3>4. /\ windows'[w].open => windows[w].open
          /\ views[view].win # Null => ~ windows'[views[view].win].open
      <4>1. {view} \in SUBSET Names
        BY <3>3
      <4>2. /\ \A v \in DOMAIN windows : Shut(v)
            /\ \A v \in {view} : views[v].win # Null => ~ windows'[views[v].win].open
        BY <3>1, <4>1, ClosesFacts, CoreParts
      <4> QED
        BY <3>2, <4>2 DEF Shut
    <3>5. call[c].alone => ~ windows'[w].open
      <4> SUFFICES ASSUME call[c].alone, windows[w].open PROVE ~ windows'[w].open
        BY <3>4
      <4>1. views[view].win = w
        BY <2>1, <3>1 DEF Alright, Lone
      <4> QED
        BY <3>2, <3>4, <4>1
    <3> HIDE DEF view, w
    <3>6. OwnEnd(c)' /\ Nothing(c)'
      BY <2>2, <3>1, <3>5 DEF OwnEnd, Nothing
    <3> QED
      BY <1>4, <3>1, <3>6, LoneNot DEF Alright
  <2> QED
    BY <2>4, <2>5, <2>6, <2>7, <2>8 DEF Polls
<1> QED
  BY <1>3, <1>4

LEMMA SolitaryStep == Manned /\ Solitary /\ [Next]_vars => Solitary'
<1> SUFFICES ASSUME Manned, Solitary, [Next]_vars, NEW d \in Calls PROVE Alright(d)'
  BY DEF Solitary
<1>1. Core /\ Alright(d)
  BY DEF Manned, Solitary
<1>2. CASE UNCHANGED vars
  BY <1>1, <1>2 DEF vars, Alright, Lone, Single, UnderWay, Mine, OwnPage, Talks, OwnEnd, Nothing, ViewThrew
<1> QED
  BY <1>1, <1>2, StepKinds, TookAlright, HeedsAlright, ExecutesAlright, FetchesAlright, PollsAlright,
     ChosenAlright, SpeaksAlright, LeavesAlright DEF Kinds

LEMMA AlwaysSolitary == Spec => []Solitary
  BY InitManned, MannedStep, InitSolitary, SolitaryStep, PTL DEF Spec

\* A call during which no other is under way ends as its own wallet ends it:
\* by the answer to its own body, its own page or its own user (execService
\* and the strategies).
THEOREM AloneIsUndisturbed == Spec => []Undisturbed
<1>1. Core => (Solitary => Undisturbed)
  <2> SUFFICES ASSUME Core, Solitary, NEW c \in Calls, call[c].phase = "done", call[c].alone,
                      call[c].result.how # "failed"
               PROVE  call[c].result.of = c
    BY DEF Undisturbed
  <2>1. call[c].result # Null
    BY CoreParts DEF Placed
  <2> QED
    BY <2>1 DEF Solitary, Alright, OwnEnd
<1>2. Spec => []Core
  BY InitCore, CoreStep, PTL DEF Spec
<1> QED
  BY <1>1, <1>2, AlwaysSolitary, PTL

\* Such a call leaves no interval and no open window behind, unless it keeps
\* its window for a redirection (the close of frame.js, pop.js, tab.js and
\* the unmount of http-post.js), and a handler only if its view threw, which
\* nothing closes (pop.js:25-26, tab.js and frame.js alike).
THEOREM AloneLeavesNothing == Spec => []LeavesNothing
<1>1. Solitary => LeavesNothing
  BY DEF Solitary, Alright, Nothing, LeavesNothing
<1> QED
  BY <1>1, AlwaysSolitary, PTL

=============================================================================
