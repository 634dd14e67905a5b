------------------------- MODULE MCServiceExecution -------------------------
(* Instances of ServiceExecution: two calls, of the services below.        *)
EXTENDS ServiceExecution

Job(method, url) ==
  [method |-> method, url |-> url, type |-> "authz", redir |-> FALSE, older |-> FALSE, hook |-> FALSE,
   local |-> Null]
Discovery(method) ==
  [Job(method, "discovery") EXCEPT !.type = "authn", !.redir = TRUE, !.hook = TRUE]
Refresh(method)   == [Job(method, "refresh") EXCEPT !.redir = TRUE]
Authz(method)     == [Job(method, "authz") EXCEPT !.older = method # "EXT/RPC"]
Post(local)       == [Job("HTTP/POST", "view") EXCEPT !.type = "authn", !.local = local]

Redirection == [method |-> "POP/RPC", url |-> "wallet", type |-> "authn"]

Pairs ==
  {<<Discovery("IFRAME/RPC"), Authz("POP/RPC")>>, <<Discovery("POP/RPC"), Authz("POP/RPC")>>,
   <<Discovery("IFRAME/RPC"), Discovery("IFRAME/RPC")>>,
   <<Authz("IFRAME/RPC"), Authz("EXT/RPC")>>, <<Authz("EXT/RPC"), Authz("EXT/RPC")>>,
   <<Refresh("POP/RPC"), Authz("POP/RPC")>>, <<Refresh("TAB/RPC"), Authz("TAB/RPC")>>,
   <<Authz("POP/RPC"), Post("VIEW/POP")>>, <<Authz("IFRAME/RPC"), Post("VIEW/IFRAME")>>,
   <<Post("VIEW/MOBILE_BROWSER"), Authz("IFRAME/RPC")>>,
   <<Post("VIEW/TAB"), Refresh("TAB/RPC")>>, <<Discovery("EXT/RPC"), Authz("IFRAME/RPC")>>,
   <<Post(Null), Authz("TAB/RPC")>>}
MCJobs    == {[c \in Calls |-> pair[c]] : pair \in Pairs}
=============================================================================
