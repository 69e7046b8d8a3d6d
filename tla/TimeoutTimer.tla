---------------------------- MODULE TimeoutTimer ----------------------------
(***************************************************************************)
(* The timer as the rest of the sender sees it: one timeout that is        *)
(* absent, armed or stopped, and the handlers that have been called and    *)
(* have not returned.  Expiring disarms the timeout; a handler that was    *)
(* called runs whatever is done to the timeout afterwards.                 *)
(***************************************************************************)
CONSTANT HandlerIds

VARIABLES
  timeout,   \* "null", "armed" or "stopped"
  handlers   \* handlers called and not returned

timeoutVars == <<timeout, handlers>>

Init == timeout = "null" /\ handlers = {}

Start == timeout' = "armed" /\ UNCHANGED handlers

Stop ==
  /\ timeout # "null"
  /\ timeout' = "stopped"
  /\ UNCHANGED handlers

Expire ==
  /\ timeout = "armed"
  /\ timeout' = "stopped"
  /\ \E h \in HandlerIds \ handlers : handlers' = handlers \cup {h}

Return ==
  /\ \E h \in handlers : handlers' = handlers \ {h}
  /\ UNCHANGED timeout

\* A handler restarts the timeout as its last act.
RestartAndReturn ==
  /\ timeout' = "armed"
  /\ \E h \in handlers : handlers' = handlers \ {h}

Next == Start \/ Stop \/ Expire \/ Return \/ RestartAndReturn

Spec == Init /\ [][Next]_timeoutVars
=============================================================================
