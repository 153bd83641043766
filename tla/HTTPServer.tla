----------------------------- MODULE HTTPServer -----------------------------
(***************************************************************************)
(* Go's http.Server as the API server and the webhook use it (not part of  *)
(* this repository): a goroutine listens and serves, another one shuts the *)
(* server down, which closes the listener and waits for the requests that  *)
(* were accepted, up to a deadline.  Every request comes on a connection   *)
(* of its own.                                                             *)
(***************************************************************************)
VARIABLES
    listener,   \* "new", "open", "failed" or "closed"
    active,     \* clients whose request was accepted and not yet answered
    shutdown    \* "no", "draining", "done" or "deadline"

serverVars == <<listener, active, shutdown>>

NewHTTPServer == listener = "new" /\ active = {} /\ shutdown = "no"

\* ListenAndServe opens the listener; after Shutdown it returns at once.
Listens ==
    /\ listener = "new"
    /\ listener' = IF shutdown = "no" THEN "open" ELSE "closed"
    /\ UNCHANGED <<active, shutdown>>

\* The address cannot be bound, or Accept fails later on.  The handlers of the
\* requests that were accepted before go on.
ListenError ==
    /\ listener \in {"new", "open"}
    /\ shutdown = "no"
    /\ listener' = "failed"
    /\ UNCHANGED <<active, shutdown>>

Accepts(c) ==
    /\ listener = "open"
    /\ c \notin active
    /\ active' = active \cup {c}
    /\ UNCHANGED <<listener, shutdown>>

Answers(c) ==
    /\ c \in active
    /\ active' = active \ {c}
    /\ UNCHANGED <<listener, shutdown>>

\* Shutdown up to its wait, and its two outcomes.
ShutdownBegins ==
    /\ shutdown = "no"
    /\ shutdown' = "draining"
    /\ listener' = IF listener = "open" THEN "closed" ELSE listener
    /\ UNCHANGED active

ShutdownEnds ==
    /\ shutdown = "draining"
    /\ active = {}
    /\ shutdown' = "done"
    /\ UNCHANGED <<listener, active>>

ShutdownExpires ==
    /\ shutdown = "draining"
    /\ active # {}
    /\ shutdown' = "deadline"
    /\ UNCHANGED <<listener, active>>
=============================================================================
