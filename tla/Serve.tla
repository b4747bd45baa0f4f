-------------------------------- MODULE Serve --------------------------------
(***************************************************************************)
(* The life of the process of wataridori serve (cli/serve.go, main.go): the *)
(* main goroutine in ListenAndServe, the goroutine that shuts the HTTP     *)
(* server down when the context is cancelled, and the handlers.  A handler *)
(* stands for any request that changes something (server/server.go): it    *)
(* deploys, which is here one step, then adds its history entry.           *)
(*                                                                         *)
(* net/http is external.  Shutdown closes the listener, upon which         *)
(* ListenAndServe returns at once; Shutdown itself returns when the        *)
(* handlers are done or its context, of five seconds, ends.                *)
(***************************************************************************)
CONSTANTS Handlers

VARIABLES
    signalled,  \* the context is cancelled
    listening,  \* the listener is open
    main,       \* where the main goroutine stands
    shutdown,   \* where the shutdown goroutine stands
    handler     \* what each handler is doing

vars == <<signalled, listening, main, shutdown, handler>>

TypeOK ==
    /\ {signalled, listening} \subseteq BOOLEAN
    /\ main \in {"serving", "returning", "closed", "exited"}
    /\ shutdown \in {"waiting", "draining", "drained", "timedOut"}
    /\ handler \in [Handlers -> {"idle", "deploying", "recording"}]

Init ==
    /\ signalled = FALSE
    /\ listening = TRUE
    /\ main = "serving"
    /\ shutdown = "waiting"
    /\ handler = [h \in Handlers |-> "idle"]

Idle == \A h \in Handlers : handler[h] = "idle"

-----------------------------------------------------------------------------
(* Handlers: they have the request's context, which the signal does not end *)

Accept(h) ==
    /\ handler[h] = "idle"
    /\ listening
    /\ handler' = [handler EXCEPT ![h] = "deploying"]
    /\ UNCHANGED <<signalled, listening, main, shutdown>>

\* The deployment takes effect, or fails.
Deploy(h) ==
    /\ handler[h] = "deploying"
    /\ \E next \in {"recording", "idle"} : handler' = [handler EXCEPT ![h] = next]
    /\ UNCHANGED <<signalled, listening, main, shutdown>>

\* The entry is added; once main has closed the store that fails.
Record(h) ==
    /\ handler[h] = "recording"
    /\ handler' = [handler EXCEPT ![h] = "idle"]
    /\ UNCHANGED <<signalled, listening, main, shutdown>>

-----------------------------------------------------------------------------
(* Shutting down *)

Signal ==
    /\ ~ signalled
    /\ signalled' = TRUE
    /\ UNCHANGED <<listening, main, shutdown, handler>>

\* httpSrv.Shutdown
Shutdown ==
    /\ signalled
    /\ shutdown = "waiting"
    /\ listening' = FALSE
    /\ shutdown' = "draining"
    /\ UNCHANGED <<signalled, main, handler>>

Drained ==
    /\ shutdown = "draining"
    /\ shutdown' \in {"timedOut"} \cup (IF Idle THEN {"drained"} ELSE {})
    /\ UNCHANGED <<signalled, listening, main, handler>>

\* ListenAndServe returns when the listener is closed.
ListenAndServe ==
    /\ main = "serving"
    /\ ~ listening
    /\ main' = "returning"
    /\ UNCHANGED <<signalled, listening, shutdown, handler>>

\* The deferred calls of runServe close the store and the Cloud Run client.
Close ==
    /\ main = "returning"
    /\ main' = "closed"
    /\ UNCHANGED <<signalled, listening, shutdown, handler>>

\* main returns, and every goroutine ends with it.
Exit ==
    /\ main = "closed"
    /\ main' = "exited"
    /\ UNCHANGED <<signalled, listening, shutdown, handler>>

-----------------------------------------------------------------------------

Next ==
    /\ main # "exited"
    /\ \/ \E h \in Handlers : Accept(h) \/ Deploy(h) \/ Record(h)
       \/ Signal \/ Shutdown \/ Drained \/ ListenAndServe \/ Close \/ Exit

Spec == Init /\ [][Next]_vars

-----------------------------------------------------------------------------
(* Properties *)

\* "Shut down gracefully when the command context is cancelled" (serve.go:129):
\* the process does not exit under a request that Shutdown still waits for, nor
\* close the store that the request is going to write to.
ShutsDownGracefully ==
    main \in {"closed", "exited"} /\ shutdown = "draining" => Idle
=============================================================================
