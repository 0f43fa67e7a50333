------------------------------- MODULE Serve -------------------------------
(***************************************************************************)
(* The life of a serving process: what runServe does from the first call   *)
(* to the exit, the goroutine that listens, the connections and handlers   *)
(* of net/http, and the signal that may come at any point of it.  A repo   *)
(* request uses the Chainguard client, which runServe closes on its way    *)
(* out.  How long anything takes is open, and with it whether a time limit *)
(* is met.                                                                 *)
(***************************************************************************)

CONSTANTS
    Configs,    \* flags: the datasources, and whether the apk one has mirrors
    Conn        \* connections

\* parseDatasources wants at least one.
Accepted ==
    {c \in [repo : BOOLEAN, apk : BOOLEAN, mirrored : BOOLEAN] : c.repo \/ c.apk}

ASSUME ConfigsAssumption == Configs \subseteq Accepted

VARIABLES
    config,     \* the flags of this process
    main,       \* control of runServe, and "exited"
    status,     \* what runServe returns: "ok" for nil
    signalled,  \* ctx is done
    client,     \* the Chainguard client
    listener,   \* the goroutine of ListenAndServe
    errCh,      \* "open", with the listener's "error" in it, or "closed"
    inShutdown, \* srv.Shutdown has been called
    conn,       \* connections, as net/http tracks them
    handler,    \* what the handler of each is doing
    lost        \* history: ways in which runServe has spoilt a request

process == <<config, main, status, signalled, client>>
server == <<listener, errCh, inShutdown>>
requests == <<conn, handler, lost>>
vars == <<process, server, requests>>

NeedsClient == config.repo \/ (config.apk /\ ~config.mirrored)
Running == main # "exited"
Busy == {c \in Conn : conn[c] \in {"new", "active"}}

TypeOK ==
    /\ config \in Configs
    /\ main \in {"client", "repositories", "load", "listen", "select", "shutdown",
                 "deferred", "return", "exited"}
    /\ status \in {"none", "ok", "error"}
    /\ signalled \in BOOLEAN /\ inShutdown \in BOOLEAN
    /\ client \in (IF NeedsClient THEN {"none", "open", "closed"} ELSE {"none"})
    /\ listener \in {"none", "starting", "up", "down"}
    /\ errCh \in {"open", "error", "closed"}
    /\ conn \in [Conn -> {"none", "new", "active", "idle"}]
    /\ handler \in [Conn -> {"none", "calling", "replying"}]
    /\ lost \subseteq {"closed", "cut"}

Init ==
    /\ config \in Configs
    /\ main = "client"
    /\ status = "none"
    /\ signalled = FALSE
    /\ client = "none"
    /\ listener = "none" /\ errCh = "open" /\ inShutdown = FALSE
    /\ conn = [c \in Conn |-> "none"]
    /\ handler = [c \in Conn |-> "none"]
    /\ lost = {}

-----------------------------------------------------------------------------
(* Startup.  Every call gets ctx, so none succeeds once it is done.        *)
(* Definitions named Faulty... are bugs the code could have in place of    *)
(* the definition that follows; the properties are shown to notice.        *)

Return(s, label) == status' = s /\ main' = label

\* newChainguardClient, if anything needs it: New gets a token and resolves
\* the organisation, or fails and leaves nothing open.
NewClient ==
    /\ main = "client"
    /\ \/ /\ ~NeedsClient
          /\ main' = "repositories" /\ UNCHANGED <<status, client>>
       \/ /\ NeedsClient /\ ~signalled
          /\ main' = "repositories" /\ client' = "open" /\ UNCHANGED status
       \/ /\ NeedsClient
          /\ Return("error", "return") /\ UNCHANGED client
    /\ UNCHANGED <<config, signalled, server, requests>>

\* resolveAPKRepositories: only mirrors can be refused.
ResolveRepositories ==
    /\ main = "repositories"
    /\ \/ ~config.apk /\ main' = "listen" /\ UNCHANGED status
       \/ config.apk /\ main' = "load" /\ UNCHANGED status
       \/ config.apk /\ config.mirrored /\ Return("error", "deferred")
    /\ UNCHANGED <<config, signalled, client, server, requests>>

\* NewIndexStoreWithRefresh: its error is only logged.
LoadIndex ==
    /\ main = "load"
    /\ main' = "listen"
    /\ UNCHANGED <<config, status, signalled, client, server, requests>>

StartListener ==
    /\ main = "listen"
    /\ main' = "select"
    /\ listener' = "starting"
    /\ UNCHANGED <<config, status, signalled, client, errCh, inShutdown, requests>>

-----------------------------------------------------------------------------
(* The listener's goroutine.  It sends any error but ErrServerClosed, and  *)
(* closes errCh.                                                           *)

FaultyListenerEnds(serverClosed) ==
    /\ listener' = "down"
    /\ errCh' = "closed"
ListenerEnds(serverClosed) ==
    /\ listener' = "down"
    /\ errCh' = IF serverClosed THEN "closed" ELSE "error"

\* The address is taken, or a Shutdown was faster.
ListenFails ==
    /\ Running /\ listener = "starting"
    /\ \E serverClosed \in {FALSE, inShutdown} : ListenerEnds(serverClosed)
    /\ UNCHANGED <<process, inShutdown, requests>>

ListenUp ==
    /\ Running /\ listener = "starting" /\ ~inShutdown
    /\ listener' = "up"
    /\ UNCHANGED <<process, errCh, inShutdown, requests>>

\* Accept fails: for good, or since Shutdown has closed the listener.
AcceptFails ==
    /\ Running /\ listener = "up"
    /\ ListenerEnds(inShutdown)
    /\ UNCHANGED <<process, inShutdown, requests>>

-----------------------------------------------------------------------------
(* Waiting, and the way out.                                               *)

\* The arms of the select; either may be taken when both are ready.
SelectErr ==
    /\ main = "select" /\ errCh # "open"
    /\ Return(IF errCh = "error" THEN "error" ELSE "ok", "deferred")
    /\ UNCHANGED <<config, signalled, client, server, requests>>

FaultySelectSignalClosesClient ==
    /\ main = "select" /\ signalled
    /\ main' = "shutdown"
    /\ inShutdown' = TRUE
    /\ client' = "closed"
    /\ UNCHANGED <<config, status, signalled, listener, errCh, requests>>
SelectSignal ==
    /\ main = "select" /\ signalled
    /\ main' = "shutdown"
    /\ inShutdown' = TRUE
    /\ UNCHANGED <<config, status, signalled, client, listener, errCh, requests>>

\* Shutdown returns nil when the listener has gone and no connection is in
\* use, and closes those that are idle.
ShutdownDone ==
    /\ main = "shutdown" /\ listener # "up" /\ Busy = {}
    /\ conn' = [c \in Conn |-> "none"]
    /\ Return("ok", "deferred")
    /\ UNCHANGED <<config, signalled, client, server, handler, lost>>

\* ...or its context's error after ten seconds.
FaultyShutdownNeverTimesOut == FALSE
ShutdownTimesOut ==
    /\ main = "shutdown"
    /\ Return("error", "deferred")
    /\ UNCHANGED <<config, signalled, client, server, requests>>

\* The deferred Close, whatever the handlers are doing.
FaultyDeferredAlways ==
    /\ main = "deferred"
    /\ main' = "return"
    /\ client' = "closed"
    /\ UNCHANGED <<config, status, signalled, server, requests>>
Deferred ==
    /\ main = "deferred"
    /\ main' = "return"
    /\ client' = IF client = "open" THEN "closed" ELSE client
    /\ UNCHANGED <<config, status, signalled, server, requests>>

\* main exits, and with it every goroutine.
Exit ==
    /\ main = "return"
    /\ main' = "exited"
    /\ lost' = lost \cup {"cut" : c \in {d \in Conn : handler[d] # "none"}}
    /\ UNCHANGED <<config, status, signalled, client, server, conn, handler>>

-----------------------------------------------------------------------------
(* Connections and their requests.                                         *)

Accept(c) ==
    /\ Running /\ listener = "up" /\ ~inShutdown
    /\ conn[c] = "none"
    /\ conn' = [conn EXCEPT ![c] = "new"]
    /\ UNCHANGED <<process, server, handler, lost>>

\* A repo request goes on to call the client; any other is answered without.
Request(c) ==
    /\ Running /\ conn[c] \in {"new", "idle"}
    /\ conn' = [conn EXCEPT ![c] = "active"]
    /\ \E h \in {"replying"} \cup (IF config.repo THEN {"calling"} ELSE {}) :
           handler' = [handler EXCEPT ![c] = h]
    /\ UNCHANGED <<process, server, lost>>

\* A handler's last call returns, or one fails: all of them on a client that
\* is closed.
CallsEnd(c) ==
    /\ Running /\ handler[c] = "calling"
    /\ handler' = [handler EXCEPT ![c] = "replying"]
    /\ lost' = IF client = "closed" THEN lost \cup {"closed"} ELSE lost
    /\ UNCHANGED <<process, server, conn>>

\* The answer is written, or not: the client has left, or WriteTimeout is
\* over.  Connections are kept alive until Shutdown.
Reply(c) ==
    /\ Running /\ handler[c] = "replying"
    /\ handler' = [handler EXCEPT ![c] = "none"]
    /\ \E s \in {"none"} \cup (IF inShutdown THEN {} ELSE {"idle"}) :
           conn' = [conn EXCEPT ![c] = s]
    /\ UNCHANGED <<process, server, lost>>

\* The client leaves, or ReadHeaderTimeout, ReadTimeout or IdleTimeout is
\* over.  Shutdown counts a connection idle that is new for five seconds.
ConnEnds(c) ==
    /\ Running /\ conn[c] \in {"new", "idle"}
    /\ conn' = [conn EXCEPT ![c] = "none"]
    /\ UNCHANGED <<process, server, handler, lost>>

Signal ==
    /\ Running /\ ~signalled
    /\ signalled' = TRUE
    /\ UNCHANGED <<config, main, status, client, server, requests>>

-----------------------------------------------------------------------------
Main ==
    \/ NewClient \/ ResolveRepositories \/ LoadIndex \/ StartListener
    \/ SelectErr \/ SelectSignal \/ ShutdownDone \/ ShutdownTimesOut
    \/ Deferred \/ Exit

Listener == ListenFails \/ ListenUp \/ AcceptFails

Next ==
    \/ Main \/ Listener \/ Signal
    \/ \E c \in Conn : Accept(c) \/ Request(c) \/ CallsEnd(c) \/ Reply(c) \/ ConnEnds(c)

Spec == Init /\ [][Next]_vars

\* What runServe waits for ends at the latest with ctx, Shutdown at the
\* latest with its own time limit.  Handlers have neither: upstream may keep
\* a call for as long as it likes.
FairSpec == Spec /\ WF_vars(signalled /\ Main)

-----------------------------------------------------------------------------
(* Properties.                                                             *)

\* A signal ends the process, wherever startup is and however many handlers
\* never return.
SignalEnds == signalled ~> (main = "exited")

\* No request meets a closed client, or is cut off by the exit, unless
\* runServe returns an error; and the client is closed on every way out
\* (the order of Shutdown and the deferred Close).
CleanExit ==
    /\ lost # {} => status = "error"
    /\ main = "exited" => client # "open"

\* A server that stops of itself is an error: nil is returned only for a
\* signal, whichever of errCh and ctx is ready first.
NoQuietExit == main = "exited" /\ status = "ok" => signalled
=============================================================================
