---------------------------- MODULE ServeProofs ----------------------------
(***************************************************************************)
(* For every selection of datasources and any number of connections: what  *)
(* Serve promises of the end of a process.                                 *)
(***************************************************************************)
EXTENDS Serve, TLAPS

Over == {"deferred", "return", "exited"}

\* runServe has a result when it is over; the client is there in between;
\* Shutdown, once called, stays so, and only then is errCh closed empty.
ControlInv ==
    /\ status = "none" <=> main \notin Over
    /\ main = "client" => client = "none"
    /\ client = "closed" => main \in {"return", "exited"}
    /\ main \in {"return", "exited"} => client # "open"
    /\ inShutdown => signalled /\ main \in Over \cup {"shutdown"}
    /\ main = "shutdown" => inShutdown
    /\ errCh = "closed" => inShutdown

\* A handler at work has its connection in use, so that after a Shutdown
\* without an error there is none.
DrainInv ==
    /\ \A c \in Conn : handler[c] # "none" => conn[c] = "active"
    /\ status = "ok" => inShutdown /\ \A c \in Conn : conn[c] = "none"
    /\ lost # {} => status = "error"

IInv == TypeOK /\ ControlInv /\ DrainInv

-----------------------------------------------------------------------------
LEMMA InitIInv == Init => IInv
BY ConfigsAssumption DEF Init, IInv, TypeOK, ControlInv, DrainInv, Over

\* Steps of startup keep the invariant.
LEMMA StartupKeeps ==
    ASSUME IInv, NewClient \/ ResolveRepositories \/ LoadIndex \/ StartListener
    PROVE  IInv'
<1> USE DEF IInv, ControlInv, DrainInv, Over, server, requests
<1>1. CASE NewClient
    BY <1>1 DEF NewClient, Return, TypeOK, NeedsClient
<1>2. CASE ResolveRepositories
    BY <1>2 DEF ResolveRepositories, Return, TypeOK, NeedsClient
<1>3. CASE LoadIndex
    BY <1>3 DEF LoadIndex, TypeOK, NeedsClient
<1>4. CASE StartListener
    BY <1>4 DEF StartListener, TypeOK, NeedsClient
<1> QED
    BY <1>1, <1>2, <1>3, <1>4

\* So do the steps of the way out.  A nil from the select would need errCh to
\* be closed, and with it Shutdown to have been called.
LEMMA WayOutKeeps ==
    ASSUME IInv,
           SelectErr \/ SelectSignal \/ ShutdownDone \/ ShutdownTimesOut \/ Deferred \/ Exit
    PROVE  IInv'
<1> USE DEF IInv, ControlInv, DrainInv, Over, server, requests
<1>1. CASE SelectErr
    BY <1>1 DEF SelectErr, Return, TypeOK, NeedsClient
<1>2. CASE SelectSignal
    BY <1>2 DEF SelectSignal, TypeOK, NeedsClient
<1>3. CASE ShutdownDone
  <2>1. \A c \in Conn : handler[c] = "none"
      BY <1>3 DEF ShutdownDone, Busy
  <2>2. TypeOK'
      BY <1>3 DEF ShutdownDone, Return, TypeOK, NeedsClient
  <2> QED
      BY <1>3, <2>1, <2>2 DEF ShutdownDone, Return
<1>4. CASE ShutdownTimesOut
    BY <1>4 DEF ShutdownTimesOut, Return, TypeOK, NeedsClient
<1>5. CASE Deferred
    BY <1>5 DEF Deferred, TypeOK, NeedsClient
<1>6. CASE Exit
  <2>1. status = "ok" => \A c \in Conn : handler[c] = "none"
      BY <1>6 DEF Exit
  <2>2. TypeOK'
      BY <1>6 DEF Exit, TypeOK, NeedsClient
  <2>3. lost' # {} => status' = "error"
      BY <1>6, <2>1 DEF Exit, TypeOK
  <2> QED
      BY <1>6, <2>2, <2>3 DEF Exit
<1> QED
    BY <1>1, <1>2, <1>3, <1>4, <1>5, <1>6

LEMMA ListenerKeeps ==
    ASSUME IInv, Listener \/ Signal
    PROVE  IInv'
<1> USE DEF IInv, ControlInv, DrainInv, Over, process, requests
<1>1. CASE ListenFails
  <2>1. PICK serverClosed \in {FALSE, inShutdown} : ListenerEnds(serverClosed)
      BY <1>1 DEF ListenFails
  <2>2. errCh' \in {"closed", "error"} /\ (errCh' = "closed" => inShutdown) /\ listener' = "down"
    <3>1. CASE serverClosed = FALSE
        BY <2>1, <3>1 DEF ListenerEnds
    <3>2. CASE serverClosed = inShutdown
        BY <2>1, <3>2 DEF ListenerEnds, TypeOK
    <3> QED
        BY <3>1, <3>2
  <2> QED
      BY <1>1, <2>2 DEF ListenFails, TypeOK, NeedsClient
<1>2. CASE ListenUp
    BY <1>2 DEF ListenUp, TypeOK, NeedsClient
<1>3. CASE AcceptFails
    BY <1>3 DEF AcceptFails, ListenerEnds, TypeOK, NeedsClient
<1>4. CASE Signal
    BY <1>4 DEF Signal, TypeOK, NeedsClient, server
<1> QED
    BY <1>1, <1>2, <1>3, <1>4 DEF Listener

\* So does whatever a connection does.  A handler that meets a closed client
\* runs after the deferred Close, and not after a nil.
LEMMA RequestsKeep ==
    ASSUME IInv, NEW c \in Conn,
           Accept(c) \/ Request(c) \/ CallsEnd(c) \/ Reply(c) \/ ConnEnds(c)
    PROVE  IInv'
<1> USE DEF IInv, ControlInv, DrainInv, Over, process, server
<1>1. CASE Accept(c)
    BY <1>1 DEF Accept, TypeOK, NeedsClient
<1>2. CASE Request(c)
  <2>1. TypeOK'
      BY <1>2 DEF Request, TypeOK, NeedsClient
  <2> QED
      BY <1>2, <2>1 DEF Request, TypeOK
<1>3. CASE CallsEnd(c)
  <2>1. client = "closed" => status = "error"
      BY <1>3 DEF CallsEnd, TypeOK
  <2>2. TypeOK'
      BY <1>3 DEF CallsEnd, TypeOK, NeedsClient
  <2> QED
      BY <1>3, <2>1, <2>2 DEF CallsEnd, TypeOK
<1>4. CASE Reply(c)
  <2>1. TypeOK'
      BY <1>4 DEF Reply, TypeOK, NeedsClient
  <2> QED
      BY <1>4, <2>1 DEF Reply, TypeOK
<1>5. CASE ConnEnds(c)
    BY <1>5 DEF ConnEnds, TypeOK, NeedsClient
<1> QED
    BY <1>1, <1>2, <1>3, <1>4, <1>5

LEMMA NextKeeps == IInv /\ [Next]_vars => IInv'
<1> SUFFICES ASSUME IInv, [Next]_vars
             PROVE  IInv'
    OBVIOUS
<1>1. CASE Main
    BY <1>1, StartupKeeps, WayOutKeeps DEF Main
<1>2. CASE Listener \/ Signal
    BY <1>2, ListenerKeeps
<1>3. CASE \E c \in Conn : Accept(c) \/ Request(c) \/ CallsEnd(c) \/ Reply(c) \/ ConnEnds(c)
    BY <1>3, RequestsKeep
<1>4. CASE UNCHANGED vars
    BY <1>4 DEF vars, process, server, requests, IInv, TypeOK, NeedsClient, ControlInv,
                DrainInv, Over
<1> QED
    BY <1>1, <1>2, <1>3, <1>4 DEF Next

\* The inductive invariant holds in every state that runServe can reach.
THEOREM Invariance == Spec => []IInv
BY InitIInv, NextKeeps, PTL DEF Spec

\* Every variable keeps its type; there is a client only where it is needed.
THEOREM TypeCorrect == Spec => []TypeOK
<1>1. IInv => TypeOK
    BY DEF IInv
<1> QED
    BY <1>1, Invariance, PTL

\* Requests are lost only where runServe returns an error, and the client is
\* closed on every way out: Shutdown comes before the deferred Close.
THEOREM ExitIsClean == Spec => []CleanExit
<1>1. IInv => CleanExit
    BY DEF IInv, ControlInv, DrainInv, CleanExit
<1> QED
    BY <1>1, Invariance, PTL

\* A nil means that there was a signal: the select never sees an empty errCh.
THEOREM NilMeansSignal == Spec => []NoQuietExit
<1>1. IInv => NoQuietExit
    BY DEF IInv, ControlInv, DrainInv, NoQuietExit
<1> QED
    BY <1>1, Invariance, PTL
=============================================================================
