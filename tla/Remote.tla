------------------------------- MODULE Remote -------------------------------
(***************************************************************************)
(* The driver used from another machine: the server (libserver.c) passes   *)
(* the requests of one client at a time to the control device, and the     *)
(* connector in the client's process (network-connector.c; vsock-connector *)
(* and hyperv-connector have the same functions) sends the library's       *)
(* requests, and a ping every second from a thread of its own.  A          *)
(* connection is two streams of messages: a header and, when it announces  *)
(* some, a payload, with nothing that tells one from the other or an       *)
(* answer from the next.                                                   *)
(***************************************************************************)
EXTENDS Integers, Sequences

CONSTANTS
  Clients,      \* processes with a connector
  MaxRequests,  \* the requests of one connection of each client
  Nobody

VARIABLES
  server,  \* where the listener is, its client, what it handles, its device,
           \* whether it lost one that is open, the exit event
  conn,    \* each client: the sockets of both ends and what is between them
  app,     \* each client: the thread that uses the library, its last request
  ping,    \* each client: its pinging thread
  lock,    \* each client: _ioctlLock, who holds it and whether it exists
  broken,  \* history: the client's streams may be out of step
  undef    \* why the behaviour is no longer defined: "no" when it is

vars == <<server, conn, app, ping, lock, broken, undef>>

\* Requests: with input or not, and how much output they have room for.
Requests == {[input |-> TRUE, output |-> 0], [input |-> TRUE, output |-> 1],
             [input |-> FALSE, output |-> 2]}
Message(kind, id, request) == [kind |-> kind, id |-> id, request |-> request]
NoRequest == [input |-> FALSE, output |-> 0]
Ping == Message("ping", 0, NoRequest)

Closed == [ours |-> FALSE, theirs |-> "no", up |-> <<>>, down |-> <<>>]
Unused == [at |-> "down", id |-> 0, request |-> NoRequest, answer |-> 0]

Init ==
  /\ server = [at |-> "listen", client |-> Nobody, msg |-> Ping, device |-> FALSE,
               leaked |-> FALSE, exit |-> FALSE]
  /\ conn = [c \in Clients |-> Closed]
  /\ app = [c \in Clients |-> Unused]
  /\ ping = [c \in Clients |-> "none"]
  /\ lock = [c \in Clients |-> [made |-> FALSE, holder |-> "nobody"]]
  /\ broken = [c \in Clients |-> FALSE]
  /\ undef = "no"

\* ERROR_SUCCESS is also what GetLastError answers when the function that
\* failed has not set it: recv of a closed connection, HeapAlloc.
LastErrors == {"ok", "error"}

-----------------------------------------------------------------------------
(* The server, _Listener.                                                   *)

Serving(place) == server.at = place /\ undef = "no"
Mine == server.client
Serve(place) == server' = [server EXCEPT !.at = place]
Read == conn' = [conn EXCEPT ![Mine].up = Tail(@)]
Pending == conn[Mine].up # <<>>
Sent(msg) == [conn EXCEPT ![Mine].down = Append(@, msg)]

\* Between two clients: the exit event, then a client that waits, whose socket
\* is given the time limit, or closed.
Accept(c) ==
  /\ Serving("listen") /\ ~server.exit
  /\ conn[c].ours /\ conn[c].theirs = "no"
  /\ conn' = [conn EXCEPT ![c].theirs = "open"]
  /\ \E next \in {"hello", "close"} : server' = [server EXCEPT !.at = next, !.client = c]
  /\ UNCHANGED <<app, ping, lock, broken, undef>>
End ==
  /\ Serving("listen") /\ server.exit
  /\ Serve("ended")
  /\ UNCHANGED <<conn, app, ping, lock, broken, undef>>

\* The device is opened, or not, and the client told; if that cannot be sent,
\* nobody closes a device that was opened.
Hello ==
  /\ Serving("hello")
  /\ \/ /\ server' = [server EXCEPT !.at = "header", !.device = TRUE]
        /\ conn' = Sent(Message("hello", 1, NoRequest))
     \/ /\ Serve("close")
        /\ conn' = Sent(Message("hello", 0, NoRequest))
     \/ /\ ~conn[Mine].ours
        /\ \E opened \in BOOLEAN :
             server' = [server EXCEPT !.at = "close", !.leaked = @ \/ opened]
        /\ UNCHANGED conn
  /\ UNCHANGED <<app, ping, lock, broken, undef>>

\* A ping goes back as it came, and the exit event is not looked at.  A header
\* is followed by the memory for its payloads.  Short of memory the error is
\* that of GetLastError, and the client's input stays in the stream.
Header ==
  /\ Serving("header") /\ Pending
  /\ LET msg == Head(conn[Mine].up)
         rest == [conn EXCEPT ![Mine].up = Tail(@)] IN
     \/ /\ msg.kind = "ping"
        /\ conn' = [rest EXCEPT ![Mine].down = Append(@, msg)]
        /\ UNCHANGED <<server, broken, undef>>
     \/ /\ msg.kind = "request"
        /\ conn' = rest
        /\ \/ server' = [server EXCEPT !.msg = msg,
                           !.at = IF msg.request.input THEN "input" ELSE "ioctl"]
              /\ UNCHANGED broken
           \/ \E error \in LastErrors :
                /\ Serve(IF error = "ok" THEN "again" ELSE "close")
                /\ broken' = [broken EXCEPT ![Mine] = TRUE]
        /\ UNCHANGED undef
     \/ /\ msg.kind = "input"
        /\ undef' = "payload taken for a header"
        /\ UNCHANGED <<server, conn, broken>>
  /\ UNCHANGED <<app, ping, lock>>

\* Ten seconds without a header or the rest of a payload, or the client gone.
GiveUp ==
  /\ server.at \in {"header", "input"} /\ undef = "no" /\ ~Pending
  /\ Serve("close")
  /\ UNCHANGED <<conn, app, ping, lock, broken, undef>>

Input ==
  /\ Serving("input") /\ Pending
  /\ Read /\ Serve("ioctl")
  /\ UNCHANGED <<app, ping, lock, broken, undef>>

\* The request is executed and answered, with as much output as it had room
\* for whatever its result.  Sending fails when the client has gone.
Ioctl ==
  /\ Serving("ioctl")
  /\ LET msg == server.msg
         answer == Message("answer", msg.id, msg.request)
         output == Message("output", msg.id, msg.request) IN
     \/ /\ conn' = [conn EXCEPT ![Mine].down =
                      @ \o (IF msg.request.output = 0 THEN <<answer>>
                                                      ELSE <<answer, output>>)]
        /\ Serve("again")
     \/ /\ ~conn[Mine].ours
        /\ Serve("close")
        /\ UNCHANGED conn
  /\ UNCHANGED <<app, ping, lock, broken, undef>>

Again ==
  /\ Serving("again")
  /\ Serve(IF server.exit THEN "close" ELSE "header")
  /\ UNCHANGED <<conn, app, ping, lock, broken, undef>>

\* The device is closed if the client was told that it is open.
Close ==
  /\ Serving("close")
  /\ server' = [server EXCEPT !.at = "listen", !.client = Nobody, !.msg = Ping,
                              !.device = FALSE]
  /\ conn' = [conn EXCEPT ![Mine].theirs = "closed"]
  /\ UNCHANGED <<app, ping, lock, broken, undef>>

\* The service is told to stop (SERVICE_CONTROL_STOP).
Exit ==
  /\ ~server.exit /\ undef = "no"
  /\ server' = [server EXCEPT !.exit = TRUE]
  /\ UNCHANGED <<conn, app, ping, lock, broken, undef>>

-----------------------------------------------------------------------------
(* The client: NetConn_Connect, NetConn_SynchronousOtherIOCTL,              *)
(* NetConn_Disconnect and _PingingThread.                                   *)

App(c, place) == app[c].at = place /\ undef = "no"
Ready(c) == app[c].at = "ready"
Take(c) == conn' = [conn EXCEPT ![c].down = Tail(@)]
Next1(c) == Head(conn[c].down)
Waiting(c) == conn[c].down = <<>>
Hold(c, who) == lock' = [lock EXCEPT ![c].holder = who]
Free(c) == lock[c].made /\ lock[c].holder = "nobody"

\* The system accepts a connection whether the server serves another or not.
\* A bound: not before the server has left the one before.
Connect(c) ==
  /\ App(c, "down") /\ server.at # "ended" /\ server.client # c
  /\ conn' = [conn EXCEPT ![c] = [Closed EXCEPT !.ours = TRUE]]
  /\ app' = [app EXCEPT ![c] = [Unused EXCEPT !.at = "hello"]]
  /\ lock' = [lock EXCEPT ![c].made = TRUE]
  /\ broken' = [broken EXCEPT ![c] = FALSE]
  /\ UNCHANGED <<server, ping, undef>>

\* Told that the device is open, and the pinging thread created.  Otherwise
\* the lock is deleted; the socket stays open when the server has answered.
Connected(c) ==
  /\ App(c, "hello") /\ ~Waiting(c)
  /\ Take(c)
  /\ \/ /\ Next1(c).id = 1
        /\ app' = [app EXCEPT ![c].at = "ready"]
        /\ ping' = [ping EXCEPT ![c] = "sleep"]
        /\ UNCHANGED lock
     \/ /\ app' = [app EXCEPT ![c].at = "refused"]
        /\ lock' = [lock EXCEPT ![c].made = FALSE]
        /\ UNCHANGED ping
  /\ UNCHANGED <<server, broken, undef>>

\* The answer does not come in time, or the server has closed the connection;
\* with a last error of 0 that is taken for a success.
ConnectFails(c) ==
  /\ App(c, "hello") /\ Waiting(c)
  /\ \/ /\ conn' = [conn EXCEPT ![c].ours = FALSE]
        /\ app' = [app EXCEPT ![c].at = "down"]
        /\ lock' = [lock EXCEPT ![c].made = FALSE]
     \/ /\ conn[c].theirs = "closed"
        /\ app' = [app EXCEPT ![c].at = "ready"]
        /\ UNCHANGED <<conn, lock>>
  /\ broken' = [broken EXCEPT ![c] = TRUE]
  /\ UNCHANGED <<server, ping, undef>>

\* The library unloads a connector that did not connect, and starts afresh
\* with another socket; the one it forgot stays open.
Reload(c) ==
  /\ App(c, "refused")
  /\ app' = [app EXCEPT ![c] = Unused]
  /\ conn' = [conn EXCEPT ![c].ours = FALSE]
  /\ UNCHANGED <<server, ping, lock, broken, undef>>

\* A header and an input are sent under the lock, which is held for the answer.
Request(c, request) ==
  /\ App(c, "ready") /\ Free(c) /\ app[c].id < MaxRequests[c]
  /\ LET id == app[c].id + 1 IN
     /\ conn' = [conn EXCEPT ![c].up =
                   @ \o <<Message("request", id, request)>>
                     \o (IF request.input THEN <<Message("input", id, request)>> ELSE <<>>)]
     /\ app' = [app EXCEPT ![c] = [at |-> "answer", id |-> id, request |-> request,
                                   answer |-> 0]]
  /\ Hold(c, "app")
  /\ UNCHANGED <<server, ping, broken, undef>>

\* The library is given an answer, or an error, which may be none.
Answered(c, id) == app' = [app EXCEPT ![c].at = "ready", ![c].answer = id]
Fails(c) ==
  /\ \E error \in LastErrors : Answered(c, IF error = "ok" THEN -1 ELSE 0)
  /\ Hold(c, "nobody")
  /\ broken' = [broken EXCEPT ![c] = TRUE]

\* The header of the answer, whichever it answers; then its output, into a
\* buffer of the size that the request had room for, if there is memory.
Answer(c) ==
  LET msg == Next1(c) IN
  /\ App(c, "answer") /\ ~Waiting(c)
  /\ \/ /\ msg.kind \in {"answer", "ping"} /\ msg.request.output = 0
        /\ Take(c)
        /\ Answered(c, msg.id)
        /\ Hold(c, "nobody")
        /\ UNCHANGED <<broken, undef>>
     \/ /\ msg.kind = "answer" /\ msg.request.output > 0
        /\ Take(c)
        /\ \/ /\ app[c].request.output > 0
              /\ app' = [app EXCEPT ![c].at = "output", ![c].answer = msg.id]
              /\ undef' = IF msg.request.output > app[c].request.output
                          THEN "more output than room" ELSE "no"
              /\ UNCHANGED <<lock, broken>>
           \/ Fails(c) /\ UNCHANGED undef
     \/ /\ msg.kind = "output"
        /\ undef' = "payload taken for a header"
        /\ UNCHANGED <<conn, app, lock, broken>>
  /\ UNCHANGED <<server, ping>>

Output(c) ==
  /\ App(c, "output") /\ ~Waiting(c)
  /\ Take(c)
  /\ Answered(c, app[c].answer)
  /\ Hold(c, "nobody")
  /\ UNCHANGED <<server, ping, broken, undef>>

\* Nothing comes for ten seconds, or the server has closed the connection.
\* The socket stays open: the next request reads what this one left.
TimeOut(c) ==
  /\ app[c].at \in {"answer", "output"} /\ undef = "no" /\ Waiting(c)
  /\ Fails(c)
  /\ UNCHANGED <<server, conn, ping, undef>>

\* Disconnect waits for the pinging thread before it closes and deletes.
Disconnect(c) ==
  /\ App(c, "ready")
  /\ app' = [app EXCEPT ![c].at = "join"]
  /\ UNCHANGED <<server, conn, ping, lock, broken, undef>>
Joined(c) ==
  /\ App(c, "join") /\ ping[c] \in {"none", "ended"}
  /\ app' = [app EXCEPT ![c] = Unused]
  /\ conn' = [conn EXCEPT ![c].ours = FALSE, ![c].down = <<>>]
  /\ lock' = [lock EXCEPT ![c].made = FALSE]
  /\ ping' = [ping EXCEPT ![c] = "none"]
  /\ UNCHANGED <<server, broken, undef>>

\* Mutant: the pinging thread does not take the lock.
PingUnlocked(c) ==
  /\ ping[c] = "sleep" /\ undef = "no"
  /\ conn' = [conn EXCEPT ![c].up = Append(@, Ping)]
  /\ ping' = [ping EXCEPT ![c] = "pong"]
  /\ UNCHANGED <<server, app, lock, broken, undef>>

SendPing(c) ==
  /\ ping[c] = "sleep" /\ undef = "no" /\ Free(c)
  /\ conn' = [conn EXCEPT ![c].up = Append(@, Ping)]
  /\ ping' = [ping EXCEPT ![c] = "pong"]
  /\ Hold(c, "ping")
  /\ UNCHANGED <<server, app, broken, undef>>

\* Whatever header comes first is taken for the ping's.
Pong(c) ==
  /\ ping[c] = "pong" /\ undef = "no" /\ ~Waiting(c)
  /\ \/ /\ Next1(c).kind # "output"
        /\ Take(c)
        /\ ping' = [ping EXCEPT ![c] = IF app[c].at = "join" THEN "ended" ELSE "sleep"]
        /\ Hold(c, "nobody")
        /\ UNCHANGED undef
     \/ /\ Next1(c).kind = "output"
        /\ undef' = "payload taken for a header"
        /\ UNCHANGED <<conn, ping, lock>>
  /\ UNCHANGED <<server, app, broken>>

\* No answer: the thread ends, and nobody is told.
PingFails(c) ==
  /\ ping[c] = "pong" /\ undef = "no" /\ Waiting(c)
  /\ ping' = [ping EXCEPT ![c] = "ended"]
  /\ Hold(c, "nobody")
  /\ broken' = [broken EXCEPT ![c] = TRUE]
  /\ UNCHANGED <<server, conn, app, undef>>

-----------------------------------------------------------------------------
Next ==
  \/ End \/ Hello \/ Header \/ GiveUp \/ Input \/ Ioctl \/ Again \/ Close \/ Exit
  \/ \E c \in Clients :
       \/ Accept(c) \/ Connect(c) \/ Connected(c) \/ ConnectFails(c) \/ Reload(c)
       \/ \E request \in Requests : Request(c, request)
       \/ Answer(c) \/ Output(c) \/ TimeOut(c) \/ Disconnect(c) \/ Joined(c)
       \/ SendPing(c) \/ Pong(c) \/ PingFails(c)
Spec == Init /\ [][Next]_vars

\* The library is given the answer to its own request, and the behaviour stays
\* defined, unless an exchange of this connection failed half way, after which
\* the connector goes on with streams that are out of step (network-connector.c,
\* 84-116); a critical section is used only while it exists; the server has
\* its device open while it serves and not between clients (libserver.c:97),
\* but for one it lost when a handshake could not be sent (libserver.c:111).
RemoteSound ==
  /\ \A c \in Clients :
       /\ (app[c].at = "ready" /\ app[c].id > 0) =>
            app[c].answer = app[c].id \/ broken[c]
       /\ lock[c].holder # "nobody" => lock[c].made
       /\ ping[c] \in {"sleep", "pong"} => lock[c].made /\ conn[c].ours
  /\ undef # "no" => \E c \in Clients : broken[c]
  /\ server.at \in {"header", "input", "ioctl", "again"} => server.device
  /\ server.at \in {"listen", "hello", "ended"} => ~server.device
=============================================================================
