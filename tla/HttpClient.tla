----------------------------- MODULE HttpClient -----------------------------
(***************************************************************************)
(* HttpClient and HttpsClient: one coroutine at a time uses the connection *)
(* of a client to connect, to close or to send a request and follow what   *)
(* the answer redirects to.  The two classes differ in what `secure' says. *)
(* The server, the network and TLS are outside; they may fail MaxFaults    *)
(* times.                                                                  *)
(***************************************************************************)
EXTENDS Integers, Sequences, FiniteSets, SequencesExt

CONSTANTS
  Addrs,          \* where servers are: [host, port]
  Resources,      \* paths, as sequences of their segments
  Follow, MaxRedirects,           \* of the options of the client
  MaxCalls,       \* bound: how many calls an application makes
  MaxFaults,      \* bound: how often server, network or TLS fail
  None

\* The path of a resource names it without a detour.
Plain(path) ==
  path \in Seq(STRING) /\ path # <<>> /\ \A i \in DOMAIN path : path[i] \notin {".", ".."}

ASSUME HttpAssumption ==
  /\ {MaxRedirects, MaxCalls, MaxFaults} \subseteq Nat /\ Follow \in BOOLEAN
  /\ \A r \in Resources : Plain(r)

VARIABLES
  secure,         \* an HttpsClient
  m_connected, m_host, m_buffer,
  stream,         \* [state, peer, shaken]: the socket, and TLS had its handshake
  pc,             \* where the coroutine waits
  dest,           \* the address do_connect goes to
  req,            \* [id, method, target, want]: the request, and whom it is for
  redirect_count,
  inner,          \* the coroutine closes or connects to follow a redirect
  result,         \* what the call returned: [ok, value, error]
  calls,          \* how many calls there were
  server,         \* [todo, reply, eof]: the other end of the stream
  done,           \* how often each request was carried out
  faults

httpVars == <<secure, m_connected, m_host, m_buffer, stream, pc, dest, req,
              redirect_count, inner, result, calls, server, done, faults>>

Ok(v)  == [ok |-> TRUE, value |-> v, error |-> None]
Err(e) == [ok |-> FALSE, value |-> None, error |-> e]
Idle   == pc \in {"idle", "done"}
Quiet  == [todo |-> None, reply |-> None, eof |-> FALSE]

HttpInit ==
  /\ m_connected = FALSE /\ m_host = None /\ m_buffer = None
  /\ stream = [state |-> "closed", peer |-> None, shaken |-> FALSE]
  /\ pc = "idle" /\ calls = 0 /\ dest = None /\ req = None /\ redirect_count = 0
  /\ inner = FALSE /\ result = None /\ server = Quiet
  /\ done = <<>> /\ faults = 0

Fault == faults < MaxFaults /\ faults' = faults + 1

Return(r) == pc' = "done" /\ result' = r /\ inner' = FALSE

-----------------------------------------------------------------------------
(* Redirections *)

\* "." goes, ".." takes the segment before it along; when one of them ends the
\* path, an empty segment stands in its place.
TakeSegment(out, path, i) ==
  LET last == IF i = Len(path) THEN <<"">> ELSE <<>>
  IN  CASE path[i] = "."  -> out \o last
        [] path[i] = ".." -> (IF out = <<>> THEN out ELSE Front(out)) \o last
        [] OTHER          -> Append(out, path[i])

RemoveDotSegments(path) ==
  LET out[i \in 0..Len(path)] == IF i = 0 THEN <<>> ELSE TakeSegment(out[i - 1], path, i)
  IN  out[Len(path)]

\* A location has the form "absolute", "rooted" or "relative".
ParseLocation(loc) ==
  IF loc.form = "absolute"
    THEN [addr |-> loc.addr, target |-> loc.path, https |-> loc.https]
    ELSE [addr |-> m_host, https |-> secure,
          target |-> RemoveDotSegments(IF loc.form = "rooted" THEN loc.path
                                       ELSE Front(req.target) \o loc.path)]

IsRedirectStatus(status) == status \in {301, 302, 303, 307, 308}

ShouldConvertToGet(status, method) ==
  \/ status = 303
  \/ status \in {301, 302} /\ method = "post"

\* Wrong: the port is left out of the comparison.
ElsewhereByHost(to) == m_host = None \/ to.addr.host # m_host.host
\* The answer sends the client to another host or port than the one it has.
Elsewhere(to) == to.addr # m_host

-----------------------------------------------------------------------------
(* Connecting and closing *)

\* Wrong: what is left of an earlier answer stays.
BeginConnectKeeping(a) ==
  IF m_connected
    THEN Return(Err("already_connected")) /\ UNCHANGED <<dest, m_buffer>>
    ELSE pc' = "resolving" /\ dest' = a /\ UNCHANGED <<inner, result, m_buffer>>
\* do_connect up to its first await.  Only HttpClient clears the buffer.
BeginConnect(a) ==
  IF m_connected
    THEN Return(Err("already_connected")) /\ UNCHANGED <<dest, m_buffer>>
    ELSE /\ pc' = "resolving" /\ dest' = a
         /\ m_buffer' = IF secure THEN m_buffer ELSE None
         /\ UNCHANGED <<inner, result>>

Connect(a) ==
  /\ Idle
  /\ BeginConnect(a)
  /\ UNCHANGED <<secure, m_connected, m_host, stream, req, redirect_count, server, done, faults>>

\* do_send_request up to its first await: the answer must be awaited on an
\* open connection.
BeginSend ==
  IF m_connected THEN pc' = "writing" /\ UNCHANGED <<result, inner>>
                 ELSE Return(Err("not_connected"))

\* connect() is over: the caller has its answer, or the redirect goes on.
Connected ==
  /\ m_host' = dest /\ m_connected' = TRUE
  /\ IF inner THEN pc' = "writing" /\ inner' = FALSE /\ UNCHANGED result
              ELSE Return(Ok(None))

ConnectFails ==
  /\ m_connected' = FALSE
  /\ Return(Err("connection_failed"))
  /\ UNCHANGED m_host

Resolve ==
  /\ pc = "resolving"
  /\ \/ pc' = "connecting" /\ UNCHANGED <<m_connected, m_host, inner, result, faults>>
     \/ Fault /\ ConnectFails
  /\ UNCHANGED <<secure, m_buffer, stream, dest, req, redirect_count, calls, server, done>>

\* The socket is opened anew; over TLS a handshake follows.
OpenStream ==
  /\ pc = "connecting"
  /\ \/ /\ stream' = [stream EXCEPT !.state = "open", !.peer = dest]
        /\ server' = Quiet
        /\ IF secure
             THEN pc' = "handshaking" /\ UNCHANGED <<m_connected, m_host, inner, result>>
             ELSE Connected
        /\ UNCHANGED faults
     \/ /\ Fault /\ ConnectFails
        /\ stream' = [stream EXCEPT !.state = "closed"]
        /\ UNCHANGED server
  /\ UNCHANGED <<secure, m_buffer, dest, req, redirect_count, calls, done>>

\* A stream of OpenSSL makes one handshake; what it carries on a second
\* connection no server understands.  A failed handshake is returned at once,
\* without a look at m_connected.
Handshake ==
  /\ pc = "handshaking"
  /\ \/ /\ Connected
        /\ stream' = [stream EXCEPT !.shaken = TRUE,
                                    !.state = IF stream.shaken THEN "closed" ELSE "open"]
        /\ UNCHANGED faults
     \/ /\ Fault
        /\ Return(Err("ssl_handshake_failed"))
        /\ UNCHANGED <<stream, m_connected, m_host>>
  /\ UNCHANGED <<secure, m_buffer, dest, req, redirect_count, calls, server, done>>

\* close() is over; after it a redirect connects to where it leads.
AfterClose(ec) ==
  IF inner
    THEN \* connect() on a client that is not connected any more
         /\ pc' = "resolving"
         /\ m_buffer' = IF secure THEN m_buffer ELSE None
         /\ UNCHANGED <<inner, result>>
    ELSE Return(ec) /\ UNCHANGED m_buffer

\* HttpClient::do_close has no await in it.
DoClose ==
  IF m_connected
    THEN /\ stream' = [stream EXCEPT !.state = "closed"]
         /\ m_connected' = FALSE /\ m_host' = None
    ELSE UNCHANGED <<stream, m_connected, m_host>>

BeginClose ==
  IF secure /\ m_connected
    THEN pc' = "closing" /\ UNCHANGED <<stream, m_connected, m_host, inner, result, m_buffer>>
    ELSE DoClose /\ AfterClose(Ok(None))

Close ==
  /\ Idle
  /\ BeginClose
  /\ UNCHANGED <<secure, dest, req, redirect_count, server, done, faults>>

\* HttpsClient::do_close waits for the shutdown of TLS.  When that fails the
\* host of the connection stays, and so does the socket.
CloseTls ==
  /\ pc = "closing"
  /\ m_connected' = FALSE
  /\ \/ /\ stream.state = "open"
        /\ stream' = [stream EXCEPT !.state = "closed"] /\ m_host' = None
        /\ AfterClose(Ok(None)) /\ UNCHANGED faults
     \/ /\ IF stream.state = "open" /\ ~server.eof THEN Fault ELSE UNCHANGED faults
        /\ AfterClose(Err("shutdown")) /\ UNCHANGED <<stream, m_host>>
  /\ UNCHANGED <<secure, dest, req, redirect_count, calls, server, done>>

-----------------------------------------------------------------------------
(* Requests *)

SendRequest(id, method, target) ==
  /\ Idle
  /\ req' = [id |-> id, method |-> method, target |-> target, want |-> stream.peer,
             meant |-> target]
  /\ redirect_count' = 0
  /\ done' = [i \in 1..id |-> IF i \in DOMAIN done THEN done[i] ELSE 0]
  /\ BeginSend
  /\ UNCHANGED <<secure, m_connected, m_host, m_buffer, stream, dest, server, faults>>

\* handle_request_error: only the end of the connection clears m_connected.
HandleRequestError(kind) ==
  /\ m_connected' = (m_connected /\ kind # "eof")
  /\ Return(Err(CASE kind = "timeout" -> "response_timeout"
                  [] kind = "eof"     -> "connection_closed"
                  [] OTHER            -> "send_failed"))

Write ==
  /\ pc = "writing"
  /\ IF stream.state = "open"
       THEN /\ server' = [server EXCEPT !.todo = req, !.reply = None]
            /\ pc' = "reading"
            /\ UNCHANGED <<m_connected, inner, result>>
       ELSE HandleRequestError("other") /\ UNCHANGED server
  /\ UNCHANGED <<secure, m_host, m_buffer, stream, dest, req, redirect_count, calls, done, faults>>

\* Wrong: the count stays what it was.
NextCountKept == redirect_count
NextCount == redirect_count + 1

\* do_send_request_with_redirects after an answer: the answer goes to the
\* caller, or the request is made again where the answer points.
FollowRedirect(response) ==
  LET to  == ParseLocation(response.location)
      get == ShouldConvertToGet(response.status, req.method)
  IN  IF redirect_count >= MaxRedirects
        THEN Return(Err("too_many_redirects")) /\ UNCHANGED <<req, redirect_count, dest>>
      ELSE IF response.location = None
        THEN Return(Err("invalid_redirect")) /\ UNCHANGED <<req, redirect_count, dest>>
      ELSE IF to.https # secure
        THEN /\ Return(Err(IF secure THEN "downgrade_forbidden" ELSE "https_required"))
             /\ UNCHANGED <<req, redirect_count, dest>>
      ELSE /\ req' = [req EXCEPT !.target = to.target,
                                 !.method = IF get THEN "get" ELSE @,
                                 !.want = response.location.addr,
                                 !.meant = response.location.means]
           /\ redirect_count' = NextCount
           /\ dest' = to.addr
           /\ IF Elsewhere(to)
                THEN pc' = "redirecting" /\ inner' = TRUE /\ UNCHANGED result
                ELSE IF m_connected' THEN pc' = "writing" /\ UNCHANGED <<inner, result>>
                                     ELSE Return(Err("not_connected"))

\* The close() between the answer and the connect() that follows a redirect.
Reconnect ==
  /\ pc = "redirecting"
  /\ BeginClose
  /\ UNCHANGED <<secure, dest, req, redirect_count, calls, server, done, faults>>

HandleResponse(response) ==
  /\ IF response.keep \/ secure
       THEN UNCHANGED <<m_connected, stream>>
       ELSE \* need_eof: the server closes, and so does the client
            m_connected' = FALSE /\ stream' = [stream EXCEPT !.state = "closed"]
  /\ IF IsRedirectStatus(response.status) /\ Follow
       THEN FollowRedirect(response)
       ELSE Return(Ok(response)) /\ UNCHANGED <<req, redirect_count, dest>>

ReadResponse ==
  /\ pc = "reading" /\ server.reply # None
  /\ server' = [server EXCEPT !.reply = None]
  /\ IF server.reply.whole
       THEN /\ HandleResponse([server.reply EXCEPT !.id = IF m_buffer = None THEN @ ELSE m_buffer])
            /\ m_buffer' = None
       ELSE /\ server.eof
            /\ HandleRequestError("other")
            /\ m_buffer' = server.reply.id
            /\ UNCHANGED <<stream, req, redirect_count, dest>>
  /\ UNCHANGED <<secure, m_host, calls, done, faults>>

\* The end of the connection before an answer.  TLS may miss its own goodbye.
ReadEof ==
  /\ pc = "reading" /\ server.reply = None /\ server.eof
  /\ \E kind \in IF secure THEN {"eof", "other"} ELSE {"eof"} : HandleRequestError(kind)
  /\ UNCHANGED <<secure, m_host, m_buffer, stream, dest, req, redirect_count, calls, server, done, faults>>

\* The stream closes itself when its time is up.
Timeout ==
  /\ pc \in {"reading", "connecting"}
  /\ IF server.reply # None /\ pc = "reading" /\ ~server.reply.whole THEN UNCHANGED faults ELSE Fault
  /\ stream' = [stream EXCEPT !.state = "closed"]
  /\ IF pc = "connecting"
       THEN /\ m_connected' = FALSE /\ Return(Err("connect_timeout"))
            /\ UNCHANGED <<m_buffer, server>>
       ELSE /\ HandleRequestError("timeout")
            /\ m_buffer' = IF server.reply = None THEN m_buffer ELSE server.reply.id
            /\ server' = [server EXCEPT !.reply = None]
  /\ UNCHANGED <<secure, m_host, dest, req, redirect_count, calls, done>>

-----------------------------------------------------------------------------
(* The other end *)

\* How a server may name the resource m: by all of it, by its path, or by the
\* way from the resource that was asked for.
Ups(path)     == [i \in 1..(Len(path) - 1) |-> ".."]
Locations(at) ==
  LET named(form, a, tls, path, m) ==
        [form |-> form, addr |-> a, https |-> tls, path |-> path, means |-> m]
  IN  {None}
        \cup {named("absolute", a, secure, m, m) : a \in Addrs, m \in Resources}
        \cup {named("absolute", at.peer, ~secure, m, m) : m \in Resources}
        \cup {named("rooted", at.peer, secure, <<"x", ".."  >> \o m, m) : m \in Resources}
        \cup {named("relative", at.peer, secure, Ups(at.target) \o m, m) : m \in Resources}

Reply(status, keep, whole, location, body) ==
  [id |-> server.todo.id, status |-> status, keep |-> keep, whole |-> whole,
   location |-> location, body |-> body]

Answer(reply, eof) == server' = [todo |-> None, reply |-> reply, eof |-> eof]

CarryOut == done' = [done EXCEPT ![server.todo.id] = @ + 1]

\* A server carries out what it does not answer with a fault or something else.
Responds(bodies) ==
  \E b \in bodies, keep \in BOOLEAN :
    /\ Answer(Reply(200, keep, TRUE, None, b), ~keep)
    /\ IF b \in {"fault", "flat_fault", "junk"} THEN UNCHANGED done ELSE CarryOut
    /\ UNCHANGED faults

Redirects ==
  \E status \in {302, 307}, keep \in BOOLEAN,
     loc \in Locations([peer |-> stream.peer, target |-> server.todo.target]) :
    /\ Answer(Reply(status, keep, TRUE, loc, None), ~keep)
    /\ UNCHANGED <<done, faults>>

Rejects ==
  \E status \in {401, 500} :
    /\ Answer(Reply(status, TRUE, TRUE, None, "fault"), FALSE)
    /\ UNCHANGED <<done, faults>>

\* It breaks off in an answer, or goes without one.
BreaksOff ==
  /\ Fault /\ CarryOut
  /\ \/ \E eof \in BOOLEAN : Answer(Reply(200, TRUE, FALSE, None, "full"), eof)
     \/ server' = [Quiet EXCEPT !.eof = TRUE]

Serve(bodies) ==
  /\ server.todo # None /\ ~server.eof /\ stream.state = "open"
  /\ Responds(bodies) \/ Redirects \/ Rejects \/ BreaksOff
  /\ UNCHANGED <<secure, m_connected, m_host, m_buffer, stream, pc, dest, req,
                 redirect_count, inner, result, calls>>

\* The server closes a connection on which nothing goes on.
ServerCloses ==
  /\ stream.state = "open" /\ ~server.eof /\ server.todo = None /\ server.reply = None
  /\ Fault
  /\ server' = [server EXCEPT !.eof = TRUE]
  /\ UNCHANGED <<secure, m_connected, m_host, m_buffer, stream, pc, dest, req,
                 redirect_count, inner, result, calls, done>>

ClientStep ==
  \/ Resolve \/ OpenStream \/ Handshake \/ CloseTls
  \/ Write \/ ReadResponse \/ ReadEof \/ Timeout \/ Reconnect

-----------------------------------------------------------------------------
\* What a call returns is the answer to its own request: what is left of an
\* earlier answer, given up at a timeout or broken off, is never taken for it.
OwnAnswer ==
  pc = "done" /\ result.ok /\ result.value # None => result.value.id = req.id

\* A request is on a connection to the very host and port it is for, and asks
\* for the resource that the server named, in whatever form it did.
RedirectReached ==
  server.todo # None =>
    /\ server.todo.want = stream.peer
    /\ server.todo.target = server.todo.meant
=============================================================================
