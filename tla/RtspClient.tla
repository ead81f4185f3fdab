----------------------------- MODULE RtspClient -----------------------------
(***************************************************************************)
(* RtspClient over RtspConnection (nxnet/rtsp).  The coroutines of one      *)
(* program run on one thread: the calls of the application, one after the   *)
(* other, and a receive loop for each play().  Both read the one socket     *)
(* into the one receive buffer and take out of it what the other waits for: *)
(* a call skips interleaved frames, the loop skips answers.                 *)
(*                                                                         *)
(* The stream is a sequence of units: an answer is one, an interleaved      *)
(* frame two, so that a read may end inside it.                             *)
(***************************************************************************)
EXTENDS Integers, SdpParser, DigestAuth

CONSTANTS
  Servers,      \* what the server of each connection describes and asks for
  Habits,       \* what the application and the server do beyond the plain case
  MaxConnects, MaxCalls, MaxPlays, MaxStreamed, MaxMishaps    \* bounds

ASSUME ClientAssumption ==
  /\ {MaxConnects, MaxCalls, MaxPlays, MaxStreamed, MaxMishaps} \subseteq Nat
  \* lines: its description; tracks: the media it means by it, each with its URL
  \* and codec; wants: the challenge it stands for, and asks: the
  \* WWW-Authenticate headers it says it with, to which it adds its nonce.
  /\ DOMAIN Servers = 1..MaxConnects
  /\ \A c \in DOMAIN Servers :
       /\ DOMAIN Servers[c] = {"lines", "tracks", "wants", "asks"}
       /\ Servers[c].tracks \in Seq(Range(Servers[c].tracks)) \ {<<>>}
       /\ DOMAIN Servers[c].wants = DOMAIN NoChallenge
       /\ Servers[c].asks \in Seq(Range(Servers[c].asks))
       /\ \A ask \in Range(Servers[c].asks) :
            DOMAIN ask = {"scheme", "params"} /\ ask.params \in Seq(Range(ask.params))
  \* teardown_paused: TEARDOWN after PAUSE.  play_again: PLAY after PAUSE, and
  \* DESCRIBE after TEARDOWN.  setup_again: SETUP after one that failed half-way.
  \* late_frame: frames follow the answer to PAUSE or TEARDOWN.
  /\ Habits \subseteq {"teardown_paused", "play_again", "setup_again", "late_frame"}

VARIABLES
  session,     \* m_session.state()
  sid, sdp,    \* m_session.session_id() and the media of m_session.sdp()
  tracks,      \* m_tracks: channel, type, codec and payload type of each
  auth, auto,  \* m_auth_provider and m_use_auto_auth
  receiving, active,       \* m_receiving, m_receive_loop_active
  connected, open,         \* m_connected and m_socket of the connection
  unread, pending,         \* m_recv_buffer from m_recv_offset on, m_pending_consume
  call, loop,  \* the call and the receive loops under way
  thread,      \* the coroutine that runs, if one does
  reads,       \* the async_read_some operations on the socket, oldest first
  ready,       \* the completed ones whose coroutine has not run yet
  wire,        \* what the server has sent and no read has taken
  peer,        \* the server
  got,         \* the frames given to the receivers
  told,        \* calls of the disconnect callback
  overdue,     \* history: the requests of this connection that a timer has
               \* given up with the answer still to come
  torn,        \* history: bytes of this connection have gone to the buffer
               \* behind later ones, or nowhere
  cseq, streamed, plays, calls, connects, mishaps     \* counters

media      == <<sid, sdp, tracks>>
memberVars == <<session, media, auth, auto, receiving, active>>
connVars   == <<connected, open, unread, pending>>
history    == <<overdue, torn>>
ioVars     == <<reads, ready, wire>>
bounds     == <<plays, calls, connects>>
clientVars == <<memberVars, connVars, ioVars, bounds, call, loop, thread, peer,
                got, told, cseq, streamed, mishaps, history>>

-----------------------------------------------------------------------------
(* RtspSessionState *)
kDisconnected == 0
kConnected    == 1
kDescribed    == 2
kReady        == 3
kPlaying      == 4
kPaused       == 5

Caller == 0
Loops  == 1..MaxPlays
Nobody == MaxPlays + 1
Idle   == thread = Nobody

\* An answer with its CSeq, its WWW-Authenticate and Session headers and its
\* body; a frame, of which a read may take the first part alone.
Answer(c, status) == [part |-> "answer", n |-> c, status |-> status,
                      asks |-> <<>>, sid |-> 0, body |-> <<>>]
FrameHead(n, c) == [part |-> "head", n |-> n, chan |-> c]
FrameTail(n, c) == [part |-> "tail", n |-> n, chan |-> c]

\* RtspParser::parse_response.  The headers are a map: of those with one name
\* the last is kept.
NoAsk == [scheme |-> "", params |-> <<>>]
ParseResponse(text) ==
  [status |-> text.status, cseq |-> text.n, sid |-> text.sid, body |-> text.body,
   ask |-> IF text.asks = <<>> THEN NoAsk ELSE Last(text.asks)]
NoAnswer == ParseResponse(Answer(0, 0))

\* The same for all, as if interleaved_channel were not counted on.
OneChannel(i) == 0

\* The interleaved channel setup() asks for with the i-th SETUP.
RtpChannel(i) == 2 * (i - 1)

NoCall == [op |-> "none", at |-> 0, pc |-> "none", retried |-> FALSE,
           answer |-> NoAnswer]
CallOf(op, pc) == [NoCall EXCEPT !.op = op, !.at = 1, !.pc = pc]

Requests(op) ==
  CASE op = "describe" -> <<"OPTIONS", "DESCRIBE">>
    [] op = "setup"    -> [i \in DOMAIN sdp |-> "SETUP"]
    [] op = "play"     -> <<"PLAY">>
    [] op = "pause"    -> <<"PAUSE">>
    [] op = "teardown" -> <<"TEARDOWN">>

\* build_control_url.  The URL of the server is the first part of every URL.
Url == <<"rtsp://camera/live">>
IsAbsolute(control) == control # <<>> /\ Head(control) = Head(Url)
BuildControlUrl(control) == IF IsAbsolute(control) THEN control ELSE Url \o control

\* The codec and payload type setup() takes from the rtpmap of a video: the
\* first entry, by payload type, with a codec it knows.
VideoCodecs == {"H264", "H265", "JPEG"}
Track(m, chan) ==
  LET known == IF m.type = "video"
               THEN {pt \in DOMAIN m.rtpmap : m.rtpmap[pt] \in VideoCodecs} ELSE {}
      pt == IF known = {} THEN 0 ELSE Min(known) IN
  [chan |-> chan, type |-> m.type, pt |-> pt,
   codec |-> IF known = {} THEN "none" ELSE m.rtpmap[pt]]

User == "user:password"

IsConnected == connected /\ open

\* socket().cancel(): every read on the socket ends with operation_aborted.
AbortedRead(who) == [who |-> who, how |-> "aborted", data |-> <<>>]
Aborted(rs) == [i \in DOMAIN rs |-> AbortedRead(rs[i])]
CancelReads ==
  /\ ready' = ready \o Aborted(reads)
  /\ reads' = <<>>

\* The place of the first complete answer in the buffer, 0 without one:
\* find_response_end looks for the end of a header wherever it is.
AnswerAt(s) ==
  LET at == {i \in DOMAIN s : s[i].part = "answer"} IN
  IF at = {} THEN 0 ELSE CHOOSE i \in at : \A j \in at : i <= j
Behind(s, n) == SubSeq(s, n + 1, Len(s))

\* Whether the buffer begins with something whole.
WholeFrame(s) == Len(s) >= 2 /\ s[1].part = "head"
CanTake(s) == WholeFrame(s)
              \/ (s # <<>> /\ s[1].part # "head" /\ AnswerAt(s) > 0)

-----------------------------------------------------------------------------
NewPeer == [up |-> TRUE, asked |-> <<>>, serving |-> FALSE, served |-> FALSE,
            chans |-> {}, sid |-> 0, nonce |-> 0, nc |-> 0]

ClientInit ==
  /\ session = kDisconnected /\ sid = 0 /\ sdp = <<>> /\ tracks = <<>>
  /\ auth = NoProvider /\ auto = FALSE
  /\ receiving = FALSE /\ active = FALSE
  /\ connected = FALSE /\ open = FALSE /\ unread = <<>> /\ pending = 0
  /\ call = NoCall /\ loop = [l \in Loops |-> "none"] /\ thread = Nobody
  /\ reads = <<>> /\ ready = <<>> /\ wire = <<>>
  /\ peer = [NewPeer EXCEPT !.up = FALSE]
  /\ got = <<>> /\ told = 0 /\ overdue = {} /\ torn = FALSE /\ cseq = 0 /\ streamed = 0
  /\ plays = 0 /\ calls = 0 /\ connects = 0 /\ mishaps = 0

-----------------------------------------------------------------------------
(* The calls of the application. *)

\* set_credentials() and set_auth_provider(), which an application calls before
\* the rest, or neither of them.
SetCredentials ==
  /\ Idle /\ call = NoCall /\ connects = 0
  /\ auth = NoProvider
  /\ auto' = TRUE
  /\ UNCHANGED <<session, media, auth, receiving, active, connVars, ioVars,
                 bounds, call, loop, thread, peer, got, told, cseq, streamed,
                 mishaps, history>>

SetAuthProvider ==
  /\ Idle /\ call = NoCall /\ connects = 0
  /\ ~auto
  /\ auth' = [NoProvider EXCEPT !.scheme = "basic"] /\ auto' = FALSE
  /\ UNCHANGED <<session, media, receiving, active, connVars, ioVars, bounds,
                 call, loop, thread, peer, got, told, cseq, streamed, mishaps, history>>

\* connect() makes a new connection object; it fails for a server that is not
\* there, or too late.
Connect ==
  /\ Idle /\ call = NoCall /\ session = kDisconnected
  /\ connects < MaxConnects /\ connects' = connects + 1
  /\ \E ok \in BOOLEAN :
       /\ ok \/ mishaps < MaxMishaps
       /\ mishaps' = IF ok THEN mishaps ELSE mishaps + 1
       /\ connected' = ok /\ open' = ok
       /\ session' = IF ok THEN kConnected ELSE session
       /\ peer' = [NewPeer EXCEPT !.up = ok, !.nonce = peer.nonce + 1]
  /\ unread' = <<>> /\ pending' = 0 /\ wire' = <<>>
  /\ streamed' = 0 /\ got' = <<>> /\ told' = 0 /\ torn' = FALSE
  /\ UNCHANGED <<media, auth, auto, receiving, active, call, loop, thread, reads,
                 ready, cseq, plays, calls, overdue>>

\* The checks at the head of the calls.
Allowed(op) ==
  CASE op = "describe" -> session >= kConnected
    [] op = "setup"    -> session >= kDescribed
    [] op = "play"     -> session >= kReady
    [] op = "pause"    -> session = kPlaying
    [] op = "teardown" -> session >= kReady
    [] op = "close"    -> TRUE

\* What an application does that calls them in their order.
Orderly(op) ==
  CASE op = "describe" -> session = kConnected
                          /\ (~peer.served \/ "play_again" \in Habits)
    [] op = "setup"    -> session = kDescribed
                          /\ (peer.chans = {} \/ "setup_again" \in Habits)
    [] op = "play"     -> \/ session = kReady
                          \/ (session = kPaused /\ "play_again" \in Habits)
    [] op = "pause"    -> TRUE
    [] op = "teardown" -> session # kPaused \/ "teardown_paused" \in Habits
    [] op = "close"    -> session # kDisconnected

Called(op) ==
  /\ Idle /\ call = NoCall
  /\ Allowed(op) /\ Orderly(op)
  /\ calls < MaxCalls /\ calls' = calls + 1

Request(op) ==
  /\ Called(op)
  /\ op = "play" => plays < MaxPlays
  /\ call' = CallOf(op, "send") /\ thread' = Caller
  /\ UNCHANGED <<memberVars, connVars, ioVars, plays, connects, loop, peer,
                 got, told, cseq, streamed, mishaps, history>>

\* teardown() wakes the loop only if m_receiving said that one receives.
WakesNone == FALSE
WakesLoop == receiving /\ IsConnected

Teardown ==
  /\ Called("teardown")
  /\ receiving' = FALSE
  /\ IF WakesLoop THEN CancelReads ELSE UNCHANGED <<reads, ready>>
  /\ call' = CallOf("teardown", "wait")
  /\ UNCHANGED <<session, media, auth, auto, active, connVars, wire, plays,
                 connects, loop, thread, peer, got, told, cseq, streamed,
                 mishaps, history>>

Close ==
  /\ Called("close")
  /\ receiving' = FALSE
  /\ IF active /\ IsConnected THEN CancelReads ELSE UNCHANGED <<reads, ready>>
  /\ call' = CallOf("close", "wait")
  /\ UNCHANGED <<session, media, auth, auto, active, connVars, wire, plays,
                 connects, loop, thread, peer, got, told, cseq, streamed,
                 mishaps, history>>

\* m_tracks.clear()
NoTracks == <<>>

\* The loop that sleeps until m_receive_loop_active is false.
LoopIsOver == ~active

TeardownGoesOn ==
  /\ Idle /\ call.op = "teardown" /\ call.pc = "wait" /\ LoopIsOver
  /\ call' = [call EXCEPT !.pc = "send"] /\ thread' = Caller
  /\ UNCHANGED <<memberVars, connVars, ioVars, bounds, loop, peer, got, told,
                 cseq, streamed, mishaps, history>>

CloseGoesOn ==
  /\ Idle /\ call.op = "close" /\ call.pc = "wait" /\ LoopIsOver
  /\ tracks' = NoTracks /\ sid' = 0 /\ sdp' = <<>>
  /\ session' = kDisconnected /\ cseq' = 0
  /\ connected' = FALSE /\ open' = FALSE /\ unread' = <<>> /\ pending' = 0
  /\ CancelReads /\ wire' = <<>>
  /\ peer' = [NewPeer EXCEPT !.up = FALSE, !.nonce = peer.nonce]
  /\ call' = NoCall /\ overdue' = {}
  /\ UNCHANGED <<auth, auto, receiving, active, bounds, loop, thread, got, told,
                 streamed, mishaps, torn>>

-----------------------------------------------------------------------------
(* send_request and receive_response. *)

Returns == call' = NoCall /\ thread' = Nobody

\* The request with its CSeq, its headers and, after apply_auth, credentials.
RequestText(credentials) ==
  LET method == Requests(call.op)[call.at]
      setup == call.op = "setup" IN
  [n |-> cseq + 1, method |-> method,
   uri |-> IF setup THEN BuildControlUrl(sdp[call.at].control) ELSE Url,
   chan |-> IF setup THEN RtpChannel(call.at) ELSE 0,
   sid |-> IF call.op = "describe" THEN 0 ELSE sid, auth |-> credentials]

Credentials(p, method, uri) ==
  IF MakesHeader(p) THEN Header(p, User, cseq + 1, method, uri) ELSE NoHeader

\* apply_auth and send(): the request goes out, or the connection is found
\* broken.
Send ==
  /\ thread = Caller /\ call.pc = "send"
  /\ cseq' = cseq + 1
  /\ auth' = Counted(auth)
  /\ \/ /\ IsConnected
        /\ call' = [call EXCEPT !.pc = "scan"]
        /\ peer' = IF peer.up
                   THEN LET r == RequestText(NoHeader) IN
                        [peer EXCEPT !.asked = Append(@,
                           [r EXCEPT !.auth = Credentials(auth', r.method, r.uri)])]
                   ELSE peer
        /\ UNCHANGED connected
     \/ /\ IsConnected => ~peer.up
        /\ connected' = FALSE
        /\ call' = [call EXCEPT !.pc = "failed"]
        /\ UNCHANGED peer
  /\ UNCHANGED <<session, media, auto, receiving, active, open, unread, pending,
                 ioVars, bounds, loop, thread, got, told, streamed, mishaps, history>>

\* receive_response looks at what the buffer begins with: a whole frame is
\* skipped, an answer is taken.
SkipFrame ==
  /\ thread = Caller /\ call.pc = "scan"
  /\ WholeFrame(unread)
  /\ unread' = Behind(unread, 2)
  /\ UNCHANGED <<memberVars, connected, open, pending, ioVars, bounds, call, loop,
                 thread, peer, got, told, cseq, streamed, mishaps, history>>

AnswerLeft(s, n) == s
TakenUpTo(s, n) == Behind(s, n)

\* In a buffer that begins inside a frame, what comes up to the end of the next
\* answer is taken for one and cannot be parsed.
TakeAnswer ==
  /\ thread = Caller /\ call.pc = "scan"
  /\ unread # <<>> /\ unread[1].part # "head" /\ AnswerAt(unread) > 0
  /\ unread' = TakenUpTo(unread, AnswerAt(unread))
  /\ call' = IF AnswerAt(unread) = 1
             THEN [call EXCEPT !.pc = "answer", !.answer = ParseResponse(unread[1])]
             ELSE [call EXCEPT !.pc = "failed"]
  /\ UNCHANGED <<memberVars, connected, open, pending, ioVars, bounds, loop,
                 thread, peer, got, told, cseq, streamed, mishaps, history>>

\* Nothing whole in the buffer: read_with_timeout.
AwaitAnswer ==
  /\ thread = Caller /\ call.pc = "scan"
  /\ ~CanTake(unread)
  /\ call' = [call EXCEPT !.pc = "reading"]
  /\ reads' = Append(reads, Caller) /\ thread' = Nobody
  /\ UNCHANGED <<memberVars, connVars, ready, wire, bounds, loop, peer, got, told,
                 cseq, streamed, mishaps, history>>

\* The timer of the call fires, and cancels the read beside it, unless that has
\* completed and waits for its turn.  The bound on mishaps is one on timers that
\* fire before an answer still to come, too.
GivenUp(s, mine) == IF mine = {} THEN s ELSE RemoveAt(s, CHOOSE i \in mine : TRUE)

TooSoon ==
  \/ Caller \in Range(reads) /\ (peer.asked # <<>> \/ wire # <<>>)
  \/ \E i \in DOMAIN ready : ready[i].who = Caller /\ ready[i].how = "data"

Timeout ==
  /\ Idle /\ call.pc = "reading"
  /\ TooSoon => mishaps < MaxMishaps
  /\ mishaps' = IF TooSoon THEN mishaps + 1 ELSE mishaps
  /\ LET mine == {i \in DOMAIN reads : reads[i] = Caller} IN
       /\ reads' = GivenUp(reads, mine)
       /\ ready' = IF mine = {} THEN ready ELSE Append(ready, AbortedRead(Caller))
  /\ call' = [call EXCEPT !.pc = "late"]
  /\ UNCHANGED <<memberVars, connVars, wire, bounds, loop, thread, peer, got, told,
                 cseq, streamed, history>>

HoldsAnswer(s, n) == \E i \in DOMAIN s : s[i].part = "answer" /\ s[i].n = n
AnswerToCome ==
  \/ \E i \in DOMAIN peer.asked : peer.asked[i].n = cseq
  \/ HoldsAnswer(wire, cseq) \/ HoldsAnswer(unread, cseq)
  \/ \E i \in DOMAIN ready : HoldsAnswer(ready[i].data, cseq)

\* When the read has ended too, the request is given up, and with it whatever
\* the read has taken from the socket; cancel() ends the reads of the loops.
GiveUp ==
  /\ Idle /\ call.pc = "late"
  /\ LET mine == {i \in DOMAIN ready : ready[i].who = Caller} IN
       /\ mine \subseteq {1}
       /\ ready' = GivenUp(ready, mine) \o Aborted(reads)
       /\ torn' = (torn \/ \E i \in mine : ready[i].data # <<>>)
  /\ reads' = <<>>
  /\ overdue' = IF AnswerToCome THEN overdue \cup {cseq} ELSE overdue
  /\ call' = [call EXCEPT !.pc = "failed"] /\ thread' = Caller
  /\ UNCHANGED <<memberVars, connVars, wire, bounds, loop, peer, got, told, cseq,
                 streamed, mishaps>>

-----------------------------------------------------------------------------
(* What the calls make of the answers. *)

\* send_request_with_auth: once more, with a provider made of the challenge.
MayRetry == call.answer.status = 401 /\ ~call.retried /\ auto
            /\ ParsesAsChallenge(call.answer.ask)

RetryWithAuth ==
  /\ thread = Caller /\ call.pc = "answer" /\ MayRetry
  /\ auth' = ProviderFor(ParsedChallenge(call.answer.ask))
  /\ call' = [call EXCEPT !.pc = "send", !.retried = TRUE, !.answer = NoAnswer]
  /\ UNCHANGED <<session, media, auto, receiving, active, connVars, ioVars,
                 bounds, loop, thread, peer, got, told, cseq, streamed,
                 mishaps, history>>

Succeeded == thread = Caller /\ call.pc = "answer" /\ call.answer.status = 200
Failed ==
  /\ thread = Caller
  /\ \/ call.pc = "failed"
     \/ /\ call.pc = "answer" /\ call.answer.status # 200
        /\ ~MayRetry

NextRequest == call' = [CallOf(call.op, "send") EXCEPT !.at = call.at + 1]

OptionsDone ==
  /\ Succeeded \/ Failed
  /\ call.op = "describe" /\ call.at = 1
  /\ NextRequest
  /\ UNCHANGED <<memberVars, connVars, ioVars, bounds, loop, thread, peer, got,
                 told, cseq, streamed, mishaps, history>>

\* A description that does not parse changes nothing.
DescribeDone ==
  /\ Succeeded /\ call.op = "describe" /\ call.at = 2
  /\ IF Parses(call.answer.body)
     THEN session' = kDescribed /\ sdp' = SdpSession(call.answer.body).media
     ELSE UNCHANGED <<session, sdp>>
  /\ Returns
  /\ UNCHANGED <<sid, tracks, auth, auto, receiving, active, connVars, ioVars,
                 bounds, loop, peer, got, told, cseq, streamed, mishaps, history>>

\* parse_session_header; an answer without the header leaves the id as it is.
SessionIdOf(answer) == IF answer.sid = 0 THEN sid ELSE answer.sid

SetupDone ==
  /\ Succeeded /\ call.op = "setup"
  /\ sid' = SessionIdOf(call.answer)
  /\ tracks' = Append(tracks, Track(sdp[call.at], RtpChannel(call.at)))
  /\ IF call.at < Len(sdp)
     THEN NextRequest /\ UNCHANGED <<session, thread>>
     ELSE session' = kReady /\ Returns
  /\ UNCHANGED <<sdp, auth, auto, receiving, active, connVars, ioVars, bounds,
                 loop, peer, got, told, cseq, streamed, mishaps, history>>

\* play() starts a receive loop, whether or not one is still there; co_spawn
\* runs it at once, up to its first read.
PlayDone ==
  /\ Succeeded /\ call.op = "play"
  /\ session' = kPlaying /\ receiving' = TRUE /\ active' = TRUE
  /\ plays' = plays + 1 /\ loop' = [loop EXCEPT ![plays + 1] = "top"]
  /\ call' = NoCall /\ thread' = plays + 1
  /\ UNCHANGED <<media, auth, auto, connVars, ioVars, calls, connects, peer,
                 got, told, cseq, streamed, mishaps, history>>

PauseDone ==
  /\ Succeeded /\ call.op = "pause"
  /\ receiving' = FALSE /\ session' = kPaused
  /\ Returns
  /\ UNCHANGED <<media, auth, auto, active, connVars, ioVars, bounds, loop,
                 peer, got, told, cseq, streamed, mishaps, history>>

\* A TEARDOWN that fails is ignored.
TeardownDone ==
  /\ Succeeded \/ Failed
  /\ call.op = "teardown"
  /\ tracks' = NoTracks /\ session' = kConnected
  /\ Returns
  /\ UNCHANGED <<sid, sdp, auth, auto, receiving, active, connVars, ioVars,
                 bounds, loop, peer, got, told, cseq, streamed, mishaps, history>>

CallFails ==
  /\ Failed /\ call.op # "teardown" /\ <<call.op, call.at>> # <<"describe", 1>>
  /\ Returns
  /\ UNCHANGED <<memberVars, connVars, ioVars, bounds, loop, peer, got, told,
                 cseq, streamed, mishaps, history>>

-----------------------------------------------------------------------------
(* receive_interleaved_loop and receive_interleaved_frame. *)

\* The frame given out before is consumed by the next call only.  Past the end
\* of the buffer the behaviour is undefined.
LoopTop(l) ==
  /\ thread = l /\ loop[l] = "top"
  /\ IF receiving /\ IsConnected
     THEN /\ unread' = Behind(unread, pending) /\ pending' = 0
          /\ loop' = [loop EXCEPT ![l] = IF pending <= Len(unread) THEN "scan"
                                                               ELSE "astray"]
     ELSE /\ loop' = [loop EXCEPT ![l] = "exit"]
          /\ UNCHANGED <<unread, pending>>
  /\ UNCHANGED <<memberVars, connected, open, ioVars, bounds, call, thread, peer,
                 got, told, cseq, streamed, mishaps, history>>

\* What is no frame is skipped up to the end of the next answer.
LoopSkips(l) ==
  /\ thread = l /\ loop[l] = "scan"
  /\ unread # <<>> /\ unread[1].part # "head" /\ AnswerAt(unread) > 0
  /\ unread' = Behind(unread, AnswerAt(unread))
  /\ UNCHANGED <<memberVars, connected, open, pending, ioVars, bounds, call, loop,
                 thread, peer, got, told, cseq, streamed, mishaps, history>>

\* A whole frame goes to the receiver of its channel, and stays in the buffer.
LoopFrame(l) ==
  /\ thread = l /\ loop[l] = "scan"
  /\ WholeFrame(unread)
  /\ pending' = 2
  /\ got' = IF \E i \in DOMAIN tracks : tracks[i].chan = unread[1].chan
            THEN Append(got, <<unread[1], unread[2]>>) ELSE got
  /\ loop' = [loop EXCEPT ![l] = "top"]
  /\ UNCHANGED <<memberVars, connected, open, unread, ioVars, bounds, call,
                 thread, peer, told, cseq, streamed, mishaps, history>>

LoopReads(l) ==
  /\ thread = l /\ loop[l] = "scan"
  /\ ~CanTake(unread)
  /\ loop' = [loop EXCEPT ![l] = "reading"]
  /\ reads' = Append(reads, l) /\ thread' = Nobody
  /\ UNCHANGED <<memberVars, connVars, ready, wire, bounds, call, peer, got, told,
                 cseq, streamed, mishaps, history>>

Tells == receiving

LoopExit(l) ==
  /\ thread = l /\ loop[l] = "exit"
  /\ told' = IF Tells THEN told + 1 ELSE told
  /\ active' = FALSE
  /\ loop' = [loop EXCEPT ![l] = "ended"] /\ thread' = Nobody
  /\ UNCHANGED <<session, media, auth, auto, receiving, connVars, ioVars,
                 bounds, call, peer, got, cseq, streamed, mishaps, history>>

-----------------------------------------------------------------------------
(* The socket: reads are served in the order they were begun. *)

Arrive ==
  /\ reads # <<>> /\ wire # <<>>
  /\ \E k \in 1..Len(wire) :
       /\ ready' = Append(ready, [who |-> reads[1], how |-> "data",
                                  data |-> SubSeq(wire, 1, k)])
       /\ wire' = Behind(wire, k)
  /\ reads' = Tail(reads)
  /\ UNCHANGED <<memberVars, connVars, bounds, call, loop, thread, peer, got,
                 told, cseq, streamed, mishaps, history>>

EndOfStream ==
  /\ reads # <<>> /\ wire = <<>> /\ ~peer.up
  /\ ready' = Append(ready, [who |-> reads[1], how |-> "eof", data |-> <<>>])
  /\ reads' = Tail(reads)
  /\ UNCHANGED <<memberVars, connVars, wire, bounds, call, loop, thread, peer,
                 got, told, cseq, streamed, mishaps, history>>

InFront(s, data)  == data \o s
Appended(s, data) == s \o data

\* The oldest completed read is that of a receive loop, which goes on.
Resume ==
  /\ Idle /\ ready # <<>> /\ Head(ready).who # Caller
  /\ LET r == Head(ready) IN
       /\ ready' = Tail(ready)
       /\ unread' = Appended(unread, r.data)
       /\ thread' = r.who
       /\ connected' = (connected /\ r.how # "eof")
       /\ loop' = [loop EXCEPT ![r.who] = IF r.how = "data" THEN "scan" ELSE "exit"]
  /\ UNCHANGED <<memberVars, open, pending, reads, wire, bounds, call, peer, got,
                 told, cseq, streamed, mishaps, history>>

\* It is that of a call, async_read_some || timer: if it succeeds it cancels the
\* timer, and the call goes on when the end of that wait comes, behind all that
\* is ready; if it fails the call is left to the timer.
CallHasRead ==
  /\ Idle /\ call.pc = "reading" /\ ready # <<>> /\ Head(ready).who = Caller
  /\ IF Head(ready).how = "data"
     THEN /\ ready' = Append(Tail(ready), Head(ready))
          /\ call' = [call EXCEPT !.pc = "joined"]
          /\ torn' = (torn \/ \E i \in DOMAIN Tail(ready) : Tail(ready)[i].data # <<>>)
     ELSE ready' = Tail(ready) /\ UNCHANGED <<call, torn>>
  /\ UNCHANGED <<memberVars, connVars, reads, wire, bounds, loop, thread, peer, got,
                 told, cseq, streamed, mishaps, overdue>>

CallResumes ==
  /\ Idle /\ call.pc = "joined" /\ ready # <<>> /\ Head(ready).who = Caller
  /\ ready' = Tail(ready)
  /\ unread' = Appended(unread, Head(ready).data)
  /\ call' = [call EXCEPT !.pc = "scan"] /\ thread' = Caller
  /\ UNCHANGED <<memberVars, connected, open, pending, reads, wire, bounds, loop,
                 peer, got, told, cseq, streamed, mishaps, history>>

-----------------------------------------------------------------------------
(* The server. *)

This == Servers[connects]

\* Whether the server takes the credentials of r for the right ones.
Accepts(p, r) ==
  LET w == [This.wants EXCEPT !.nonce = p.nonce] IN
  CASE w.scheme = "none"   -> TRUE
    [] w.scheme = "basic"  -> r.auth.scheme = "basic" /\ r.auth.response = <<User>>
    [] w.scheme = "digest" ->
         /\ r.auth.scheme = "digest" /\ r.auth.nonce = w.nonce
         /\ w.qop # "" => r.auth.nc > p.nc
         /\ r.auth.response = Response(w, User, r.auth.nc, r.auth.cnonce,
                                       r.method, r.uri)

TracksAt(uri) == {i \in DOMAIN This.tracks : This.tracks[i].uri = uri}

StatusOf(p, r) ==
  CASE ~Accepts(p, r) -> 401
    [] r.method \notin {"OPTIONS", "DESCRIBE"} /\ r.sid # p.sid -> 454
    [] r.method = "SETUP" /\ TracksAt(r.uri) = {} -> 404
    [] OTHER -> 200

SetUpOn(p, r) == {[track |-> i, chan |-> r.chan] : i \in TracksAt(r.uri)}
                 \cup {c \in p.chans : c.track \notin TracksAt(r.uri)}

Served(p, r) ==
  CASE r.method = "SETUP"    -> [p EXCEPT !.chans = SetUpOn(p, r), !.sid = connects]
    [] r.method = "PLAY"     -> [p EXCEPT !.serving = TRUE, !.served = TRUE]
    [] r.method = "PAUSE"    -> [p EXCEPT !.serving = FALSE]
    [] r.method = "TEARDOWN" -> [p EXCEPT !.serving = FALSE, !.chans = {}, !.sid = 0]
    [] OTHER                 -> p

\* The challenges of a 401, the digest ones with the nonce of the moment.
AsksWith(nonce) ==
  [i \in DOMAIN This.asks |->
     IF This.asks[i].scheme = "digest"
     THEN [This.asks[i] EXCEPT !.params = Append(@, Parameter("nonce", nonce))]
     ELSE This.asks[i]]

AnswerTo(r, status, nonce, garbled) ==
  [Answer(r.n, status) EXCEPT
     !.asks = IF status = 401 THEN AsksWith(nonce) ELSE <<>>,
     !.sid = IF r.method = "SETUP" /\ status = 200 THEN connects ELSE 0,
     !.body = IF r.method = "DESCRIBE" /\ status = 200 /\ ~garbled
              THEN This.lines ELSE <<>>]

\* A server answers as it should; or with an error, with a description no one
\* can read, or after it has replaced its nonce.
ServerAnswers ==
  /\ peer.up /\ peer.asked # <<>>
  /\ \E odd \in {"no", "error", "garbled", "renewed"} :
       LET r == Head(peer.asked)
           o == [peer EXCEPT !.asked = Tail(@)]
           p == IF odd = "renewed" THEN [o EXCEPT !.nonce = @ + 1, !.nc = 0] ELSE o
           status == IF odd = "error" THEN 500 ELSE StatusOf(p, r)
           q == IF Accepts(p, r) THEN [p EXCEPT !.nc = r.auth.nc] ELSE p IN
       /\ odd # "no" => mishaps < MaxMishaps
       /\ odd = "garbled" => r.method = "DESCRIBE" /\ status = 200
       /\ odd = "renewed" => This.wants.scheme = "digest"
       /\ mishaps' = IF odd = "no" THEN mishaps ELSE mishaps + 1
       /\ peer' = IF status = 200 THEN Served(q, r) ELSE q
       /\ wire' = Append(wire, AnswerTo(r, status, p.nonce, odd = "garbled"))
  /\ UNCHANGED <<memberVars, connVars, reads, ready, bounds, call, loop, thread,
                 got, told, cseq, streamed, history>>

ServerIgnores ==
  /\ peer.up /\ peer.asked # <<>>
  /\ mishaps < MaxMishaps /\ mishaps' = mishaps + 1
  /\ peer' = [peer EXCEPT !.asked = Tail(@)]
  /\ UNCHANGED <<memberVars, connVars, ioVars, bounds, call, loop, thread, got,
                 told, cseq, streamed, history>>

ServerSends ==
  /\ peer.up /\ streamed < MaxStreamed /\ streamed' = streamed + 1
  /\ peer.serving \/ (peer.served /\ "late_frame" \in Habits)
  /\ \E c \in IF peer.chans = {} THEN {RtpChannel(1)}
                                ELSE {d.chan : d \in peer.chans} :
       wire' = wire \o <<FrameHead(streamed + 1, c), FrameTail(streamed + 1, c)>>
  /\ UNCHANGED <<memberVars, connVars, reads, ready, bounds, call, loop, thread,
                 peer, got, told, cseq, mishaps, history>>

ServerLeaves ==
  /\ peer.up /\ mishaps < MaxMishaps /\ mishaps' = mishaps + 1
  /\ peer' = [peer EXCEPT !.up = FALSE, !.asked = <<>>, !.serving = FALSE]
  /\ UNCHANGED <<memberVars, connVars, ioVars, bounds, call, loop, thread, got,
                 told, cseq, streamed, history>>

-----------------------------------------------------------------------------
App == Connect \/ SetCredentials \/ SetAuthProvider
       \/ (\E op \in {"describe", "setup", "play", "pause"} : Request(op))
       \/ Teardown \/ Close
CallStep ==
  \/ TeardownGoesOn \/ CloseGoesOn \/ Send \/ SkipFrame \/ TakeAnswer
  \/ AwaitAnswer \/ RetryWithAuth \/ OptionsDone \/ DescribeDone
  \/ SetupDone \/ PlayDone \/ PauseDone \/ TeardownDone \/ CallFails
LoopStep(l) == LoopTop(l) \/ LoopSkips(l) \/ LoopFrame(l)
               \/ LoopReads(l) \/ LoopExit(l)
Resumes == Resume \/ CallHasRead \/ CallResumes \/ GiveUp
Socket == Arrive \/ EndOfStream \/ Resumes
Server == ServerAnswers \/ ServerIgnores \/ ServerSends \/ ServerLeaves

ClientNext == App \/ CallStep \/ Timeout \/ (\E l \in Loops : LoopStep(l))
              \/ Socket \/ Server

ClientSpec == ClientInit /\ [][ClientNext]_clientVars

\* The executor runs what is ready, a timer that is not cancelled expires, and
\* the kernel hands over what has arrived.  The server answers a request, in time
\* or not, or never.
FairClientSpec ==
  /\ ClientSpec
  /\ WF_clientVars(CallStep) /\ WF_clientVars(Timeout)
  /\ WF_clientVars(\E l \in Loops : LoopStep(l))
  /\ WF_clientVars(Arrive \/ EndOfStream) /\ WF_clientVars(Resumes)
  /\ WF_clientVars(ServerAnswers \/ ServerIgnores)

-----------------------------------------------------------------------------
(* Properties. *)

\* What goes to the receivers are the server's frames, whole, on the track they
\* were sent for, each once and in their order, and the loop never reads past
\* the end of the buffer: although calls and loops take turns in cutting one
\* stream, a frame stays in the buffer while it is in use, and reads end inside
\* frames.  This lasts until the bytes of a call's read are overtaken by those
\* of the loop's next one (rtsp_connection.cpp:305), or the timer drops them.
InStep ==
  /\ \A l \in Loops : loop[l] # "astray"
  /\ \A i \in DOMAIN got :
       /\ got[i][2] = FrameTail(got[i][1].n, got[i][1].chan)
       /\ i > 1 => got[i][1].n > got[i - 1][1].n
StreamInStep == ~torn => InStep

\* A call is given the answer to its own request, and not the 401 it has already
\* reacted to; or else an answer that was overdue, or one behind it: CSeq is not
\* compared (rtsp_connection.cpp:148).
OwnAnswer ==
  call.pc = "answer" =>
    \/ call.answer.cseq = cseq
    \/ call.answer.cseq < cseq /\ \E n \in overdue : n <= call.answer.cseq

\* A server means by its description what the parser makes of it, and asks for
\* the challenge it means; the headers have no nonce but the one it adds.
DescribedAsMeant ==
  \A c \in DOMAIN Servers :
    LET means == Servers[c].tracks
        parsed == SdpSession(Servers[c].lines).media IN
    /\ DOMAIN parsed = DOMAIN means
    /\ \A i \in DOMAIN means : /\ BuildControlUrl(parsed[i].control) = means[i].uri
                              /\ Track(parsed[i], 0).codec = means[i].codec
    /\ \A i, j \in DOMAIN means : means[i].uri = means[j].uri => i = j

AsksAsMeant ==
  \A c \in DOMAIN Servers :
    LET asks == Servers[c].asks  wants == Servers[c].wants IN
    /\ \A ask \in Range(asks) : \A i \in DOMAIN ask.params : ask.params[i].key # "nonce"
    /\ wants.scheme = "digest" /\ asks # <<>> /\ Last(asks).scheme = "digest" =>
         ParsedChallenge(Last(asks)) = [wants EXCEPT !.nonce = 0]

\* A session that is set up has one track for each medium the server described,
\* with its codec, on a channel of its own, which is the one the server sends
\* that medium on: the description, the control URLs and the answers to several
\* requests have to be put together right.  An answer that was overdue may
\* be taken for that of a later request.
TracksAsAgreed ==
  overdue = {} /\ session >= kReady /\ call = NoCall /\ peer.up =>
    /\ Len(tracks) = Len(This.tracks)
    /\ peer.chans = {[track |-> i, chan |-> tracks[i].chan] : i \in DOMAIN tracks}
    /\ \A i \in DOMAIN tracks : tracks[i].codec = This.tracks[i].codec
    /\ \A i, j \in DOMAIN tracks : i # j => tracks[i].chan # tracks[j].chan

\* A server that has the same user and password refuses credentials only because
\* they are for a challenge it has replaced: not for a count it has seen, nor
\* for what a connection before this one was asked.
RightCredentialsServe ==
  overdue = {} /\ call.pc = "answer" /\ call.answer.status = 401 /\ MakesHeader(auth) =>
    \/ This.wants.scheme # auth.scheme
    \/ ParsedChallenge(call.answer.ask).nonce # auth.challenge.nonce

\* Every call returns, whatever the server does, unless an answer was overdue or
\* the stream is torn: then the loop may go on to another read after the cancel()
\* of teardown() or close(), which ends only those begun (rtsp_client.cpp:389),
\* and they wait for it for good.
CallsReturn == call.op # "none" ~> call.op = "none" \/ torn \/ overdue # {}

=============================================================================
