------------------------- MODULE RtspServerSession -------------------------
(***************************************************************************)
(* nxnet/rtsp/rtsp_server_session.cpp: one RTSP client of the server.      *)
(*                                                                         *)
(* read_loop() reads requests from the socket and handles all that are in  *)
(* its buffer before it reads again; no handler waits for anything.  PLAY  *)
(* registers the transports of the tracks with a media session, and PAUSE, *)
(* TEARDOWN and close() take them away again.  Responses go through the    *)
(* write serializer of the socket, here the WriteChannel it implements,    *)
(* behind the strand they are posted to.  The io_context has one thread.   *)
(***************************************************************************)
EXTENDS Integers, Sequences

CONSTANTS Media,        \* the media sessions of the registry
          NoMedia,      \* a null m_media_session
          TrackCount,   \* track_count() of each media session
          Channels,     \* interleaved channels: 256 in the code (uint8_t)
          MaxRequests,  \* bound: requests of the client
          MaxBatch,     \* bound: requests in the receive buffer
          Habits        \* what the client may do besides, see below

(***************************************************************************)
(* "other path": DESCRIBE of another path after the first SETUP;           *)
(* "setup again": SETUP of a track that is playing; "reuse": requests in   *)
(* the buffer behind a TEARDOWN; "malformed": a Content-Length that        *)
(* std::stoull refuses.                                                    *)
(***************************************************************************)
ASSUME SessionAssumption ==
    /\ NoMedia \notin Media
    /\ TrackCount \in [Media -> Nat]
    /\ Channels \in Nat \ {0}
    /\ MaxRequests \in Nat
    /\ MaxBatch \in Nat
    /\ Habits \subseteq {"other path", "setup again", "reuse", "malformed"}

VARIABLES
    running,      \* m_running
    media,        \* m_media_session
    identified,   \* m_session_id is not empty
    setups,       \* m_track_setups: the transport of each track, {} or {t}
    state,        \* m_state
    nextChannel,  \* m_next_interleaved_channel
    socketOpen,   \* m_socket->is_open()
    peer,         \* the client still has its end open
    loop,         \* read_loop(): "reading", "read" (the read has completed, its
                  \* resumption is queued), "handling", "ended", "died"; or
                  \* "crashed": a null media session was used
    buffered,     \* complete requests read and not handled
    registered,   \* transports the media sessions know: [media, track, transport]
    transports,   \* transports created so far
    lost,         \* history: registrations the session has lost sight of
    handled,      \* requests handled so far
    posted,       \* responses posted to the strand of the serializer
    accepted,     \* WriteChannel: responses in the queue, and those before them
    wire,         \* WriteChannel: responses the client has received
    active        \* WriteChannel: the serializer's m_active

sessionVars == <<running, media, identified, setups, state, nextChannel, registered,
                 transports, lost>>
loopVars  == <<loop, buffered, handled>>
writeVars == <<posted, accepted, wire, active>>
vars == <<sessionVars, loopVars, writeVars, socketOpen, peer>>

Response == [to : Nat, code : {200, 404, 405, 455, 461}]
Serializer == INSTANCE WriteChannel WITH Entry <- Response, Garbage <- "garbage",
                                         open <- active

Init ==
    /\ running = TRUE       \* start() has run
    /\ media = NoMedia
    /\ identified = FALSE
    /\ setups = <<>>
    /\ state = "Connected"
    /\ nextChannel = 0
    /\ socketOpen = TRUE
    /\ peer = TRUE
    /\ loop = "reading"
    /\ buffered = 0
    /\ registered = {}
    /\ transports = 0
    /\ lost = {}
    /\ handled = 0
    /\ posted = <<>>
    /\ Serializer!Init

-----------------------------------------------------------------------------
(***************************************************************************)
(* on_teardown() for every transport, and close(), which the read loop,    *)
(* TEARDOWN, the server and the destructor call.                           *)
(***************************************************************************)
Registration(i, t) == [media |-> media, track |-> i, transport |-> t]
Mine == UNION {{Registration(i, t) : t \in setups[i]} : i \in 1..Len(setups)}

\* Mutated form of Release, see below.
ReleaseNothing == UNCHANGED <<registered, setups>>

Release ==
    IF media = NoMedia
    THEN UNCHANGED <<registered, setups>>
    ELSE /\ registered' = registered \ Mine
         /\ setups' = [i \in 1..Len(setups) |-> {}]

Shut == running' = FALSE /\ active' = FALSE /\ socketOpen' = FALSE

(***************************************************************************)
(* Mutated forms, for the check that every property can fail.              *)
(***************************************************************************)
EndWithoutClose == UNCHANGED <<running, registered, setups, active, socketOpen>> /\ loop' = "ended"

Close == IF running
         THEN Release /\ Shut
         ELSE UNCHANGED <<running, registered, setups, active, socketOpen>>

-----------------------------------------------------------------------------
(***************************************************************************)
(* Handling one request.  Handle(code) answers it and goes on; a handler   *)
(* that changes the session says how.                                      *)
(***************************************************************************)
Pending == loop = "handling" /\ buffered > 0

Answer(code) ==
    posted' = IF active THEN Append(posted, [to |-> handled + 1, code |-> code]) ELSE posted

Done ==
    /\ Pending
    /\ handled' = handled + 1
    /\ buffered' = buffered - 1
    /\ loop' = loop

(* What this step makes unreachable: on_teardown() of it never comes. *)
Strays == lost' = lost \cup (registered' \ Mine')

Handle(code) ==
    /\ Done
    /\ Answer(code)
    /\ UNCHANGED <<accepted, wire, active, socketOpen, peer>>

(* OPTIONS, and a method that is none of the six. *)
HandleOther ==
    /\ \E code \in {200, 405} : Handle(code)
    /\ UNCHANGED sessionVars

(* A request parse_request() makes nothing of is dropped. *)
HandleGarbled ==
    /\ Done
    /\ UNCHANGED <<sessionVars, writeVars, socketOpen, peer>>

(***************************************************************************)
(* DESCRIBE.                                                               *)
(***************************************************************************)
Keep(m) == UNCHANGED <<setups, identified>>

HandleDescribe(m) ==
    /\ "other path" \in Habits \/ m = media \/ ~identified
    /\ Handle(200)
    /\ media' = m
    /\ state' = "Described"
    /\ Keep(m)
    /\ UNCHANGED <<running, nextChannel, registered, transports>>
    /\ Strays

HandleDescribeUnknown ==
    /\ "other path" \in Habits \/ ~identified
    /\ Handle(404)
    /\ media' = NoMedia
    /\ UNCHANGED <<running, identified, setups, state, nextChannel, registered, transports>>
    /\ Strays

(***************************************************************************)
(* SETUP of a track.  The list of tracks is made at the first SETUP.       *)
(***************************************************************************)
EmptySetups == [i \in 1..TrackCount[media] |-> {}]
SetupsNow == IF identified THEN setups ELSE EmptySetups
AfterSetup == "Ready"
NextChannel == (nextChannel + 2) % Channels

HandleSetupUnbound ==
    /\ media = NoMedia
    /\ Handle(455)
    /\ UNCHANGED sessionVars

(* No such track (404), or not over TCP (461). *)
HandleSetupRefused ==
    /\ media # NoMedia
    /\ \E code \in {404, 461} :
         /\ code = 461 => Len(SetupsNow) > 0
         /\ Handle(code)
    /\ identified' = TRUE
    /\ setups' = SetupsNow
    /\ UNCHANGED <<running, media, state, nextChannel, registered, transports, lost>>

HandleSetup(i) ==
    /\ "setup again" \in Habits \/ \A r \in registered : r.transport \notin SetupsNow[i]
    /\ Handle(200)
    /\ identified' = TRUE
    /\ transports' = transports + 1
    /\ setups' = [SetupsNow EXCEPT ![i] = {[id |-> transports + 1, channel |-> nextChannel]}]
    /\ nextChannel' = NextChannel
    /\ state' = AfterSetup
    /\ UNCHANGED <<running, media, registered>>
    /\ Strays

(***************************************************************************)
(* PLAY and PAUSE.                                                         *)
(***************************************************************************)
MayPlay == media # NoMedia /\ state \in {"Ready", "Playing", "Paused"}

(* Nobody takes away what a request behind close() registers: close() has  *)
(* run and does nothing the second time.                                   *)
HandlePlay ==
    /\ MayPlay
    /\ Handle(200)
    /\ registered' = registered \cup Mine
    /\ lost' = IF running THEN lost ELSE lost \cup Mine
    /\ state' = "Playing"
    /\ UNCHANGED <<running, media, identified, setups, nextChannel, transports>>

HandlePlayRefused ==
    /\ ~MayPlay
    /\ Handle(455)
    /\ UNCHANGED sessionVars

UsesNull == media = NoMedia /\ \E i \in 1..Len(setups) : setups[i] # {}
AfterPause == "Ready"

HandlePause ==
    /\ state = "Playing"
    /\ ~UsesNull
    /\ Handle(200)
    /\ registered' = registered \ Mine
    /\ state' = AfterPause
    /\ UNCHANGED <<running, media, identified, setups, nextChannel, transports, lost>>

HandlePauseOfNull ==
    /\ state = "Playing"
    /\ UsesNull
    /\ Pending
    /\ loop' = "crashed"
    /\ UNCHANGED <<sessionVars, buffered, handled, writeVars, socketOpen, peer>>

HandlePauseRefused ==
    /\ state # "Playing"
    /\ Handle(455)
    /\ UNCHANGED sessionVars

(***************************************************************************)
(* TEARDOWN: the transports go, the response is submitted, close().        *)
(***************************************************************************)
HandleTeardown ==
    /\ "reuse" \in Habits \/ buffered = 1
    /\ Done
    /\ Answer(200)
    /\ state' = "Disconnected"
    /\ Release
    /\ Shut
    /\ UNCHANGED <<media, identified, nextChannel, transports, lost, accepted, wire, peer>>

(* Content-Length is not a number: the exception leaves read_loop() at once. *)
HandleMalformed ==
    /\ "malformed" \in Habits
    /\ Pending
    /\ loop' = "died"
    /\ UNCHANGED <<sessionVars, buffered, handled, writeVars, socketOpen, peer>>

Request ==
    \/ HandleOther \/ HandleGarbled \/ HandleMalformed
    \/ (\E m \in Media : HandleDescribe(m)) \/ HandleDescribeUnknown
    \/ HandleSetupUnbound \/ HandleSetupRefused \/ (media # NoMedia /\ \E i \in 1..Len(SetupsNow) : HandleSetup(i))
    \/ HandlePlay \/ HandlePlayRefused
    \/ HandlePause \/ HandlePauseOfNull \/ HandlePauseRefused
    \/ HandleTeardown

-----------------------------------------------------------------------------
(***************************************************************************)
(* read_loop().  A completed async_read_some() is resumed later, and what  *)
(* it has read is handled whoever has closed the session in the meantime.  *)
(***************************************************************************)
Read ==
    /\ loop = "reading"
    /\ socketOpen
    /\ peer
    /\ \E n \in 1..MaxBatch : handled + n <= MaxRequests /\ buffered' = n
    /\ loop' = "read"
    /\ UNCHANGED <<sessionVars, handled, writeVars, socketOpen, peer>>

ReadResumes ==
    /\ loop = "read"
    /\ loop' = "handling"
    /\ UNCHANGED <<sessionVars, buffered, handled, writeVars, socketOpen, peer>>

ReadAgain ==
    /\ loop = "handling"
    /\ buffered = 0
    /\ running /\ socketOpen
    /\ loop' = "reading"
    /\ UNCHANGED <<sessionVars, buffered, handled, writeVars, socketOpen, peer>>

EndLoop == Close /\ loop' = "ended"

\* async_read_some fails at the end of the connection.
ReadFails ==
    /\ loop = "reading"
    /\ ~socketOpen \/ ~peer
    /\ EndLoop
    /\ UNCHANGED <<media, identified, state, nextChannel, transports, lost, buffered, handled,
                   posted, accepted, wire, peer>>

LeaveLoop ==
    /\ loop = "handling"
    /\ buffered = 0
    /\ ~(running /\ socketOpen)
    /\ EndLoop
    /\ UNCHANGED <<media, identified, state, nextChannel, transports, lost, buffered, handled,
                   posted, accepted, wire, peer>>

-----------------------------------------------------------------------------
(***************************************************************************)
(* The surroundings.                                                       *)
(***************************************************************************)
\* RtspServer::stop() calls close() while the loop waits for the socket, or
\* for its turn to handle what it has read.
ServerCloses ==
    /\ loop \in {"reading", "read"}
    /\ running
    /\ Close
    /\ UNCHANGED <<media, identified, state, nextChannel, transports, lost, loopVars, posted,
                   accepted, wire, peer>>

\* The last share is released, ~RtspServerSession calls close().
Destroyed ==
    /\ loop = "died"
    /\ running
    /\ Close
    /\ UNCHANGED <<media, identified, state, nextChannel, transports, lost, loopVars, posted,
                   accepted, wire, peer>>

\* A media session gives a slow client up: TcpInterleavedTransport::close().
TransportCloses ==
    /\ registered # {}
    /\ active
    /\ loop # "handling"
    /\ active' = FALSE
    /\ socketOpen' = FALSE
    /\ UNCHANGED <<sessionVars, loopVars, posted, accepted, wire, peer>>

PeerLeaves ==
    /\ peer
    /\ peer' = FALSE
    /\ UNCHANGED <<sessionVars, loopVars, writeVars, socketOpen>>

\* The strand: a response posted is queued, unless the channel has been shut.
Queue == accepted' = Append(accepted, Head(posted)) /\ Serializer!Accept
Drop == UNCHANGED <<accepted, wire, active>>

RunPosted ==
    /\ loop # "handling"
    /\ posted # <<>>
    /\ IF active THEN Queue ELSE Drop
    /\ posted' = Tail(posted)
    /\ UNCHANGED <<sessionVars, loopVars, socketOpen, peer>>

Deliver ==
    /\ socketOpen
    /\ peer
    /\ active
    /\ Serializer!Deliver
    /\ UNCHANGED <<sessionVars, loopVars, posted, socketOpen, peer>>

-----------------------------------------------------------------------------
ReadLoop ==
    /\ loop \in {"reading", "read", "handling"}
    /\ Request \/ Read \/ ReadResumes \/ ReadAgain \/ ReadFails \/ LeaveLoop
Next == ReadLoop \/ ServerCloses \/ Destroyed \/ TransportCloses \/ PeerLeaves
        \/ RunPosted \/ Deliver

Spec == Init /\ [][Next]_vars

(***************************************************************************)
(* The io_context runs the loop once it can go on, and the strand; the     *)
(* network takes what is written.  Nobody has to send, leave or close.     *)
(***************************************************************************)
Fairness ==
    /\ WF_vars(ReadResumes \/ Request \/ ReadAgain \/ LeaveLoop)
    /\ WF_vars(ReadFails)
    /\ WF_vars(RunPosted)
    /\ WF_vars(Deliver)
FairSpec == Spec /\ Fairness

-----------------------------------------------------------------------------
Transport == [id : 1..MaxRequests, channel : 0..(Channels - 1)]

TypeOK ==
    /\ running \in BOOLEAN
    /\ media \in Media \cup {NoMedia}
    /\ identified \in BOOLEAN
    /\ setups \in Seq(SUBSET Transport)
    /\ state \in {"Disconnected", "Connected", "Described", "Ready", "Playing"}
    /\ nextChannel \in 0..(Channels - 1)
    /\ socketOpen \in BOOLEAN
    /\ peer \in BOOLEAN
    /\ loop \in {"reading", "read", "handling", "ended", "died", "crashed"}
    /\ buffered \in 0..MaxBatch
    /\ registered \subseteq [media : Media, track : Nat, transport : Transport]
    /\ transports \in Nat
    /\ lost \subseteq [media : Media, track : Nat, transport : Transport]
    /\ handled \in 0..MaxRequests
    /\ posted \in Seq(Response)
    /\ accepted \in Seq(Response)
    /\ wire \in Seq(Response)
    /\ active \in BOOLEAN

(***************************************************************************)
(* What is registered can still be taken away: it is the transport its     *)
(* track has now, with the media session that is bound now.  on_teardown() *)
(* of anything else never comes (lines 246-256, 639-646, 667-677).         *)
(***************************************************************************)
RegisteredIsMine == registered \subseteq Mine

(***************************************************************************)
(* To RtspServer the session is one of SessionLife, whatever the client    *)
(* does: it can be closed at any time, and is once read_loop() has ended.  *)
(***************************************************************************)
LifeNow ==
    CASE loop \in {"reading", "read", "handling", "crashed"} -> IF running THEN "running" ELSE "closing"
      [] loop = "died" -> IF running THEN "stranded" ELSE "over"
      [] loop = "ended" -> IF running THEN "never closed" ELSE "over"
Life == INSTANCE SessionLife WITH life <- LifeNow
IsSessionLife == Life!Spec

(***************************************************************************)
(* When the session is over, however it ended and whatever the client and  *)
(* the server did, no media session sends to it any more (line 666:        *)
(* "remove all transports from the media session") but for what the        *)
(* session had lost sight of: registrations with the media session before  *)
(* a DESCRIBE (472), those of a transport that a SETUP has replaced (569), *)
(* and those of a PLAY that was handled behind close() (605).              *)
(***************************************************************************)
NothingElseRegistered == LifeNow = "over" => registered \subseteq lost

\* Without the exception.
NothingLeftRegistered == LifeNow = "over" => registered = {}

\* on_play() is only called for tracks the media session has.
TracksKnown == \A r \in registered : r.track <= TrackCount[r.media]

(***************************************************************************)
(* Two transports of the client never share an interleaved channel: each   *)
(* has its own even one for RTP and the odd one after it for RTCP.         *)
(***************************************************************************)
ChannelPair(t) == {t.channel, t.channel + 1}
ChannelsDistinct ==
    /\ \A r, q \in registered : r.transport # q.transport =>
         ChannelPair(r.transport) \cap ChannelPair(q.transport) = {}
    /\ \A i, j \in 1..Len(setups) : \A t \in setups[i], u \in setups[j] :
         t # u => ChannelPair(t) \cap ChannelPair(u) = {}

\* While the session is playing, it plays every track that is set up.
PlayingIsComplete == state = "Playing" => registered = Mine

(***************************************************************************)
(* Line 145: once the socket is closed on either side, read_loop() comes   *)
(* to an error and close() is called, unless an exception or the null      *)
(* media session of a PAUSE ended the loop first.                          *)
(***************************************************************************)
SessionEnds ==
    (~socketOpen \/ ~peer) ~> (loop \in {"died", "crashed"} \/ (loop = "ended" /\ ~running))

(***************************************************************************)
(* The response to a TEARDOWN (line 681) is sent through the serializer    *)
(* like the others (line 721): it reaches a client that stays.             *)
(***************************************************************************)
Answered(n) == \E i \in 1..Len(wire) : wire[i].to = n
TeardownAnswered ==
    state = "Disconnected" /\ loop = "ended" /\ posted = <<>> /\ peer => Answered(handled)
=============================================================================
