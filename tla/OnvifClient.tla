----------------------------- MODULE OnvifClient -----------------------------
(***************************************************************************)
(* The users of an HTTP client: an application of its own, or OnvifClient   *)
(* with its SoapClient, which turns every call of its user into SOAP        *)
(* requests to a camera and reads their answers.                            *)
(***************************************************************************)
EXTENDS HttpClient

CONSTANTS
  Camera,         \* the address of the camera
  Cameras,        \* what cameras there are: [media, ptz, profiles]
  MaxOnvifCalls   \* bound: how many calls a user of OnvifClient makes

ASSUME OnvifAssumption == Camera \in Addrs

Codecs == {"h264", "h265", "mjpeg", "mpeg4", "unknown"}

\* What is known of a video encoder.
ASSUME ProfilesAssumption ==
  /\ None \notin {"main", "second"}
  /\ \A c \in Cameras : \A p \in ToSet(c.profiles) :
       /\ "video" \in DOMAIN p
       /\ p.video # None =>
            /\ p.video.codec \in Codecs \union {None}
            /\ {p.video.width, p.video.height, p.video.bitrate} \subseteq Nat \union {None}

VARIABLES
  user,           \* "app" or "onvif"
  camera,
  soap_host,      \* m_host and m_port of SoapClient
  m_capabilities, m_media, m_ptz, m_initialized,
  call,           \* the call in progress: [name, phase, todo, target, pick, token, id]
  outcome         \* of the last call: [name, ok, value, error, id]

onvifVars == <<soap_host, m_capabilities, m_media, m_ptz, m_initialized, call, outcome>>
systemVars == <<httpVars, user, camera, onvifVars>>

OnvifInit ==
  /\ HttpInit
  /\ user \in {"app", "onvif"}
  /\ secure \in (IF user = "app" THEN BOOLEAN ELSE {FALSE})
  /\ IF user = "app" THEN camera = None ELSE camera \in Cameras
  /\ soap_host = None /\ m_capabilities = None /\ m_media = None /\ m_ptz = None
  /\ m_initialized = FALSE /\ call = None /\ outcome = None

-----------------------------------------------------------------------------
(* An application with a client of its own *)

Called ==
  /\ calls < (IF user = "app" THEN MaxCalls ELSE MaxOnvifCalls)
  /\ calls' = calls + 1

AppStep ==
  /\ user = "app" /\ Called
  /\ \/ Connect(Camera)
     \/ Close
     \/ \E method \in {"get", "post"}, r \in Resources :
          SendRequest(Len(done) + 1, method, r)
  /\ UNCHANGED <<user, camera, onvifVars>>

-----------------------------------------------------------------------------
(* Answers of the camera *)

\* No document is no XML. The values of a fault are looked up right below it;
\* where SOAP 1.2 has them, inside of Code, they are not found.
ParseSoapResponse(body) ==
  IF body \in {"junk", None} THEN Err("kSoapParseError")
  ELSE Ok([is_fault       |-> body \in {"fault", "flat_fault"},
           body           |-> body,
           fault_code     |-> IF body = "flat_fault" THEN "Sender" ELSE "",
           fault_subcode  |-> IF body = "flat_fault" THEN "NotAuthorized" ELSE ""])

ConvertSoapFault(r) ==
  CASE r.fault_subcode = "NotAuthorized"                    -> "kNotAuthorized"
    [] r.fault_subcode = "ActionNotSupported"               -> "kActionNotSupported"
    [] r.fault_subcode \in {"InvalidArgVal", "InvalidArgs"} -> "kInvalidArguments"
    [] r.fault_subcode = "OperationProhibited"              -> "kOperationProhibited"
    [] r.fault_code = "VersionMismatch"                     -> "kSoapVersionMismatch"
    [] r.fault_code = "MustUnderstand"                      -> "kSoapMustUnderstand"
    [] OTHER                                                -> "kSoapFault"

\* SoapClient::send_request from the HTTP answer on.
SoapAnswer(http) ==
  IF ~http.ok THEN http
  ELSE LET soap == ParseSoapResponse(http.value.body)
       IN  IF http.value.status = 401 THEN Err("kNotAuthorized")
           ELSE IF http.value.status >= 400
             THEN IF soap.ok /\ soap.value.is_fault THEN Err(ConvertSoapFault(soap.value))
                                                    ELSE Err("kNetworkError")
           ELSE IF ~soap.ok THEN soap
           ELSE IF soap.value.is_fault THEN Err(ConvertSoapFault(soap.value))
           ELSE Ok(soap.value.body)

NoXAddr    == <<>>
Unreadable == <<"?">>     \* an address that parse_uri refuses

\* A body is "full", or "lacking" in what the caller looks for.
ParseTime(body) ==
  IF body = "lacking" THEN Err("kInvalidDateTime") ELSE Ok(None)

\* Every part of the capabilities may be missing.
ParseCapabilities(body) ==
  IF body = "lacking" THEN Ok([media |-> NoXAddr, ptz |-> None])
                      ELSE Ok([media |-> camera.media, ptz |-> camera.ptz])

ParseDeviceInformation(body) == Ok([filled |-> body = "full"])

Known(field, default) == IF field = None THEN default ELSE field

\* A width without a height is not taken.
ParseVideoEncoderConfig(node) ==
  LET sized == None \notin {node.width, node.height}
  IN  [codec   |-> Known(node.codec, "unknown"),
       width   |-> IF sized THEN node.width ELSE 0,
       height  |-> IF sized THEN node.height ELSE 0,
       bitrate |-> Known(node.bitrate, 0)]

\* A profile may have no video encoder, and stays one.
ParseProfiles(body) ==
  IF body = "lacking" \/ camera.profiles = <<>> THEN Err("kNoProfile")
  ELSE Ok([profiles |-> [i \in DOMAIN camera.profiles |->
         LET p == camera.profiles[i]
         IN  IF p.video = None THEN p ELSE [p EXCEPT !.video = ParseVideoEncoderConfig(@)]]])

ParseStreamUri(body, token) ==
  IF body = "lacking" THEN Err("kInvalidResponse")
                      ELSE Ok([host |-> "inside", port |-> 8554, token |-> token])

ParseSetPreset(body) == IF body = "lacking" THEN Err("kInvalidResponse") ELSE Ok([preset |-> "new"])

ParsePresets(body) == IF body = "lacking" THEN Ok([presets |-> {}]) ELSE Ok([presets |-> {"new"}])

-----------------------------------------------------------------------------
(* Choosing a profile *)

CodecScore == [h264 |-> 10000, h265 |-> 9000, mjpeg |-> 5000, mpeg4 |-> 5000, unknown |-> 0]

ProfileScore(v) ==
  CodecScore[v.codec] + (v.width * v.height) \div 1000 + v.bitrate \div 100000

AbsDiff(a, b) == IF a < b THEN b - a ELSE a - b

\* 1000 / (1 + distance / 100), to within a point: the root is rounded.
ResolutionBonus(v, width, height) ==
  LET w == AbsDiff(v.width, width)
      h == AbsDiff(v.height, height)
      d == CHOOSE n \in 0..2500 : n * n <= w * w + h * h /\ w * w + h * h < (n + 1) * (n + 1)
  IN  IF w = 0 /\ h = 0 THEN 5000 ELSE 100000 \div (100 + d)

Preferred == [main |-> <<1920, 1080>>, second |-> <<1280, 720>>]

Score(p, purpose) ==
  ProfileScore(p.video) + ResolutionBonus(p.video, Preferred[purpose][1], Preferred[purpose][2])

\* Wrong: the list is sorted the other way round.
SelectWorstProfiles(profiles, purpose) ==
  LET scored == {p \in ToSet(profiles) : p.video # None}
  IN  {p \in scored : \A q \in scored : IF purpose = "main" THEN Score(q, purpose) >= Score(p, purpose)
                                                            ELSE Score(q, purpose) <= Score(p, purpose)}
\* The profiles that may come first for the main stream, last for the second:
\* the sort leaves those of one score in any order.
SelectBestProfiles(profiles, purpose) ==
  LET scored == {p \in ToSet(profiles) : p.video # None}
  IN  {p \in scored : \A q \in scored : IF purpose = "main" THEN Score(q, purpose) <= Score(p, purpose)
                                                            ELSE Score(q, purpose) >= Score(p, purpose)}

\* With neither of the two given the address of the camera stays; a host alone
\* takes the port off.
ReplaceUriAuthority(uri, host, port) ==
  IF host = None /\ port = None THEN uri
  ELSE [uri EXCEPT !.host = IF host = None THEN Camera.host ELSE host,
                   !.port = IF port = None THEN 0 ELSE port]

\* Of two sizes of a camera, one that is larger both ways is so by as many
\* pixels as a point is worth.
SizesTell ==
  \A c \in Cameras : \A p, q \in {r \in ToSet(c.profiles) : r.video # None} :
    LET v == ParseVideoEncoderConfig(p.video)
        w == ParseVideoEncoderConfig(q.video)
    IN  w.width > v.width /\ w.height > v.height =>
          w.width * w.height >= v.width * v.height + 1000

-----------------------------------------------------------------------------
(* Calls *)

Finish(r) ==
  /\ call' = None
  /\ outcome' = [name |-> call.name, ok |-> r.ok, value |-> r.value, error |-> r.error,
                 id |-> Len(done)]

Refuse(name, e) ==
  /\ outcome' = [name |-> name, ok |-> FALSE, value |-> None, error |-> e, id |-> 0]
  /\ UNCHANGED <<httpVars, call>>

Free == user = "onvif" /\ call = None /\ calls < MaxOnvifCalls

\* A call for a service, once the client is initialized; todo are its requests.
Request(name, service, todo, pick) ==
  /\ Free
  /\ IF ~m_initialized THEN Refuse(name, "operation_not_permitted")
     ELSE IF service = None THEN Refuse(name, "kServiceNotFound")
     ELSE /\ call' = [name |-> name, phase |-> "next", todo |-> todo, target |-> service,
                      pick |-> pick, token |-> None, id |-> Len(done) + 1]
          /\ calls' = calls + 1 /\ outcome' = None
          /\ UNCHANGED <<secure, m_connected, m_host, m_buffer, stream, pc, dest, req,
                         redirect_count, inner, result, server, done, faults>>
  /\ UNCHANGED <<user, camera, soap_host, m_capabilities, m_media, m_ptz, m_initialized>>

CONSTANT DevicePath    \* the path of the device service

\* A call that connects first.
ConnectCall(name, todo) ==
  /\ Free /\ Called
  /\ call' = [name |-> name, phase |-> "connect", todo |-> todo, target |-> DevicePath,
              pick |-> None, token |-> None, id |-> Len(done) + 1]
  /\ soap_host' = Camera /\ outcome' = None
  /\ Connect(Camera)
  /\ UNCHANGED <<user, camera, m_capabilities, m_media, m_ptz, m_initialized>>

CheckConnection == ConnectCall("check_connection", <<"time">>)
Initialize      == ConnectCall("initialize", <<"time", "capabilities">>)

GetDeviceInformation == Request("get_device_information", DevicePath, <<"information">>, None)
GetProfiles     == Request("get_profiles", m_media, <<"profiles">>, None)
GetStreamUri    == Request("get_stream_uri", m_media, <<"uri">>, None)
GetMainStreamUri   == Request("get_main_stream_uri", m_media, <<"profiles", "uri">>, "main")
GetSecondStreamUri == Request("get_second_stream_uri", m_media, <<"profiles", "uri">>, "second")

ContinuousMove == Request("continuous_move", m_ptz, <<"command">>, None)
StopMove       == Request("stop", m_ptz, <<"command">>, None)
SetPreset      == Request("set_preset", m_ptz, <<"set_preset">>, None)
GetPresets     == Request("get_presets", m_ptz, <<"presets">>, None)
GotoPreset     == Request("goto_preset", m_ptz, <<"command">>, None)
RemovePreset   == Request("remove_preset", m_ptz, <<"command">>, None)
MoveFocus      == Request("move_focus", m_ptz, <<"command">>, None)
MoveIris       == Request("move_iris", m_ptz, <<"command">>, None)

\* ensure_connected: a client that knows that it has lost its connection
\* makes a new one to where it was told to connect.
Ensure ==
  /\ call # None /\ call.phase = "next"
  /\ IF m_connected
       THEN /\ call' = [call EXCEPT !.phase = "answer"]
            /\ SendRequest(call.id, "post", call.target)
            /\ UNCHANGED <<calls, outcome>>
       ELSE /\ call' = [call EXCEPT !.phase = "ensure"]
            /\ Connect(soap_host)
            /\ UNCHANGED <<calls, outcome>>
  /\ UNCHANGED <<user, camera, soap_host, m_capabilities, m_media, m_ptz, m_initialized>>

\* A connect() of the call is over.
AfterConnect ==
  /\ call # None /\ call.phase \in {"connect", "ensure"} /\ pc = "done"
  /\ IF result.ok
       THEN call' = [call EXCEPT !.phase = "next"] /\ UNCHANGED outcome
       ELSE Finish(result)
  /\ UNCHANGED <<httpVars, user, camera, soap_host, m_capabilities, m_media, m_ptz, m_initialized>>

IsPath(xaddr) == xaddr \notin {NoXAddr, Unreadable, None}

\* Where a camera says that its services are, as far as it can be read.
ASSUME CameraAssumption ==
  /\ Plain(DevicePath)
  /\ \A c \in Cameras : \A xaddr \in {c.media, c.ptz} : IsPath(xaddr) => Plain(xaddr)

MediaService(caps) ==
  IF caps.media = NoXAddr THEN Err("kMediaServiceNotFound")
  ELSE IF ~IsPath(caps.media) THEN Err("kInvalidResponse") ELSE Ok(caps.media)

\* A camera without PTZ leaves m_ptz_service as it is, and so does an address
\* that cannot be read.
PtzService(caps) == IF IsPath(caps.ptz) THEN caps.ptz ELSE m_ptz

\* initialize() from the capabilities on: no more awaits on the network.
InitializeServices(caps) ==
  /\ m_capabilities' = caps
  /\ IF MediaService(caps).ok
       THEN /\ m_media' = MediaService(caps).value /\ m_ptz' = PtzService(caps)
            /\ m_initialized' = TRUE
            /\ Finish(Ok(None))
       ELSE Finish(MediaService(caps)) /\ UNCHANGED <<m_media, m_ptz, m_initialized>>

Goes(next) == call' = next /\ UNCHANGED outcome
Same == UNCHANGED <<m_capabilities, m_media, m_ptz, m_initialized>>

\* The answer to the request that was sent, read as that request's service does.
Answered(body) ==
  LET step   == Head(call.todo)
      parsed == CASE step = "time"         -> ParseTime(body)
                  [] step = "capabilities" -> ParseCapabilities(body)
                  [] step = "information"  -> ParseDeviceInformation(body)
                  [] step = "profiles"     -> ParseProfiles(body)
                  [] step = "uri"          -> ParseStreamUri(body, call.token)
                  [] step = "set_preset"   -> ParseSetPreset(body)
                  [] step = "presets"      -> ParsePresets(body)
                  [] OTHER                 -> Ok(None)
      onward == [call EXCEPT !.todo = Tail(@), !.phase = "next", !.id = Len(done) + 1]
  IN  CASE ~parsed.ok -> Finish(parsed) /\ Same
        [] parsed.ok /\ step = "capabilities" -> InitializeServices(parsed.value)
        [] parsed.ok /\ step = "profiles" /\ call.pick # None ->
             /\ LET best == SelectBestProfiles(parsed.value.profiles, call.pick)
                IN  IF best = {} THEN Finish(Err("kNoProfile"))
                    ELSE \E p \in best : Goes([onward EXCEPT !.token = p, !.pick = None])
             /\ Same
        [] parsed.ok /\ step = "uri" ->
             /\ \E where \in {<<None, None>>, <<"outside", None>>, <<None, 554>>} :
                  Finish(Ok(ReplaceUriAuthority(parsed.value, where[1], where[2])))
             /\ Same
        [] OTHER -> (IF Len(call.todo) > 1 THEN Goes(onward) ELSE Finish(parsed)) /\ Same

\* Wrong: a request whose connection was closed under it is sent again.
TakeAnswerRetrying ==
  /\ call # None /\ call.phase = "answer" /\ pc = "done"
  /\ LET soap == SoapAnswer(result)
     IN  IF soap.ok THEN Answered(soap.value)
         ELSE IF soap.error = "connection_closed"
           THEN Goes([call EXCEPT !.phase = "next"]) /\ Same
           ELSE Finish(soap) /\ Same
  /\ UNCHANGED <<httpVars, user, camera, soap_host>>
TakeAnswer ==
  /\ call # None /\ call.phase = "answer" /\ pc = "done"
  /\ LET soap == SoapAnswer(result)
     IN  IF soap.ok THEN Answered(soap.value) ELSE Finish(soap) /\ Same
  /\ UNCHANGED <<httpVars, user, camera, soap_host>>

-----------------------------------------------------------------------------
\* The camera answers SOAP; what became of a POST that was turned into a GET
\* is no SOAP request, and its answer is a page.
CameraStep ==
  /\ Serve(IF user = "app" THEN {"full"}
           ELSE IF server.todo # None /\ server.todo.method = "get" THEN {"junk"}
           ELSE {"full", "lacking", "fault", "flat_fault", "junk"})
  /\ UNCHANGED <<user, camera, onvifVars>>

ClosedIdle == ServerCloses /\ UNCHANGED <<user, camera, onvifVars>>
HttpStep == ClientStep /\ UNCHANGED <<user, camera, onvifVars>>

DeviceCall == CheckConnection \/ Initialize \/ GetDeviceInformation
MediaCall  == GetProfiles \/ GetStreamUri \/ GetMainStreamUri \/ GetSecondStreamUri
PtzCall    == ContinuousMove \/ StopMove \/ SetPreset \/ GetPresets \/ GotoPreset
                \/ RemovePreset \/ MoveFocus \/ MoveIris

OnvifStep == Ensure \/ AfterConnect \/ TakeAnswer

OnvifNext == AppStep \/ DeviceCall \/ MediaCall \/ PtzCall \/ OnvifStep
               \/ HttpStep \/ CameraStep \/ ClosedIdle

OnvifSpec == OnvifInit /\ [][OnvifNext]_systemVars

\* A coroutine that can go on does; the camera takes what it was sent.
OnvifFairSpec == OnvifSpec /\ WF_systemVars(HttpStep) /\ WF_systemVars(OnvifStep) /\ WF_systemVars(CameraStep)

-----------------------------------------------------------------------------
\* Whatever servers answer, redirect to or leave out, a call comes to its end.
CallsReturn ==
  /\ pc \notin {"idle", "done"} ~> Idle
  /\ call # None ~> call = None

\* A call that returns success was carried out by the camera, and no request
\* is carried out twice.
CarriedOutOnce ==
  /\ \A i \in DOMAIN done : done[i] <= 1
  /\ outcome # None /\ outcome.ok => done[outcome.id] = 1

\* An initialized client has the media service that the camera has, and PTZ
\* only of a camera that has it.
InitializedServes ==
  m_initialized =>
    /\ m_media = camera.media /\ IsPath(m_media)
    /\ m_ptz # None => m_ptz = camera.ptz

\* The main stream is of a profile that none of a codec and a bitrate at least
\* as good outdoes in size, up to full HD.
MainIsLargest ==
  outcome # None /\ outcome.ok /\ outcome.name = "get_main_stream_uri" =>
    LET best == outcome.value.token.video
        Rivals == {q \in ToSet(ParseProfiles("full").value.profiles) :
                     /\ q.video # None /\ q.video.bitrate >= best.bitrate
                     /\ CodecScore[q.video.codec] >= CodecScore[best.codec]}
    IN  ~\E q \in Rivals : /\ q.video.width <= 1920 /\ q.video.height <= 1080
                           /\ q.video.width > best.width /\ q.video.height > best.height
=============================================================================
