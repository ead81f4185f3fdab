------------------------------ MODULE SdpParser ------------------------------
(***************************************************************************)
(* SdpParser (nxnet/sdp): a description, line by line, into a session and   *)
(* its media.  A line is a record of its letter, type, and of what stands   *)
(* behind the "=": a value, or the fields the parser takes it apart into.   *)
(* current_media divides the lines: those from one m= line to the next are  *)
(* about that medium, those before the first about the session; of the      *)
(* lines that say the same thing of the same the last one counts.           *)
(***************************************************************************)
EXTENDS Naturals, Sequences, SequencesExt, FiniteSetsExt

Line(t, v) == [type |-> t, value |-> v]

\* The lines m=<media> <port> <proto> <formats> and a=<name>[:<value>], with the
\* payload type in front of the value where the attribute has one, or else 0.
MediaLine(kind, formats) == Line("m", [kind |-> kind, formats |-> formats])
Attribute(name, pt, value) == Line("a", [name |-> name, pt |-> pt, value |-> value])

\* parse_media_type knows these.
MediaTypes == {"video", "audio", "text", "application", "message"}

\* o=, c= and t= need all their fields; their value is FALSE when one is missing.
\* One line that is refused is the end of all.
LineParses(l) ==
  CASE l.type = "v"             -> l.value = "0"
    [] l.type = "m"             -> l.value.kind \in MediaTypes
    [] l.type \in {"o", "c", "t"} -> l.value.whole
    [] OTHER                    -> TRUE

-----------------------------------------------------------------------------
Starts(lines) == SetToSortSeq({i \in DOMAIN lines : lines[i].type = "m"}, <)

SessionPart(lines) ==
  IF Starts(lines) = <<>> THEN lines ELSE SubSeq(lines, 1, Starts(lines)[1] - 1)

MediaPart(lines, i) ==
  LET starts == Starts(lines) IN
  SubSeq(lines, starts[i], IF i = Len(starts) THEN Len(lines) ELSE starts[i + 1] - 1)

LastOf(part, at, default) == IF at = {} THEN default ELSE part[Max(at)].value

Attributes(part, name) ==
  {i \in DOMAIN part : part[i].type = "a" /\ part[i].value.name = name}

\* a=rtpmap and a=fmtp: payload type to text.  Without the payload type or the
\* blank behind it the line is dropped.
MapOf(part, name) ==
  LET at == {i \in Attributes(part, name) : part[i].value.pt # 0} IN
  [pt \in {part[i].value.pt : i \in at} |->
     part[Max({i \in at : part[i].value.pt = pt})].value.value]

ControlOf(part) == LastOf(part, Attributes(part, "control"), [value |-> <<>>]).value

ConnectionOf(part) ==
  LastOf(part, {i \in DOMAIN part : part[i].type = "c"}, [address |-> ""]).address

OtherAttributes(part) ==
  {part[i].value.name : i \in {j \in DOMAIN part : part[j].type = "a"}}
    \ {"rtpmap", "fmtp", "control", "framerate"}

\* SdpMedia.
SdpMedia(part) ==
  [type |-> part[1].value.kind, formats |-> part[1].value.formats,
   rtpmap |-> MapOf(part, "rtpmap"), fmtp |-> MapOf(part, "fmtp"),
   control |-> ControlOf(part), connection |-> ConnectionOf(part),
   attributes |-> OtherAttributes(part)]

\* SdpParser::parse.  A description without a version, and so an empty one, is
\* refused; of the attributes of the session only a=control is kept.
Parses(lines) ==
  /\ \A i \in DOMAIN lines : LineParses(lines[i])
  /\ \E i \in DOMAIN lines : lines[i].type = "v"

SdpSession(lines) ==
  [base |-> ControlOf(SessionPart(lines)), connection |-> ConnectionOf(SessionPart(lines)),
   media |-> [i \in DOMAIN Starts(lines) |-> SdpMedia(MediaPart(lines, i))]]
=============================================================================
