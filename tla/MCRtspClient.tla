---------------------------- MODULE MCRtspClient ----------------------------
(***************************************************************************)
(* The client for TLC, with two servers: one asks for a digest with a count *)
(* and describes two tracks, by a relative and by an absolute URL; the      *)
(* other asks for basic credentials, behind a header for another scheme,    *)
(* and has one track with two payload types.                               *)
(***************************************************************************)
EXTENDS RtspClient

Heading == <<Line("v", "0"), Line("o", [whole |-> TRUE]), Line("s", "live"), Line("t", [whole |-> TRUE]),
             Attribute("control", 0, <<"*">>)>>

Two == Heading \o
  <<MediaLine("video", <<97, 96>>), Attribute("rtpmap", 96, "VND"),
    Attribute("rtpmap", 97, "H265"), Attribute("fmtp", 97, "sprop"),
    Attribute("control", 0, <<"track1">>), Line("c", [whole |-> TRUE, address |-> "0.0.0.0"]),
    MediaLine("audio", <<0>>), Attribute("control", 0, Url \o <<"track2">>),
    Attribute("recvonly", 0, "")>>

One == Heading \o
  <<MediaLine("video", <<26>>), Attribute("rtpmap", 26, "JPEG"),
    Attribute("rtpmap", 0, "H264")>>

AsksDigest ==
  <<[scheme |-> "digest",
     params |-> <<Parameter("realm", "first"), Parameter("realm", "cameras"),
                  Parameter("algorithm", "MD5-sess"), Parameter("qop", "auth")>>]>>
AsksBasic ==
  <<[scheme |-> "bearer", params |-> <<>>],
    [scheme |-> "basic", params |-> <<Parameter("realm", "cameras")>>]>>

MCServers ==
  <<[lines |-> Two,
     tracks |-> <<[uri |-> Url \o <<"track1">>, codec |-> "H265"],
                  [uri |-> Url \o <<"track2">>, codec |-> "none"]>>,
     wants |-> [scheme |-> "digest", realm |-> "cameras", nonce |-> 0,
                algorithm |-> "MD5-sess", qop |-> "auth"],
     asks |-> AsksDigest],
    [lines |-> One,
     tracks |-> <<[uri |-> Url, codec |-> "JPEG"]>>,
     wants |-> [NoChallenge EXCEPT !.scheme = "basic", !.realm = "cameras"],
     asks |-> AsksBasic]>>

ASSUME MCServersAreMeant == DescribedAsMeant /\ AsksAsMeant
=============================================================================
