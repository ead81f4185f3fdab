---------------------------- MODULE MCOnvifClient ----------------------------
(* Small instances of OnvifClient. *)
EXTENDS OnvifClient

\* The camera, and another server of the same host.
MCCamera == [host |-> "camera", port |-> 80]
MCAddrs  == {MCCamera, [host |-> "camera", port |-> 8080]}

MCDevicePath == <<"onvif", "device">>
MCResources  == {<<"onvif", "device">>}

Video(codec, w, h, rate) == [codec |-> codec, width |-> w, height |-> h, bitrate |-> rate]
Profile(n, v) == [token |-> n, video |-> v]

Full   == [media |-> <<"onvif", "media">>, ptz |-> <<"onvif", "ptz">>,
           profiles |-> <<Profile(1, Video("h264", 640, 480, 512000)),
                          Profile(2, Video("h264", 1920, 1080, 4096000)),
                          Profile(3, Video("h264", 1280, 720, 2048000)),
                          Profile(4, None),
                          Profile(6, Video("h264", 3840, None, 8192000)),
                          Profile(7, Video(None, 640, 360, None))>>]
Fixed  == [Full EXCEPT !.ptz = None, !.profiles = <<Profile(5, None)>>]
Odd    == [Full EXCEPT !.media = Unreadable, !.ptz = Unreadable]
Bare   == [Full EXCEPT !.media = NoXAddr, !.profiles = <<>>]
MCCameras == {Full, Fixed, Odd, Bare}

ASSUME MCSizesTell == SizesTell
=============================================================================
