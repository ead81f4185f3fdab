---------------------------- MODULE MCRtpReceiver ----------------------------
(* Small instances of RtpReceiver: what frames look like. *)
EXTENDS RtpReceiver

Nal(type, size) == [type |-> type, size |-> size]
Good(nals)      == [kind |-> "good", nals |-> nals]
Foreign         == [kind |-> "foreign", nals |-> <<Nal("slice", 10)>>]
Stray           == [kind |-> "stray", nals |-> <<Nal("slice", 10)>>]
Odd             == [kind |-> "odd", nals |-> <<Nal("slice", 10)>>]

Picture(size, q, tables, sends, interval) ==
  [kind |-> "good", nals |-> <<Nal("scan", size)>>,
   picture |-> [q |-> q, type |-> 64, tables |-> tables, sends |-> sends,
                interval |-> interval, sampling |-> "422"]]

(* Four pictures of a camera that says 4:2:0 and samples 4:2:2: with two   *)
(* tables, with the same two left out, with one of another quality, and    *)
(* with the standard ones.                                                 *)
MCPictures ==
  LET two == <<<<"own", 1>>, <<"own", 2>>>>
  IN {Picture(3, 130, two, TRUE, 2), Picture(3, 130, two, FALSE, 4),
      Picture(20, 140, <<<<"own", 3>>>>, TRUE, 4), Picture(3, 50, <<>>, TRUE, 2)}

(* Payloads are of at most 9 bytes: two NAL units of 2 go together, one of *)
(* 10 is cut in two and one of 16 in three.                                *)
MCShapes ==
  [c \in {"h264", "h265", "jpeg", "g711", "raw"} |->
     CASE c = "h265" ->
            {Good(<<Nal("slice", 16)>>), Good(<<Nal("param", 2), Nal("slice", 2)>>), Odd}
       [] c = "h264" ->
            {Good(<<Nal("slice", 16)>>),
             Good(<<Nal("param", 2), Nal("idr", 10)>>),
             Good(<<Nal("idr", 2), Nal("slice", 2)>>), Odd}
       [] c = "jpeg" -> MCPictures \union {Odd}
       [] c = "raw" -> {Good(<<Nal("slice", 10)>>), Stray, Foreign}
       [] OTHER -> {Good(<<Nal("slice", 10)>>), Good(<<Nal("slice", 2)>>), Foreign}]

\* Cameras mix sources, number their frames in an extension and pad.
MCCameraWrap == [csrcs |-> 1, extension |-> TRUE, words |-> 2, padding |-> TRUE, last |-> 3]

\* The cameras of these instances keep to what PicturesUnmixed asks of them.
ASSUME MCPicturesAsMeant == PicturesByRfc /\ StampsDiffer
=============================================================================
