-------------------------- MODULE PublishRequests --------------------------
(***************************************************************************)
(* The JSON that begin_publish and init_publish put into their requests by *)
(* boost::format, which escapes nothing, and what begin_publish makes of   *)
(* the streamer's answer (rtmps/src/publish_to_streamer.cpp).  Strings are *)
(* sequences of bytes; the white space of the formats is left out.         *)
(***************************************************************************)
EXTENDS JsonDocument, Base64

Quoted(bytes) == <<Quote>> \o bytes \o <<Quote>>
Pair(name, text) == Quoted(Ascii(name)) \o <<Colon>> \o text
ObjectOf(pairs) ==
  <<LeftBrace>> \o FlattenSeq([i \in DOMAIN pairs |->
                                 (IF i = 1 THEN <<>> ELSE <<Comma>>) \o pairs[i]])
    \o <<RightBrace>>

(* The body of the POST that begins an upload. *)
BeginBody(stream_name, provider, recording) ==
  ObjectOf(<<Pair("filename", Quoted(stream_name)), Pair("assetId", Quoted(stream_name)),
             Pair("title", Quoted(stream_name)), Pair("provider", Quoted(provider)),
             Pair("type", Quoted(Ascii("Video"))),
             Pair("recording", Quoted(IF recording = 1 THEN Ascii("Y") ELSE Ascii("N")))>>)

(* The body of the init request, with both tracks' codecInfo in base 64. *)
Track(id, type, codec, codecInfo) ==
  ObjectOf(<<Pair("trackId", Ascii(id)), Pair("trackType", Quoted(Ascii(type))),
             Pair("timescale", Ascii("90000")), Pair("codec", Quoted(Ascii(codec))),
             Pair("codecInfo", Quoted(Encode(codecInfo).text))>>)
InitBody(video, audio) ==
  ObjectOf(<<Pair("tracks",
                  <<LeftBracket>> \o Track("1", "video", "h264", video) \o <<Comma>>
                    \o Track("2", "audio", "aac", audio) \o <<RightBracket>>)>>)

(* begin_publish with the body of a 2xx answer: the error it ends with, or the
   two strings, as the C strings they are assigned from.  FindMember asserts
   that the document is an object. *)
CString_Whole(bytes) == bytes
CString(bytes) == SubSeq(bytes, 1, Beyond(bytes, 1, 1..255) - 1)
IsText(object, name) ==
  /\ HasMember(object, name)
  /\ MemberValue(object, FindMember(object, name)).type = "String"
GetString(object, name) == CString(MemberValue(object, FindMember(object, name)).data)
Answered(ec, upload_id, publish_addr) ==
  [ec |-> ec, upload_id |-> upload_id, publish_addr |-> publish_addr]
Id == StringValue(Ascii("id"))
PublishAddr == StringValue(Ascii("publishAddr"))
ASSERTION == 1000
ReadAnswer(body) ==
  LET doc == ParseDocument(body, {})
  IN CASE HasParseError(doc) -> Answered(1, <<>>, <<>>)
       [] ~HasParseError(doc) /\ doc.value.type # "Object" -> Answered(ASSERTION, <<>>, <<>>)
       [] doc.value.type = "Object" /\ ~IsText(doc.value, Id) -> Answered(2, <<>>, <<>>)
       [] doc.value.type = "Object" /\ IsText(doc.value, Id)
            /\ ~IsText(doc.value, PublishAddr) -> Answered(3, <<>>, <<>>)
       [] OTHER -> Answered(0, GetString(doc.value, Id), GetString(doc.value, PublishAddr))
=============================================================================
