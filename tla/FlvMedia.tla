------------------------------ MODULE FlvMedia ------------------------------
(***************************************************************************)
(* The bytes of the media messages: parsingflv.cpp (AAC and AVC headers,   *)
(* raw frames), flv_util.cpp (big-endian numbers, BitReader), what         *)
(* flv_message.cpp makes of a message or of its dump file, and the bytes   *)
(* logic/write_flv.cpp writes for it.                                      *)
(***************************************************************************)
EXTENDS Bytes

(* BitReader::ReadBits: at most what is left of one byte at a time. read[k]
   is the value of the last k of the n bits asked for at pos. *)
ReadBits(data, pos, n) ==
  LET read[k \in 0..n] ==
        IF k = 0 THEN 0
        ELSE LET at == pos + n - k
                 avail == 8 - (at % 8)
                 size == IF avail >= k THEN k ELSE avail
                 bits == (data[at \div 8 + 1] \div 2^(avail - size)) % 2^size
             IN bits * 2^(k - size) + read[k - size]
  IN read[n]

-----------------------------------------------------------------------------
(* The two bytes in front of every media message. *)
FLV_AAC == 10
FLV_AVC == 7
AacPacket(b, type) == Len(b) >= 2 /\ b[1] \div 16 = FLV_AAC /\ b[2] = type
AvcPacket(b, type) == Len(b) >= 2 /\ b[1] % 16 = FLV_AVC /\ b[2] = type
IsAACSequenceHeader(b) == AacPacket(b, 0)
IsAACRaw(b) == AacPacket(b, 1)
IsAVCSequenceHeader(b) == AvcPacket(b, 0)
IsAVCNALU(b) == AvcPacket(b, 1)
IsAVCEndOfSequence(b) == AvcPacket(b, 2)

SamplingRates == <<96000, 88200, 64000, 48000, 44100, 32000, 24000, 22050,
                   16000, 12000, 11025, 8000, 7350, 0, 0, 0>>
ChannelConfig == <<0, 1, 2, 3, 4, 5, 6, 8>>

(* get_aac_header: the AudioSpecificConfig by shifts and masks on its first
   two bytes, then on the three and one it may go on with. *)
get_aac_header_ShortRate(b) ==
  LET hb == b[3]
      lb == b[4]
      index == ((hb * 2) % 16) + lb \div 128
  IN IF ~IsAACSequenceHeader(b) \/ Len(b) < 4 THEN Refused
     ELSE [ok |-> TRUE, object_type |-> hb \div 8, sample_rate |-> SamplingRates[index + 1],
           channel_count |-> (lb \div 8) % 16]
get_aac_header(b) ==
  LET hb == b[3]
      lb == b[4]
      next3 == Number(SubSeq(b, 5, 7))
      escape == hb \div 8 = 31
      index == IF escape THEN (lb \div 2) % 16 ELSE ((hb * 2) % 16) + lb \div 128
      explicit == index = 15
      needs == CASE explicit -> 4 [] escape /\ ~explicit -> 1 [] OTHER -> 0
      rate == CASE ~explicit -> SamplingRates[index + 1]
                [] explicit /\ escape -> (lb % 2) * 2^23 + next3 \div 2
                [] OTHER -> (lb % 128) * 2^17 + next3 \div 128
      channels == CASE escape /\ explicit -> (next3 % 2) * 8 + b[8] \div 32
                    [] escape /\ ~explicit -> (lb % 2) * 8 + b[5] \div 32
                    [] ~escape /\ explicit -> (next3 \div 8) % 16
                    [] OTHER -> (lb \div 8) % 16
  IN IF ~IsAACSequenceHeader(b) \/ Len(b) < 4 THEN Refused
     ELSE IF Len(b) < 4 + needs THEN Refused
     ELSE [ok |-> TRUE, sample_rate |-> rate, channel_count |-> channels,
           object_type |-> IF escape THEN 8 * (hb % 8) + lb \div 32 + 32 ELSE hb \div 8]

(* ParseAACSequenceHeader: the same header through the BitReader; it asks for
   four bytes at least, and eight for an explicit rate. *)
ParseAACSequenceHeader(b) ==
  LET c == From(b, 3)
      object == ReadBits(c, 0, 5)
      index == ReadBits(c, 5, 4)
      explicit == index = 15
      channels == ReadBits(c, IF explicit THEN 33 ELSE 9, 4)
      ok == /\ IsAACSequenceHeader(b)
            /\ Len(c) >= 4
            /\ object \in 1..30
            /\ explicit => Len(c) >= 8
            /\ channels \in 1..7
  IN IF ok THEN [ok |-> TRUE, object_type |-> object,
                 sample_rate |-> IF explicit THEN ReadBits(c, 9, 24)
                                 ELSE SamplingRates[index + 1],
                 channel_count |-> ChannelConfig[channels + 1]]
     ELSE Refused

(* get_audio: what follows the two bytes.  ParseAACRaw reads the first byte
   too; `fmt & 0x0c >> 2` masks with 3 and `fmt & 0x02 >> 1` with 1. *)
get_audio(b) ==
  IF IsAACRaw(b) THEN [ok |-> TRUE, data |-> From(b, 3)] ELSE Refused
ParseAACRaw(b) ==
  IF IsAACRaw(b)
  THEN [ok |-> TRUE, sound_rate |-> b[1] % 4, sound_size |-> b[1] % 2,
        sound_type |-> b[1] % 2, data |-> From(b, 3)]
  ELSE Refused

-----------------------------------------------------------------------------
StartCode == <<0, 0, 0, 1>>

(* One parameter set of an AVCDecoderConfigurationRecord: its length in two
   bytes at i, then its bytes. *)
ParameterSet(b, i) ==
  LET n == Number(SubSeq(b, i, i + 1))
  IN IF Len(b) < i + 1 \/ Len(b) < i + 1 + n THEN Refused
     ELSE [ok |-> TRUE, set |-> SubSeq(b, i + 2, i + 1 + n), next |-> i + 2 + n]

(* get_first_sps_and_first_pps_from_avc_sequence_header: the loops break
   after one set, and the byte after the first SPS is taken for the number
   of PPS. *)
FirstSet(b, i, count) ==
  IF count = 0 THEN [ok |-> TRUE, set |-> <<>>, next |-> i] ELSE ParameterSet(b, i)
get_first_sps_and_first_pps_Unmasked(b) ==
  LET sps == FirstSet(b, 12, b[11])
      pps == FirstSet(b, sps.next + 1, b[sps.next] % 32)
      ok == Len(b) >= 11 /\ b[2] = 0 /\ sps.ok /\ Len(b) > sps.next /\ pps.ok
  IN IF ok THEN [ok |-> TRUE, nal_length |-> (b[10] % 4) + 1, sps |-> sps.set, pps |-> pps.set]
     ELSE Refused
get_first_sps_and_first_pps(b) ==
  LET sps == FirstSet(b, 12, b[11] % 32)
      pps == FirstSet(b, sps.next + 1, b[sps.next])
      ok == Len(b) >= 11 /\ b[2] = 0 /\ sps.ok /\ Len(b) >= sps.next /\ pps.ok
  IN IF ok THEN [ok |-> TRUE, nal_length |-> (b[10] % 4) + 1, sps |-> sps.set, pps |-> pps.set]
     ELSE Refused

(* ParseAVCSequenceHeader: every set, a start code in front of each. *)
EverySet(b, i, count) ==
  LET sets[k \in 0..count] ==
        IF k = 0 THEN [ok |-> TRUE, list |-> <<>>, next |-> i]
        ELSE LET before == sets[k - 1]
                 one == ParameterSet(b, before.next)
             IN IF ~before.ok \/ ~one.ok THEN Refused
                ELSE [ok |-> TRUE, next |-> one.next, list |-> before.list \o StartCode \o one.set]
  IN sets[count]
ParseAVCSequenceHeader(b) ==
  LET sps == EverySet(b, 12, b[11] % 32)
      pps == EverySet(b, sps.next + 1, b[sps.next])
      ok == /\ IsAVCSequenceHeader(b)
            /\ Len(b) >= 11
            /\ Number(SubSeq(b, 3, 5)) = 0
            /\ b[10] % 4 # 2
            /\ b[11] % 32 >= 1
            /\ sps.ok
            /\ Len(b) >= sps.next
            /\ pps.ok
  IN IF ok THEN [ok |-> TRUE, nal_length |-> (b[10] % 4) + 1,
                 sps_list |-> sps.list, pps_list |-> pps.list]
     ELSE Refused

(* get_video: the frame type, the composition time offset read as 24 unsigned
   bits, and the access unit; ParseAVCNALU also checks the codec. *)
get_video(b) ==
  IF Len(b) >= 5 /\ b[2] = 1
  THEN [ok |-> TRUE, keyframe |-> b[1] \div 16, cts |-> Number(SubSeq(b, 3, 5)),
        data |-> From(b, 6)]
  ELSE Refused
ParseAVCNALU(b) ==
  IF IsAVCNALU(b) /\ Len(b) >= 5
  THEN [ok |-> TRUE, frame_type |-> b[1] \div 16, cts |-> Number(SubSeq(b, 3, 5)),
        data |-> From(b, 6)]
  ELSE Refused

(* get_avc_end_of_sequence keeps the whole message, ParseAVCEndOfSequence what
   follows the two bytes. *)
get_avc_end_of_sequence(b) == b
ParseAVCEndOfSequence(b) ==
  IF IsAVCEndOfSequence(b) THEN [ok |-> TRUE, frame_type |-> b[1] \div 16, eos |-> From(b, 3)]
  ELSE Refused

(* replace_nalu_start_code_from_mp4_to_ts: each length of n bytes gives way
   to a start code of n bytes.  An access unit whose lengths do not add up
   makes the C++ counter wrap: the function is applied to whole ones. *)
WholeUnits(n, es) ==
  LET whole[i \in 1..Len(es) + 1] ==
        \/ i = Len(es) + 1
        \/ /\ i + n - 1 <= Len(es)
           /\ LET next == i + n + Number(SubSeq(es, i, i + n - 1))
              IN next <= Len(es) + 1 /\ whole[next]
  IN whole[1]
replace_nalu_start_code_FirstOnly(n, es) ==
  IF es = <<>> THEN es ELSE [i \in 1..n |-> IF i = n THEN 1 ELSE 0] \o From(es, n + 1)
replace_nalu_start_code(n, es) ==
  LET code == [i \in 1..n |-> IF i = n THEN 1 ELSE 0]
      replaced[i \in 1..Len(es) + 1] ==
        IF i = Len(es) + 1 THEN <<>>
        ELSE LET length == Number(SubSeq(es, i, i + n - 1))
             IN code \o SubSeq(es, i + n, i + n + length - 1) \o replaced[i + n + length]
  IN replaced[1]

(* The codecInfo of the two tracks. *)
AudioCodecInfo(h) == Octets(4, h.sample_rate) \o Octets(4, h.channel_count)
VideoCodecInfo_PpsFirst(h) == StartCode \o h.pps \o StartCode \o h.sps
VideoCodecInfo(h) == StartCode \o h.sps \o StartCode \o h.pps

-----------------------------------------------------------------------------
(* A time of t milliseconds in ticks of 1/90000 s, in two digits of base
   2^16: the value is 2^16 * Ticks[1] + Ticks[2]. *)
Ticks(t) ==
  LET low == (t % 2^16) * 90
  IN <<(t \div 2^16) * 90 + low \div 2^16, low % 2^16>>

(* The same product in 32 bits, as the dump reader computes it. *)
Ticks32(t) == <<Ticks(t)[1] % 2^16, Ticks(t)[2]>>

FLV_AUDIO_ES == 8
FLV_VIDEO_ES == 9

(* What one message does to the context, dts being its decoding time: the
   body process_flv_es_message and process_flv_es_dump_message share.
   make_media_es takes the key bit and drops it: every frame is flagged. *)
VideoFrame(v, dts) ==
  [ok |-> TRUE, frame |-> "video", dts |-> dts, cts |-> Ticks(v.cts), isKeyFrame |-> 1,
   data |-> replace_nalu_start_code(4, v.data)]
Processed(type, dts, b) ==
  CASE type = FLV_AUDIO_ES /\ IsAACSequenceHeader(b) ->
         LET h == get_aac_header(b)
         IN IF h.ok THEN [ok |-> TRUE, audio |-> AudioCodecInfo(h)] ELSE Refused
    [] type = FLV_AUDIO_ES /\ IsAACRaw(b) ->
         [ok |-> TRUE, frame |-> "audio", dts |-> dts, data |-> get_audio(b).data]
    [] type = FLV_VIDEO_ES /\ IsAVCSequenceHeader(b) ->
         LET h == get_first_sps_and_first_pps(b)
         IN IF h.ok THEN [ok |-> TRUE, video |-> VideoCodecInfo(h), nal_length |-> h.nal_length]
            ELSE Refused
    [] type = FLV_VIDEO_ES /\ IsAVCNALU(b) ->
         IF get_video(b).ok THEN VideoFrame(get_video(b), dts) ELSE Refused
    [] type = FLV_VIDEO_ES /\ IsAVCEndOfSequence(b) -> [ok |-> TRUE, eos |-> get_avc_end_of_sequence(b)]
    [] OTHER -> Refused
process_flv_es_message(m, firstKeySent) ==
  LET done == Processed(m.type, Ticks(m.timestamp), m.data)
  IN IF m.type = FLV_VIDEO_ES /\ IsAVCNALU(m.data) /\ done.ok
     THEN IF get_video(m.data).keyframe # 1 /\ ~firstKeySent THEN Refused ELSE done
     ELSE done

(* write_flv_media_message_dump and process_flv_es_dump_message: type,
   timestamp and length in front of the message's bytes. *)
Dump(m) == <<m.type>> \o Octets(4, m.timestamp) \o Octets(4, Len(m.data)) \o m.data
process_flv_es_dump_message_NoLength(d) ==
  Processed(d[1], Ticks32(Number(SubSeq(d, 2, 5))), From(d, 6))
process_flv_es_dump_message(d) ==
  Processed(d[1], Ticks32(Number(SubSeq(d, 2, 5))), From(d, 10))

(* write_flv_header and write_flv: the file header with the size of no tag,
   and one tag with its size behind it. *)
write_flv_header == <<70, 76, 86, 1, 5, 0, 0, 0, 9, 0, 0, 0, 0>>
Tag(m) ==
  <<m.type>> \o Octets(3, Len(m.data)) \o Octets(3, m.timestamp) \o <<m.timestamp \div 2^24>>
    \o <<0, 0, 0>> \o m.data \o Octets(4, 11 + Len(m.data))
=============================================================================
