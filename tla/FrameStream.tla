---------------------------- MODULE FrameStream -----------------------------
(***************************************************************************)
(* A frame's way from one session to the other: out of the FrameQueue,     *)
(* through Codec.Encode into a byte stream, and through Codec.Decode       *)
(* (internal/core/frame.go) at the other end.  Encode makes two writes,    *)
(* header and payload; Decode reads each of them in full; the stream may   *)
(* be cut anywhere, also in the middle of either.                          *)
(*                                                                         *)
(* A byte is the frame it encodes and its place in the encoding.  What     *)
(* Session.tla takes as one step, a frame written whole and read whole, is *)
(* shown here.                                                             *)
(***************************************************************************)
EXTENDS FrameQueue

CONSTANTS
    Known,       \* the frames whose type is known
    HeaderLen,   \* bytes of a header
    MaxPayload,  \* MaxPayloadLen
    MaxTransit   \* bound of the model: frames the transport holds

ASSUME CodecAssumption ==
    /\ Known \subseteq Frames
    /\ HeaderLen \in Nat \ {0} /\ MaxPayload \in Nat /\ MaxTransit \in Nat

VARIABLES
    encoder,  \* writeFrame: "idle", "header", "payload" or "failed"
    hand,     \* the frame Encode is writing
    stream,   \* the bytes written and not yet read
    cut,      \* the stream has ended after these bytes
    decoder,  \* Decode: "header", "payload" or "failed"
    opened,   \* the frame whose header Decode has read
    transit,  \* the frames Encode has begun and Decode has not returned
    got       \* the frame Decode returned last, and the one it should have

queueVars == vars
streamVars == <<encoder, hand, stream, cut, decoder, opened, transit, got>>

StreamInit ==
    /\ Init
    /\ encoder = "idle" /\ hand = NoFrame
    /\ stream = << >> /\ cut = FALSE
    /\ decoder = "header" /\ opened = NoFrame
    /\ transit = << >> /\ got = <<NoFrame, NoFrame>>

Bytes(f, from, to) == [i \in 1 .. to - from + 1 |-> [frame |-> f, place |-> from + i - 1]]
Header(f) == Bytes(f, 1, HeaderLen)
Payload(f) == Bytes(f, HeaderLen + 1, HeaderLen + Size[f])

\* What is written after a cut goes nowhere.
Emit(bytes) == stream' = IF cut THEN stream ELSE stream \o bytes

-----------------------------------------------------------------------------
(* writeLoop and Codec.Encode *)

Push ==
    /\ \E f \in Frames : PushAccepted(f) \/ PushRejected(f)
    /\ UNCHANGED streamVars

PopsNothing ==
    /\ encoder = "idle" /\ PopEmpty
    /\ UNCHANGED streamVars

\* Mutant: the size is not looked at.
MutEncodable(f) == f \in Known

\* Encode refuses an unknown type and a payload that is too long.
Encodable(f) == f \in Known /\ Size[f] <= MaxPayload

Pops ==
    /\ encoder = "idle" /\ Len(transit) < MaxTransit /\ PopFrame
    /\ IF Encodable(items[head])
       THEN /\ encoder' = "header"
            /\ hand' = items[head]
            /\ transit' = Append(transit, items[head])
       ELSE encoder' = "failed" /\ UNCHANGED <<hand, transit>>
    /\ UNCHANGED <<stream, cut, decoder, opened, got>>

\* The first write.  Without a payload it is the only one.
EncodesHeader ==
    /\ encoder = "header"
    /\ Emit(Header(hand))
    /\ IF Size[hand] = 0
       THEN encoder' = "idle" /\ hand' = NoFrame
       ELSE encoder' = "payload" /\ UNCHANGED hand
    /\ UNCHANGED <<queueVars, cut, decoder, opened, transit, got>>

EncodesPayload ==
    /\ encoder = "payload"
    /\ Emit(Payload(hand))
    /\ encoder' = "idle" /\ hand' = NoFrame
    /\ UNCHANGED <<queueVars, cut, decoder, opened, transit, got>>

\* A write on a stream that is cut may fail.
EncodeFails ==
    /\ encoder \in {"header", "payload"} /\ cut
    /\ encoder' = "failed" /\ hand' = NoFrame
    /\ UNCHANGED <<queueVars, stream, cut, decoder, opened, transit, got>>

\* External: the connection is lost, with some of the bytes in it.
Cut ==
    /\ ~cut
    /\ cut' = TRUE
    /\ \E n \in 0 .. Len(stream) : stream' = SubSeq(stream, 1, n)
    /\ UNCHANGED <<queueVars, encoder, hand, decoder, opened, transit, got>>

-----------------------------------------------------------------------------
(* Codec.Decode *)

Drop(n) == stream' = SubSeq(stream, n + 1, Len(stream))

Return(f) ==
    /\ got' = <<f, Head(transit)>>
    /\ transit' = Tail(transit)
    /\ decoder' = "header" /\ opened' = NoFrame

HasHeader == Len(stream) >= HeaderLen

\* The bytes at the front are a header that passes the checks of Decode.
GoodHeader ==
    /\ HasHeader
    /\ SubSeq(stream, 1, HeaderLen) = Header(stream[1].frame)
    /\ stream[1].frame \in Known /\ Size[stream[1].frame] <= MaxPayload

DecodesHeader ==
    /\ decoder = "header" /\ HasHeader
    /\ Drop(HeaderLen)
    /\ IF GoodHeader
       THEN LET f == stream[1].frame IN
              IF Size[f] = 0
              THEN Return(f)
              ELSE decoder' = "payload" /\ opened' = f /\ UNCHANGED <<transit, got>>
       ELSE decoder' = "failed" /\ UNCHANGED <<opened, transit, got>>
    /\ UNCHANGED <<queueVars, encoder, hand, cut>>

HasPayload == Len(stream) >= Size[opened]

\* What the payload holds is what was written for this frame, or a mixture.
DecodesPayload ==
    /\ decoder = "payload" /\ HasPayload
    /\ Drop(Size[opened])
    /\ Return(IF SubSeq(stream, 1, Size[opened]) = Payload(opened) THEN opened ELSE NoFrame)
    /\ UNCHANGED <<queueVars, encoder, hand, cut>>

\* Mutant: the error of the second io.ReadFull is ignored.
MutDecodeFails ==
    /\ cut /\ decoder = "payload" /\ ~HasPayload
    /\ stream' = << >>
    /\ Return(NoFrame)
    /\ UNCHANGED <<queueVars, encoder, hand, cut>>

\* io.ReadFull meets the end of the stream.
DecodeFails ==
    /\ cut
    /\ \/ decoder = "header" /\ ~HasHeader
       \/ decoder = "payload" /\ ~HasPayload
    /\ decoder' = "failed"
    /\ UNCHANGED <<queueVars, encoder, hand, stream, cut, opened, transit, got>>

StreamNext ==
    \/ Push \/ PopsNothing \/ Pops
    \/ EncodesHeader \/ EncodesPayload \/ EncodeFails \/ Cut
    \/ DecodesHeader \/ DecodesPayload \/ DecodeFails

StreamSpec == StreamInit /\ [][StreamNext]_<<queueVars, streamVars>>

-----------------------------------------------------------------------------
(* Properties *)

\* Decode returns the frames Encode was given, whole, each once and in their
\* order, wherever the stream is cut: a frame that is cut short is not returned
\* (frame.go:52-60, 63-66, 92-95).
WholeFramesInOrder == got[1] = got[2]

\* Decode accepts what Encode accepts: as long as the stream is not cut, it
\* never takes bytes of one frame for another's and refuses nothing
\* (frame.go:34-42, 76-88).
OnlyACutStopsDecode == decoder = "failed" => cut

\* The frames within the limits of Encode and of Decode.
Carried == {f \in Known : Size[f] <= MaxPayload}

Link == INSTANCE FrameLink WITH
            queue <- Queue, bytes <- queuedByte,
            wire <- transit, arrived <- got[1], broken <- cut,
            sender <- IF encoder = "failed" THEN "stopped" ELSE "runs",
            receiver <- IF decoder = "failed" THEN "stopped" ELSE "runs"

\* Queue, Encode, stream and Decode together are a FIFO of whole frames: a frame
\* is begun when it is taken from the queue, and arrives when its last byte is
\* read; only a frame Encode refuses or a cut stops an end
\* (queue.go:21-47, frame.go:33-104).
ImplementsFrameLink == Link!LinkSpec
=============================================================================
