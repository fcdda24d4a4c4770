----------------------------- MODULE FrameDecoder -----------------------------
(***************************************************************************)
(* Framing, src/src/protocol.cpp: encode_frame and the streaming decoder.  *)
(*                                                                         *)
(* A byte stream is a sequence of units.  A frame of size n is its header, *)
(* unit 0, and n units of payload and trailer.  A unit remembers the frame *)
(* it was cut from: that is what the magic number and the two checksums    *)
(* establish, so bytes that are not the header of a frame are refused as a *)
(* header, and units of two frames never pass for one payload.             *)
(***************************************************************************)
EXTENDS Naturals, Sequences

CONSTANT MaxFrame   \* limits::max_frame_bytes, in units

ASSUME FrameAssumption == MaxFrame \in Nat \ {0}

encode_frame(f) == [i \in 1 .. f.size + 1 |-> [frame |-> f, part |-> i - 1]]

\* Nothing reads what a decoder that has failed still buffers.
Fresh == [buffer |-> <<>>, ok |-> TRUE]
Failed == [buffer |-> <<>>, ok |-> FALSE]

\* Mutant of feed: a frame that fills the buffer to its last byte is refused.
FeedOffByOne(d, data) ==
    IF ~d.ok \/ Len(data) >= MaxFrame - Len(d.buffer) THEN Failed
    ELSE [d EXCEPT !.buffer = @ \o data]

\* Mutant of feed: the bound is on what arrives, not on what is buffered.
FeedChunkOnly(d, data) ==
    IF ~d.ok \/ Len(data) > MaxFrame THEN Failed
    ELSE [d EXCEPT !.buffer = @ \o data]

\* Bytes beyond one maximal frame are refused for good, whatever they hold.
feed(d, data) ==
    IF ~d.ok \/ Len(data) > MaxFrame - Len(d.buffer) THEN Failed
    ELSE [d EXCEPT !.buffer = @ \o data]

Declared(d) == Head(d.buffer).frame.size + 1

StartsFrame(d) == d.ok /\ d.buffer # <<>> /\ Head(d.buffer).part = 0

\* pop wants more bytes.
Incomplete(d) ==
    d.ok /\ (d.buffer = <<>> \/ (StartsFrame(d) /\ Len(d.buffer) < Declared(d)))

\* pop returns the first frame; otherwise, and if not Incomplete, it fails.
has_frame(d) ==
    /\ StartsFrame(d)
    /\ Len(d.buffer) >= Declared(d)
    /\ SubSeq(d.buffer, 1, Declared(d)) = encode_frame(Head(d.buffer).frame)

FirstFrame(d) == Head(d.buffer).frame

\* Mutant of pop_failed: the decoder looks for the next header in what it has.
Resynchronised(d) ==
    LET starts == {i \in 2 .. Len(d.buffer) : d.buffer[i].part = 0}
        i == CHOOSE j \in starts : \A k \in starts : j <= k
    IN  IF starts = {} THEN Fresh
        ELSE [d EXCEPT !.buffer = SubSeq(@, i, Len(@))]

\* The decoder after a pop that failed: the failure is sticky.
pop_failed(d) == Failed

\* The decoder after a pop that returned FirstFrame.
popped(d) == [d EXCEPT !.buffer = SubSeq(@, Declared(d) + 1, Len(@))]
==============================================================================
