-------------------------- MODULE MCStream2Packet --------------------------
(* Streams of messages around the sizes at which message() decides: the     *)
(* bare 12-byte header, one byte below and above the 16 bytes it probes,    *)
(* and messages longer than what one read can take.                         *)
EXTENDS Stream2Packet, Sequences, SequencesExt

StartsOf(lengths) ==
    [k \in 0 .. Len(lengths) |->
        FoldLeft(LAMBDA sum, n : sum + n, 0, SubSeq(lengths, 1, k))]

MixedCount == 5
MixedStart == StartsOf(<<16, 12, 17, 40, 16>>)
=============================================================================
