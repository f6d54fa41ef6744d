----------------------------- MODULE MCRawFeed -----------------------------
(***************************************************************************)
(* The raw packet readers on every short sequence of packets: two products,  *)
(* audio shorter than a frame, longer than a frame and too long for a        *)
(* packet.  A refused packet is the last one that is read.                   *)
(***************************************************************************)
EXTENDS RawFeed

CONSTANT MaxPackets  \* bound: packets of a source

P(type, len, product) == [type |-> type, len |-> len, product |-> product]

Good == {P("VIDEO", 1, 0), P("AUDIO", 2, 0), P("EXT_AUDIO", Chunk, 1),
         P("EXT_AUDIO", 2, 2)}
Refused == {P("BAD", 1, 0), P("EXT_AUDIO", Chunk + 1, 1)}

MCSources ==
    LET goods == UNION {[1..n -> Good] : n \in 0..MaxPackets}
    IN  goods \cup {Append(s, p) : s \in {g \in goods : Len(g) < MaxPackets},
                                   p \in Refused}

MCOptions == {o \in Option : o.main = "audio" => o.aud_fmt}
=============================================================================
