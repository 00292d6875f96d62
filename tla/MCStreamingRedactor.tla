------------------------- MODULE MCStreamingRedactor -------------------------
(* Answers put together of up to three pieces.                               *)
EXTENDS StreamingRedactor, TLC

CONSTANT MaxPieces

Piece == {<<"a", "@", "a", ".", "a", "a">>, <<".", "a", "a">>, <<"@">>, <<" ">>,
          <<"-">>, <<"1", "-", "1", "-", "1">>, <<"1", "8">>, <<"0", "0">>, <<" ", "0">>, <<"1">>}

MCTexts == {FlattenSeq(s) : s \in BoundedSeq(Piece, MaxPieces)}
MCParts == <<1, 1, 1>>
=============================================================================
