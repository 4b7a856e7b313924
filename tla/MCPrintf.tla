------------------------------ MODULE MCPrintf -------------------------------
(* Formats of up to five characters; arguments shorter than the buffer of  *)
(* four, as long as it, longer, and empty.                                 *)
EXTENDS Printf

MCFormats == {f \o <<NUL, "a", "%", NUL, NUL>> : f \in BoundedSeq({"%", "d", "q", "a"}, 5)}

One == <<"1">>
Three == <<"1", "2", "3">>
MCArguments == {<<>>, <<One, Three>>, <<<<>>, Three>>, <<Three \o One, One>>,
                <<Three \o Three>>}
==============================================================================
