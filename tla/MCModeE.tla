------------------------------ MODULE MCModeE ------------------------------
(***************************************************************************)
(* Every message of up to MaxBody characters that matter to the parser,    *)
(* with and without the slash in front and the line's end behind.          *)
(***************************************************************************)
EXTENDS ModeE

CONSTANT MaxBody   \* characters between the slash and the line's end

\* The parts of the marker, its digit (a baud rate code as well), another code.
Characters == {"\\", "W", "2", "6"}

Bodies == UNION {[1..n -> Characters] : n \in 0..MaxBody}

AllMessages ==
  {<<"/">> \o b \o <<"CR", "LF">> : b \in Bodies}
  \cup {h \o b \o t : h \in {<<>>, <<"/">>}, t \in {<<>>, <<"LF">>, <<"CR">>, <<"LF", "CR">>},
                      b \in {c \in Bodies : Len(c) <= 5}}

\* The codes 0, 2 and 6, a rate below all and one above all.
AllRequests == {-1, 0, 2, 6, 7}

OtherMeter == <<"/", "A", "B", "C", "6", "\\", "W", "2", "CR", "LF">>
=============================================================================
