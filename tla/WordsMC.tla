------------------------------- MODULE WordsMC -------------------------------
\* The texts of commands module Words is checked on: what can be put together
\* from a few pieces, one set of pieces for each kind of expansion, less what
\* the syntax check refuses.
EXTENDS Words, TLC

\* What can be put together from at most n pieces.
Concat(pieces, n) ==
  LET texts[k \in 0..n] ==
        IF k = 0 THEN {<<>>}
        ELSE LET shorter == texts[k - 1]
             IN  shorter \cup {t \o p : t \in shorter, p \in pieces}
  IN  texts[n]

\* The texts the syntax check lets through: quotes are closed, the way it sees
\* them, and every operator has a name behind it.
Accepted(s) ==
  LET read[i \in 0..Len(s)] ==
        IF i = 0 THEN [open |-> "none", escaped |-> FALSE, wants |-> FALSE, good |-> TRUE]
        ELSE LET r == read[i - 1]
                 operator == s[i] = "<" /\ ~r.escaped /\ r.open = "none"
             IN  [open    |-> IF s[i] \notin Quotes \/ r.escaped \/ r.open \notin {"none", s[i]}
                              THEN r.open ELSE IF r.open = s[i] THEN "none" ELSE s[i],
                  escaped |-> s[i] = "bs" /\ ~r.escaped,
                  wants   |-> operator \/ (r.wants /\ s[i] \in Blanks),
                  good    |-> r.good /\ ~(operator /\ r.wants)]
      end == read[Len(s)]
  IN  /\ end.open = "none" /\ ~end.wants /\ end.good
      /\ ToSet(s) \ Blanks # {}

\* What the texts are put together from.
CutPieces    == {<<"w">>, <<"3">>, <<" ">>, <<"<">>, <<"dq">>, <<"sq">>, <<"bs">>}
QuotePieces  == {<<"w">>, <<" ">>, <<"$", "a">>, <<"dq">>, <<"sq">>, <<"bs">>}
DollarPieces == {<<"w">>, <<" ">>, <<"$", "a">>, <<"$", "?">>, <<"$">>, <<"dq">>}
StarPieces   == {<<"w">>, <<" ">>, <<"*">>, <<"?">>, <<"$", "a">>}
TildePieces  == {<<"w">>, <<" ">>, <<"~">>, <<"/">>, <<"$", "w">>, <<"<">>}
\* "'" in double quotes leaves the quotes of a file name open.
AnsiPieces   == {<<"<", "dq", "sq", "dq">>, <<"$", "sq">>, <<" ">>, <<"sq">>,
                 <<"sq", "bs", "n", "sq">>, <<"n">>}

LinePieces   == {<<"w">>, <<" ">>, <<"$">>, <<"a">>, <<"?">>, <<"bs">>, <<"dq">>}

CONSTANT Length  \* pieces in a text

MCTexts == {t \in UNION {Concat(pieces, Length) :
                         pieces \in {CutPieces, QuotePieces, DollarPieces, StarPieces,
                                     TildePieces, AnsiPieces}} : Accepted(t)}
MCLines  == Concat(LinePieces, Length)
MCLimitator == <<"w">>
MCValues == {<<>>, <<"w", " ", "n">>}
MCDirs   == (<<"/", "w">> :> <<<<"w">>, <<"n", "w">>, <<".", "w">>, <<"w", "n">>>>)
MCCwd    == <<"/", "w">>
MCHome   == <<"/", "n">>
MCUsers  == {<<"w">>, <<"w", "/">>}
MCStatus == <<"3">>
=============================================================================
