----------------------------- MODULE ArgumentsMC -----------------------------
\* The texts module Arguments is checked on.  A long long has eight bits and
\* three digits, an int four bits.
EXTENDS Arguments

Texts(chars, n) == UNION {[1..k -> chars] : k \in 0..n}

MCLetters  == {"L"}
MCCharacters == MCLetters \cup Digit \cup Blank \cup Sign \cup {"="}
MCLevels   == Texts({"0", "1", "5"}, 2)
              \cup {<<"-">> \o t : t \in {<<"1">>, <<"9">>, <<"1", "2", "8">>}}
              \cup {<<"1", "2", "6">>, <<"1", "2", "7">>, <<"1", "2", "8">>,
                    <<"+", "1", "2", "7">>, <<"6">>, <<"7">>, <<"8">>, <<"1", "6">>,
                    <<" ", "4">>, <<"4", " ">>, <<"4", "L">>}
MCExitWords ==
  {<<>>} \cup {<<t>> : t \in Texts({" ", "-", "+", "0", "8"}, 3)
                             \cup {s \o <<"1", "2">> \o t : s \in Texts({" ", "-", "0"}, 2),
                                                            t \in Texts({"7", "8", " ", "L"}, 1)}}
         \cup {<<t, u>> : t \in {<<>>, <<"1">>, <<"L">>, <<"9", "9", "9">>}, u \in {<<"1">>, <<"L">>}}

MCWords == {n \o o \o v : n \in {<<>>, <<"L">>, <<"1">>, <<"L", "1">>, <<"L", "+">>},
                          o \in {<<>>, <<"=">>, <<"+">>, <<"+", "=">>, <<"=", "+">>},
                          v \in {<<>>, <<"1">>, <<"+">>, <<"=">>, <<"=", "1">>}}
MCExportWords == {<<w>> : w \in MCWords}
   \cup {<<v, w>> : v, w \in {<<"L">>, <<"L", "=", "1">>, <<"L", "+", "=", "9">>, <<"+", "=">>,
                              <<"L", "+", "=">>, <<"L", "1", "+", "=", "1">>}}
MCStatuses == {-1, 0, 1, 10}
=============================================================================
