------------------------------ MODULE Grammar ------------------------------
(***************************************************************************)
(* The lines a shell of this kind understands, as a grammar over tokens:   *)
(* what modules SyntaxCheck and Parser are measured against.               *)
(*                                                                         *)
(*   list  ::= cmd | cmd op list          op    ::= "|" | "&&"             *)
(*   cmd   ::= item+ | "(" list ")" redir*                                 *)
(*   item  ::= "w" | redir                redir ::= ["3"] "<" file          *)
(*                                       file  ::= "w" | "3"               *)
(*                                                                         *)
(* "w" stands for a word, "3" for digits, "<" for any redirection          *)
(* operator, "&&" for "||" as well.  In a line "w" is a character that     *)
(* means nothing, an escaped one too, and "3" one digit; a line has        *)
(* spaces, "sp", and the two quotes, "dq" and "sq", as well.  An escaped   *)
(* bracket, "esc(" or "esc)", means no more than a "w": it is a token of   *)
(* its own because the parser looks at its second character alone.         *)
(***************************************************************************)
EXTENDS Integers, Sequences, FiniteSets

Quotes    == {"dq", "sq"}
Operators == {"|", "&&"}
Escaped   == {"esc(", "esc)"}
AllTokens == Quotes \cup Operators \cup Escaped \cup {"w", "3", "sp", "<", "(", ")"}

From(s, i) == SubSeq(s, i, Len(s))
-----------------------------------------------------------------------------
\* Quote(line)[i]: the quote that is open behind position i, or "none".
Quote(line) ==
  LET q[i \in 0..Len(line)] ==
        IF i = 0 THEN "none"
        ELSE LET before == q[i - 1]
             IN  IF before = "none" THEN IF line[i] \in Quotes THEN line[i] ELSE "none"
                 ELSE IF line[i] = before THEN "none" ELSE before
  IN  q

QuoteOpen(line) == Quote(line)[Len(line)] # "none"

\* The positions that are not quoted, quotes themselves left out.
Plain(line) ==
  LET quote == Quote(line)
  IN  {i \in 1..Len(line) : quote[i - 1] = "none" /\ line[i] \notin Quotes}

\* Position i belongs to a word.
InWord(line, i) == i \in Plain(line) => line[i] \in {"w", "3"} \cup Escaped

\* Position i begins digits with a redirection operator right behind them.
Number(line, i) ==
  LET plain == Plain(line)
  IN  \E k \in plain : /\ i < k /\ line[k] = "<"
                      /\ \A j \in i..(k - 1) : j \in plain /\ line[j] = "3"

\* What position i adds to the reading of a line: nothing, or one token.
Piece(line, i) ==
  CASE InWord(line, i) /\ i > 1 /\ InWord(line, i - 1)    -> <<>>
    [] InWord(line, i) /\ (i > 1 => ~InWord(line, i - 1)) ->
         IF Number(line, i) THEN <<"3">> ELSE <<"w">>
    [] ~InWord(line, i) /\ line[i] = "sp"                 -> <<>>
    [] ~InWord(line, i) /\ line[i] # "sp"                 -> <<line[i]>>

\* Read(line)[i]: what has been read up to position i.
Read(line) ==
  LET read[i \in 0..Len(line)] == IF i = 0 THEN <<>> ELSE read[i - 1] \o Piece(line, i)
  IN  read

\* The line without its spaces: what stands together is one word, except for
\* digits in front of a redirection operator.
Reading(line) == Read(line)[Len(line)]
-----------------------------------------------------------------------------
Readings == Seq(Operators \cup {"w", "3", "<", "(", ")"})

AfterRedir(s) ==
  CASE Len(s) >= 2 /\ s[1] = "<" /\ s[2] \in {"w", "3"}                -> From(s, 3)
    [] Len(s) >= 3 /\ s[1] = "3" /\ s[2] = "<" /\ s[3] \in {"w", "3"} -> From(s, 4)
    [] OTHER -> <<"none">>

IsRedirs[s \in Readings] ==
  s = <<>> \/ (AfterRedir(s) # <<"none">> /\ IsRedirs[AfterRedir(s)])

IsItems[s \in Readings] ==
  \/ s = <<>>
  \/ s[1] = "w" /\ IsItems[Tail(s)]
  \/ AfterRedir(s) # <<"none">> /\ IsItems[AfterRedir(s)]

IsList[s \in Readings] ==
  LET IsCommand(c) ==
        /\ c # <<>>
        /\ \/ IsItems[c]
           \/ /\ c[1] = "("
              /\ \E k \in 2..Len(c) : /\ c[k] = ")"
                                      /\ IsList[SubSeq(c, 2, k - 1)]
                                      /\ IsRedirs[From(c, k + 1)]
  IN  \/ IsCommand(s)
      \/ \E k \in 1..Len(s) : /\ s[k] \in Operators
                              /\ IsCommand(SubSeq(s, 1, k - 1))
                              /\ IsList[From(s, k + 1)]

Count(s, x) == Cardinality({i \in 1..Len(s) : s[i] = x})

\* What comes on the next line can make it a list; the file of a redirection
\* has to stand on the line of its operator.
Completable(s) ==
  LET closing == [k \in 1..(Count(s, "(") - Count(s, ")")) |-> ")"]
  IN  /\ s # <<>> => s[Len(s)] # "<"
      /\ IsList[s \o closing] \/ IsList[s \o <<"w">> \o closing]
=============================================================================
