------------------------------- MODULE Fields -------------------------------
(***************************************************************************)
(* What the text of one command means to a shell of this kind: which       *)
(* redirections it has, and which words, once quotes are removed and       *)
(* variables and patterns are expanded.  Modules Tokenizer and             *)
(* RedirectParser are measured against this.                               *)
(*                                                                         *)
(* Every character is read in the state its predecessors leave behind, and *)
(* emits a few marks: characters of a word, "sep" between two words,       *)
(* "null" where a quote stood, "glob" for a star that is not quoted.       *)
(***************************************************************************)
EXTENDS Wildcard, FiniteSets

Blanks    == {" ", "nl"}
NameChars == {"w", "a", "n", "3"}

\* State(s)[i]: how the character behind position i is read.
State(s) ==
  LET state[i \in 0..Len(s)] ==
        IF i = 0 THEN "plain"
        ELSE LET c == s[i]  b == state[i - 1]
             IN  CASE b = "plain" /\ c = "bs" -> "escaped"
                   [] b = "plain" /\ c = "dq" -> "dq"
                   [] b = "plain" /\ c = "sq" ->
                        IF At(s, i - 1) = "$" /\ state[i - 2] = "plain" THEN "ansi" ELSE "sq"
                   [] b = "dq" /\ c = "bs" /\ At(s, i + 1) \in {"dq", "$", "bs"} -> "dqescaped"
                   [] \/ b \in {"escaped"}
                      \/ b = "dq" /\ c = "dq"
                      \/ b \in {"sq", "ansi"} /\ c = "sq" -> "plain"
                   [] b = "dqescaped" -> "dq"
                   [] OTHER -> b
  IN  state

Closed(s) == State(s)[Len(s)] = "plain"

\* The end of the run of characters of a set that begins at i.
RunEnd(s, i, set) == CHOOSE k \in i..(Len(s) + 1) :
                       /\ At(s, k) \notin set
                       /\ \A j \in i..(k - 1) : s[j] \in set
-----------------------------------------------------------------------------
\* The redirections: [op, start, name, end] are the positions of the operator,
\* of its digits, and of the file name.
Redirections(s) ==
  LET b == State(s)
      Plain(i) == b[i - 1] = "plain"
      Ends(k) == k > Len(s) \/ (Plain(k) /\ s[k] \in Blanks \cup {"<"})
      Number(i, k) == /\ \A j \in k..(i - 1) : s[j] = "3" /\ Plain(j)
                      /\ k = 1 \/ (Plain(k - 1) /\ s[k - 1] \in Blanks)
      NameOf(i) == RunEnd(s, i + 1, Blanks)
  IN  {[op    |-> i,
        start |-> Min({i} \cup {k \in 1..i : Number(i, k)}),
        name  |-> NameOf(i),
        end   |-> Min({k \in NameOf(i)..(Len(s) + 1) : Ends(k)})] :
         i \in {i \in 1..Len(s) : s[i] = "<" /\ Plain(i)}}

InOrder(rs) == SetToSortSeq(rs, LAMBDA x, y : x.op < y.op)

\* The text with a space in the place of every redirection.
RestOf(s) ==
  LET rs == Redirections(s)
      Piece(i) == CASE \E r \in rs : i = r.op -> <<" ">>
                    [] \E r \in rs : i \in r.start..(r.end - 1) /\ i # r.op -> <<>>
                    [] ~\E r \in rs : i \in r.start..(r.end - 1) -> <<s[i]>>
  IN  FlattenSeq([i \in 1..Len(s) |-> Piece(i)])
-----------------------------------------------------------------------------
\* The name behind a "$" at i.
NameAt(s, i) == SubSeq(s, i + 1, RunEnd(s, i + 1, NameChars) - 1)

\* Dollars(s): the "$" that stand for a variable or for the status.
Dollars(s) ==
  LET state == State(s)
  IN  {i \in 1..Len(s) : /\ s[i] = "$" /\ state[i - 1] \in {"plain", "dq"}
                         /\ At(s, i + 1) \in NameChars \cup {"?"}}

DollarEnd(s, i) == IF At(s, i + 1) = "?" THEN i + 2 ELSE RunEnd(s, i + 1, NameChars)

\* Emission(s, env)[i]: what the character at i emits.  env: what a name
\* stands for, "?" the status and "~" the tilde.
Emission(s, env(_)) ==
  LET state == State(s)
      dollars == Dollars(s)
      hidden == UNION {(d + 1)..(DollarEnd(s, d) - 1) : d \in dollars}
      split(v) == [k \in 1..Len(v) |-> IF v[k] = " " THEN "sep" ELSE v[k]]
      Emit(i, b, c, next) ==
        LET here == env(IF next = "?" THEN <<"?">> ELSE NameAt(s, i))
        IN  CASE i \in hidden -> <<>>
              [] i \in dollars -> IF b = "plain" THEN split(here) ELSE here
              [] b = "plain" /\ c \in Blanks -> <<"sep">>
              [] b = "plain" /\ c = "*" -> <<"glob">>
              [] /\ b = "plain" /\ c = "~" /\ next \in Blanks \cup {"/", "nul"}
                 /\ i = 1 \/ (s[i - 1] \in Blanks /\ state[i - 2] = "plain") -> env(<<"~">>)
              [] \/ b = "plain" /\ c \in {"dq", "sq"}
                 \/ b = "dq" /\ c = "dq"
                 \/ b \in {"sq", "ansi"} /\ c = "sq" -> <<"null">>
              [] \/ b = "plain" /\ c = "bs"
                 \/ b = "dq" /\ c = "bs" /\ next \in {"dq", "$", "bs"}
                 \/ b = "ansi" /\ c = "bs" /\ next = "n"
                 \/ b = "plain" /\ c = "$" /\ next \in {"dq", "sq"} -> <<>>
              [] b = "ansi" /\ c = "n" /\ At(s, i - 1) = "bs" -> <<"nl">>
              [] OTHER -> <<c>>
  IN  [i \in 1..Len(s) |-> Emit(i, state[i - 1], s[i], At(s, i + 1))]

\* The marks between two "sep": a word, unless there is nothing at all.
Marked(s, env(_)) ==
  LET add(ws, m) == IF m = "sep" THEN Append(ws, <<>>)
                    ELSE [ws EXCEPT ![Len(ws)] = Append(@, m)]
  IN  SelectSeq(FoldLeft(add, <<<<>>>>, FlattenSeq(Emission(s, env))), LAMBDA w : w # <<>>)

Unmarked(w) == LET plain == SelectSeq(w, LAMBDA m : m # "null")
               IN  [k \in 1..Len(plain) |-> IF plain[k] = "glob" THEN "*" ELSE plain[k]]

\* Every name has a piece for each character of the pattern.
Glob(name, pattern) ==
  \E end \in [0..Len(pattern) -> 0..Len(name)] :
    /\ end[0] = 0 /\ end[Len(pattern)] = Len(name)
    /\ \A j \in 1..Len(pattern) :
         CASE pattern[j] = "*"          -> end[j] >= end[j - 1]
           [] pattern[j] = "?"          -> end[j] = end[j - 1] + 1
           [] pattern[j] \notin {"*", "?"} ->
                end[j] = end[j - 1] + 1 /\ name[end[j]] = pattern[j]

\* The names in the working directory a word stands for, or the word.
Names(w) ==
  LET matching == SelectSeq(Dirs[Cwd], LAMBDA f : f[1] # "." /\ Glob(f, Unmarked(w)))
  IN  IF "glob" \in ToSet(w) /\ matching # <<>> THEN matching ELSE <<Unmarked(w)>>

FieldsOf(s, env(_)) ==
  LET ws == Marked(s, env) IN FlattenSeq([k \in 1..Len(ws) |-> Names(ws[k])])

FileOf(s, env(_)) ==
  LET ws == Marked(s, env) IN FlattenSeq([k \in 1..Len(ws) |-> Unmarked(ws[k])])
-----------------------------------------------------------------------------
\* In a line of a here-document quotes mean nothing, and a backslash only in
\* front of "$" and of another one.
Escaped(s) == LET escaped[i \in 0..(Len(s) + 1)] ==
                    i > 1 /\ s[i - 1] = "bs" /\ ~escaped[i - 1]
              IN  {i \in 1..(Len(s) + 1) : escaped[i]}

LineDollars(s) == {i \in (1..Len(s)) \ Escaped(s) :
                     s[i] = "$" /\ At(s, i + 1) \in NameChars \cup {"?"}}

LineOf(s, env(_)) ==
  LET hidden == UNION {(d + 1)..(DollarEnd(s, d) - 1) : d \in LineDollars(s)}
      Emit(i) ==
        CASE i \in hidden -> <<>>
          [] i \in LineDollars(s) -> env(IF s[i + 1] = "?" THEN <<"?">> ELSE NameAt(s, i))
          [] s[i] = "bs" /\ i \notin Escaped(s) /\ At(s, i + 1) \in {"$", "bs"} -> <<>>
          [] OTHER -> <<s[i]>>
  IN  FlattenSeq([i \in 1..Len(s) |-> Emit(i)])
=============================================================================
