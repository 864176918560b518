-------------------------------- MODULE Words --------------------------------
(***************************************************************************)
(* The redirection parser and the tokenizer measured against module        *)
(* Fields, for one command whose variable "a" may get a new value between  *)
(* the moment its line is parsed and the moment it is executed.            *)
(*                                                                         *)
(* The code departs from that reading for some kinds of text.  Regular     *)
(* names every one of them; README.md has an example of each.              *)
(***************************************************************************)
EXTENDS RedirectParser, Fields

\* What a name stands for, with v for the value of "a".
Env(v, name) == CASE name = <<"a">> -> v
                  [] name = <<"?">> -> Status
                  [] name = <<"~">> -> Home
                  [] name \notin {<<"a">>, <<"?">>, <<"~">>} -> <<>>
EnvNow(name)    == Env(value, name)
EnvParsed(name) == Env(parsed, name)
-----------------------------------------------------------------------------
\* Nothing is left open: a quote, or a backslash as the last character.
Complete(s) == State(s)[Len(s)] = "plain"

\* Two quote characters do not stand together, and one that is escaped or
\* stands between other quotes is not there at all.
QuotesApart(s) ==
  \A i \in {i \in 1..Len(s) : s[i] \in Quotes} :
    /\ At(s, i + 1) \notin Quotes
    /\ \/ State(s)[i - 1] \in {"plain", s[i]}
       \/ State(s)[i - 1] = "ansi" /\ s[i] = "sq"

\* No operator is escaped, and no digits of one stand behind an escaped blank.
OperatorsPlain(s) ==
  \A i \in 1..Len(s) : s[i] = "<" =>
    /\ State(s)[i - 1] # "escaped"
    /\ \A k \in 2..i : At(s, k - 1) = " " /\ (\A j \in k..(i - 1) : s[j] = "3")
         => State(s)[k - 2] # "escaped"

\* In the name of a file a backslash is not behind a quote or an escaped
\* character.
EscapesApart(s) ==
  \A r \in Redirections(s) : \A i \in r.name..(r.end - 1) :
    s[i] = "bs" => At(s, i - 1) \notin Quotes \cup {"bs"} /\ At(s, i - 2) # "bs"

\* The digits of an operator are not the name of the file before it.
DigitsOwn(s) ==
  \A q, r \in Redirections(s) : q.name = r.start => r.start = r.op

CutRegular(s) == /\ Complete(s) /\ QuotesApart(s) /\ OperatorsPlain(s)
                 /\ EscapesApart(s) /\ DigitsOwn(s)
-----------------------------------------------------------------------------
\* The words as they are written: their first and last positions.
Written(s) ==
  LET state == State(s)
      Blank(i) == s[i] \in Blanks /\ state[i - 1] = "plain"
  IN  {w \in (1..Len(s)) \X (1..Len(s)) :
         /\ w[1] <= w[2] /\ \A i \in w[1]..w[2] : ~Blank(i)
         /\ w[1] = 1 \/ Blank(w[1] - 1)
         /\ w[2] = Len(s) \/ Blank(w[2] + 1)}

HasStar(s, w) == LET state == State(s)
                 IN  \E i \in w[1]..w[2] : s[i] = "*" /\ state[i - 1] = "plain"

\* What a written word emits.
Left(s, w, env(_)) == FlattenSeq(SubSeq(Emission(s, env), w[1], w[2]))

\* A word that its variables leave nothing of is not the last one, unless it
\* is the first as well, and has no star behind it.
NothingVanishes(s, env(_)) ==
  LET written == Written(s)
  IN  \A w \in written : Left(s, w, env) = <<>> =>
        /\ \/ \A x \in written : x[1] >= w[1]
           \/ \E x \in written : x[1] > w[1]
        /\ ~\E x \in written : x[1] > w[1] /\ HasStar(s, x)

\* If the text begins with a variable, the first word that is left is not empty.
CommandThere(s, env(_)) ==
  LET left == {w \in Written(s) : Left(s, w, env) # <<>>}
  IN  At(s, spaces_clean(s, 1)) = "$" =>
        \A w \in left : \/ \E x \in left : x[1] < w[1]
                        \/ ToSet(Left(s, w, env)) # {"null"}

\* A variable has no status and no lone "$" directly behind it.
DollarsApart(s) ==
  \A d \in Dollars(s) : LET e == DollarEnd(s, d)
                        IN  At(s, e) = "$" => e \in Dollars(s) /\ At(s, e + 1) # "?"

\* A word with a star has nothing else but letters, other stars, and "?" as the
\* first character of the word or behind a star, where a name has a character
\* for it.
StarsPlain(s) ==
  \A w \in Written(s) : HasStar(s, w) =>
    \A i \in w[1]..w[2] : \/ s[i] \in Letters \cup {"*"}
                          \/ s[i] = "?" /\ (i = w[1] \/ s[i - 1] = "*")

\* A tilde has a plain blank in front of it, or is the first word or the name
\* of a file, and has no variable in front and no user's name behind it.
TildesAlone(s) ==
  \A i \in {i \in 1..Len(s) : s[i] = "~" /\ State(s)[i - 1] = "plain"} :
    /\ ~\E d \in Dollars(s) : DollarEnd(s, d) = i
    /\ At(s, i + 1) \in Blanks \cup {"nul", "/"}
    /\ At(s, i + 1) = "/" => At(s, i - 1) = " " /\ ~\E r \in Redirections(s) : r.name = i
    /\ At(s, i - 1) = " " => State(s)[i - 2] = "plain"

Regular(s, env(_)) ==
  /\ CutRegular(s) /\ DollarsApart(s) /\ TildesAlone(s)
  /\ LET r == RestOf(s)
     IN  NothingVanishes(r, env) /\ CommandThere(r, env) /\ StarsPlain(r)

\* A line of a here-document has backslashes only in front of "$" and of each
\* other, a lone "$" only as its last character or in front of a space and not
\* behind a variable, as little as a status is, and does not become the
\* delimiter by what its variables stand for.
LineRegular(s, env(_)) ==
  /\ \A i \in (1..Len(s)) \ Escaped(s) :
       /\ s[i] = "bs" => At(s, i + 1) \in {"$", "bs"}
       /\ s[i] = "$" => i \in LineDollars(s) \/ At(s, i + 1) \in {" ", "nul"}
  /\ \A d \in LineDollars(s) :
       LET e == DollarEnd(s, d) IN At(s, e) = "$" => e \in LineDollars(s) /\ At(s, e + 1) # "?"
  /\ LineOf(s, env) = Limitator => s = Limitator
-----------------------------------------------------------------------------
\* What the redirections of the text are, read as module Fields does.
Expected ==
  LET rs == InOrder(Redirections(text))
  IN  [k \in 1..Len(rs) |->
        [fd   |-> rs[k].op - rs[k].start,
         file |-> FileOf(SubSeq(text, rs[k].name, rs[k].end - 1), EnvParsed)]]

\* extract_redirect() against the text: every redirection is found, with its
\* digits and its name, none that is quoted is taken for one, and the name is
\* made of the value a variable has when the line is parsed.
FilesCorrect ==
  pc = "name" /\ step = "first" /\ CutRegular(text) /\ DollarsApart(text) /\ TildesAlone(text)
    => redirects = Expected

\* The words of a command are those of its text without the redirections, and
\* are made of the value a variable has when the command is executed.
WordsCorrect ==
  pc = "done" /\ Regular(text, EnvNow) => words = FieldsOf(RestOf(text), EnvNow)

\* The command that is_builtin() has judged, for the shell to run it itself or
\* in a child, is the one that is run.
SameCommand ==
  pc = "done" /\ Regular(text, EnvNow)
    => command = IF words = <<>> THEN <<>> ELSE <<words[1]>>

\* Only the text of an irregular command or line is read behind its end.  (The
\* byte in front of a text, which two tests look at, is not read in the model.)
InText == /\ pc = "lost"   => ~Regular(text, EnvNow)
          /\ pc = "beyond" => ~LineRegular(text, EnvNow)

\* A here-document ends at its delimiter, or at a line that expands to it and is
\* irregular for that, and nowhere else, and the command
\* gets every line with its variables expanded, or, if the delimiter was
\* quoted, as it was typed.
DocumentCorrect ==
  pc \in {"written", "ended"} /\ (hdoc_is_quoted \/ LineRegular(text, EnvNow)) =>
    /\ words = <<IF hdoc_is_quoted THEN text ELSE LineOf(text, EnvNow)>>
    /\ pc = "ended" <=> text = Limitator

\* No text starts inside the $'...' of one before it, be it of this line or of
\* the next, unless that one is not cut as it says, with a quote left open.
StartsFresh == (step = "first" \/ pc = "done") /\ tk.is_quoted_dolar => ~CutRegular(text)
=============================================================================
