------------------------------ MODULE Tokenizer ------------------------------
(***************************************************************************)
(* src/executor/expander.c, expand_handler.c, expander_utils.c and         *)
(* expander_utils2.c: the machine that cuts a text into words while it     *)
(* expands it.  What an expansion gives is put in front of the rest of the *)
(* text, and the machine goes on with that.  Its state is one static       *)
(* variable, used for every text of the program.                           *)
(*                                                                         *)
(* A position is an index into the text; one behind its last character is  *)
(* that of the NUL.                                                        *)
(***************************************************************************)
EXTENDS Wildcard

CONSTANTS
  Home,    \* the value of HOME
  Users,   \* the paths that exist below /Users
  Status   \* num_return_error, written as a number

VARIABLES
  value,     \* the value of the variable "a", the one that is set
  tk,        \* the static t_tokener
  new_data,  \* the word in the making
  words,     \* the words that have been returned for this text
  step       \* where token_and_expand() is

tvars == <<tk, new_data, words, step>>

Letters == {"w", "a", "n"}
Quotes  == {"dq", "sq"}
Spaces  == {" ", "nl"}

\* is_word_limit()
LIM_DOLLAR   == {"$", "/", "dq", "sq", "nul", "bs", "?", "*", "~", "<", " ", "nl"}
LIM_WILDCARD == {"<", " ", "nul"}
LIM_INIT     == {"/", "$", "dq", "sq", "nul", "<", " "}

spaces_clean(s, i) == CHOOSE k \in i..(Len(s) + 1) :
                        /\ At(s, k) \notin Spaces
                        /\ \A j \in i..(k - 1) : s[j] \in Spaces

get_word_end(s, i, limits) == CHOOSE k \in i..(Len(s) + 1) :
                                /\ At(s, k) \in limits
                                /\ \A j \in i..(k - 1) : s[j] \notin limits

\* From the character at i back to the one behind a limit or to min.
get_word_init(s, i, min, limits) ==
  CHOOSE k \in min..i : /\ k = min \/ s[k - 1] \in limits
                        /\ \A j \in k..(i - 1) : s[j] \notin limits

env_get_value(name) == IF name = <<"a">> THEN value ELSE <<>>

\* The text a machine starts with that has not been used.
NoText == [buf |-> <<>>, data |-> 1, full_data |-> 1, is_quoted |-> FALSE,
           is_dbl_quoted |-> FALSE, is_quoted_dolar |-> FALSE, exp_mode |-> 0,
           end_expansion |-> 0, return_token |-> FALSE, cmd_token_dolar |-> FALSE,
           wildcard |-> FALSE]

\* init_tokenizer(): tknexp_init() resets everything but is_quoted_dolar.
init_tokenizer(text, wildcard) ==
  /\ tk' = [NoText EXCEPT !.buf = text, !.is_quoted_dolar = tk.is_quoted_dolar,
                          !.wildcard = wildcard]
  /\ new_data' = <<>> /\ words' = <<>>
  /\ step' = "first"

\* tknexp_init() and the start of token_and_expand(): spaces are passed; at
\* the end of the text there is no word.
InitToken ==
  /\ step \in {"first", "next"}
  /\ LET data == spaces_clean(tk.buf, tk.data)
     IN  /\ tk' = [tk EXCEPT !.full_data = tk.data, !.data = data,
                             !.cmd_token_dolar = (step = "first" /\ At(tk.buf, data) = "$")]
         /\ step' = IF data > Len(tk.buf) THEN "over" ELSE "rounds"
  /\ new_data' = <<>>
  /\ UNCHANGED words
-----------------------------------------------------------------------------
is_literal == tk.is_quoted \/ tk.is_dbl_quoted

\* Seeded fault: an expansion never ends.
pre_conditions_Endless ==
  IF ~is_literal /\ new_data = <<>> THEN [tk EXCEPT !.data = spaces_clean(tk.buf, tk.data)]
  ELSE tk

pre_conditions ==
  LET data == IF ~is_literal /\ new_data = <<>> THEN spaces_clean(tk.buf, tk.data) ELSE tk.data
  IN  [tk EXCEPT !.data = data,
                 !.exp_mode = IF data >= tk.end_expansion THEN 0 ELSE @]

More    == step = "rounds" /\ tk.data <= Len(tk.buf) /\ ~tk.return_token
ready   == pre_conditions
char    == At(ready.buf, ready.data)
next    == At(ready.buf, ready.data + 1)
Round(c) == More /\ char = c /\ UNCHANGED <<words, step>>

is_especial == char = "bs" /\ next = "n"

Escapes  == \/ ~tk.is_quoted /\ ready.exp_mode = 0
            \/ tk.is_quoted_dolar /\ is_especial
Expands  == ~tk.is_quoted /\ ready.exp_mode = 0
Globs    == ~is_literal /\ ready.exp_mode # 2 /\ tk.wildcard

\* The character at data becomes part of the word.
Taken(c) == /\ new_data' = Append(new_data, c)
            /\ tk' = [ready EXCEPT !.data = @ + 1]

scape_handler ==
  /\ Round("bs") /\ Escapes
  /\ \/ /\ next = "nul"
        /\ tk' = [ready EXCEPT !.data = @ + 1]
        /\ UNCHANGED new_data
     \/ /\ next # "nul" /\ tk.is_dbl_quoted /\ next \notin {"dq", "$", "bs"}
        /\ Taken("bs")
     \/ /\ next # "nul" /\ (tk.is_dbl_quoted => next \in {"dq", "$", "bs"})
        /\ tk' = [ready EXCEPT !.data = @ + 2]
        /\ new_data' = CASE ~tk.is_quoted_dolar                -> Append(new_data, next)
                         [] tk.is_quoted_dolar /\ is_especial  -> Append(new_data, "nl")
                         [] tk.is_quoted_dolar /\ ~is_especial -> new_data

\* Seeded fault: $'...' is not over at its second quote.
turn_single_KeepsDollar(t) == [t EXCEPT !.is_quoted = ~@]

turn_single(t) == [t EXCEPT !.is_quoted = ~@, !.is_quoted_dolar = @ /\ ~t.is_quoted]
turn_double(t) == [t EXCEPT !.is_dbl_quoted = ~@]

quotes_handler ==
  /\ More /\ char \in Quotes
  /\ LET single == char = "sq" /\ ~tk.is_dbl_quoted /\ ready.exp_mode = 0
         double == char = "dq" /\ ~tk.is_quoted /\ ready.exp_mode = 0
         now    == IF single THEN turn_single(ready)
                   ELSE IF double THEN turn_double(ready) ELSE ready
     IN  /\ new_data' = IF single \/ double THEN new_data ELSE Append(new_data, char)
         /\ tk' = [now EXCEPT !.data = @ + 1,
                     !.return_token = @ \/ (next = " " /\ ~now.is_quoted /\ ~now.is_dbl_quoted)]
  /\ UNCHANGED <<words, step>>

\* dolar_expansion(): all the variables that stand together; "$?" replaces
\* what the ones before it have given.
RECURSIVE dolar_expansion(_, _, _)
dolar_expansion(s, i, expanded) ==
  LET end == get_word_end(s, i + 1, LIM_DOLLAR)
  IN  CASE At(s, i) # "$" -> [expanded |-> expanded, rest |-> From(s, i)]
        [] At(s, i) = "$" /\ At(s, i + 1) = "?" -> dolar_expansion(s, i + 2, Status)
        [] At(s, i) = "$" /\ At(s, i + 1) \in {"nul", " "} ->
             dolar_expansion(s, i + 1, Append(expanded, "$"))
        [] At(s, i) = "$" /\ At(s, i + 1) \notin {"?", "nul", " "} ->
             dolar_expansion(s, end, expanded \o env_get_value(Part(s, i + 1, end - 1)))

\* Seeded fault: an escaped "$" is expanded.
RECURSIVE str_dollar_expander_Unescaped(_)
str_dollar_expander_Unescaped(s) ==
  LET put(str, line) == [line EXCEPT !.str = str \o @]
  IN  CASE s = <<>> -> [str |-> <<>>, lost |-> FALSE]
        [] At(s, 1) = "$" -> LET e == dolar_expansion(s, 1, <<>>)
                             IN  put(e.expanded, str_dollar_expander_Unescaped(e.rest))
        [] At(s, 1) \notin {"nul", "$"} ->
             put(<<s[1]>>, str_dollar_expander_Unescaped(From(s, 2)))

\* str_dollar_expander(), for a line of a here-document; "lost" is a backslash
\* that takes the NUL with it.
RECURSIVE str_dollar_expander(_)
str_dollar_expander(s) ==
  LET put(str, line) == [line EXCEPT !.str = str \o @]
  IN  CASE s = <<>>     -> [str |-> <<>>, lost |-> FALSE]
        [] s = <<"bs">> -> [str |-> <<>>, lost |-> TRUE]
        [] At(s, 1) = "bs" /\ Len(s) > 1 -> put(<<s[2]>>, str_dollar_expander(From(s, 3)))
        [] At(s, 1) = "$" -> LET e == dolar_expansion(s, 1, <<>>)
                             IN  put(e.expanded, str_dollar_expander(e.rest))
        [] At(s, 1) \notin {"nul", "bs", "$"} ->
             put(<<s[1]>>, str_dollar_expander(From(s, 2)))

\* The expansion and the rest of the text become the text.
Rewritten(t, mode, expanded, rest) ==
  [t EXCEPT !.buf = expanded \o rest, !.data = 1, !.full_data = 0,
            !.exp_mode = mode, !.end_expansion = Len(expanded) + 1]

\* dolar_handler() and get_expanded_dollar()
dolar_handler ==
  /\ Round("$") /\ Expands
  /\ \/ /\ next \in LIM_DOLLAR \ {"?"}
        /\ LET quote == next \in Quotes /\ ~is_literal
           IN  /\ new_data' = IF quote THEN new_data ELSE Append(new_data, "$")
               /\ tk' = [ready EXCEPT !.data = @ + 1,
                                      !.is_quoted_dolar = @ \/ (quote /\ next = "sq")]
     \/ /\ next \notin LIM_DOLLAR \ {"?"}
        /\ LET e == dolar_expansion(ready.buf, ready.data, <<>>)
           IN  tk' = Rewritten(ready, 1, e.expanded, e.rest)
        /\ UNCHANGED new_data

\* expand_wildcard(): the whole word around the star is the pattern, and what
\* the word has so far is taken back.  In a text that has been rewritten
\* full_data points into the old one: whether the search for the start of the
\* word goes back at all depends on which of the two has the lower address.
Back(below, limits) ==
  IF below THEN ready.data + 1
  ELSE get_word_init(ready.buf, ready.data,
                     IF ready.full_data = 0 THEN 1 ELSE ready.full_data, limits)

expand_wildcard ==
  /\ More /\ char = "*" /\ Globs
  /\ \E below \in IF ready.full_data = 0 THEN BOOLEAN ELSE {FALSE} :
       LET kept  == Len(new_data) - (ready.data - Back(below, LIM_INIT))
           start == Back(below, LIM_WILDCARD)
           end   == get_word_end(ready.buf, start, LIM_WILDCARD)
           word  == Part(ready.buf, start, end - 1)
       IN  /\ new_data' = IF kept \in 0..Len(new_data) THEN Part(new_data, 1, kept) ELSE new_data
           /\ tk' = Rewritten(ready, 2, expand_str_wildcard(word), From(ready.buf, end))
           /\ step' = IF wildcard_lost(word) THEN "lost" ELSE step
  /\ UNCHANGED words

\* The byte in front of a text is no space.
pre_tilde == At(ready.buf, ready.data - 1)

tilde_home == \/ next \in {" ", "nul"} /\ (ready.data = 1 \/ pre_tilde = " ")
              \/ next = "/" /\ pre_tilde = " "
next_path  == From(ready.buf, ready.data + 1)
tilde_user == ~tilde_home /\ next # "nul" /\ pre_tilde = " "

\* tilde_handler().  "/Users/" is written "/".  expand_tilde() takes all the rest
\* of the text for the path, but passes only the first name in it and one
\* character more: if the text ends with that name, it leaves the text.
tilde_handler ==
  /\ More /\ char = "~" /\ ~is_literal
  /\ \/ /\ tilde_home
        /\ new_data' = new_data \o Home
        /\ tk' = [ready EXCEPT !.data = @ + 1]
        /\ UNCHANGED step
     \/ /\ tilde_user /\ next_path \in Users
        /\ new_data' = new_data \o <<"/">> \o next_path
        /\ LET end == get_word_end(ready.buf, ready.data + 1, LIM_DOLLAR) + 1
           IN  /\ tk' = [ready EXCEPT !.data = end]
               /\ step' = IF end > Len(ready.buf) + 1 THEN "lost" ELSE step
     \/ /\ ~tilde_home /\ (tilde_user => next_path \notin Users)
        /\ Taken("~")
        /\ UNCHANGED step
  /\ UNCHANGED words

other_handler ==
  /\ More /\ char # "nul"
  /\ \/ char = "bs" /\ ~Escapes
     \/ char = "$" /\ ~Expands
     \/ char = "*" /\ ~Globs
     \/ char \in {"~", " "} /\ is_literal
     \/ char \notin Quotes \cup {"bs", "$", "*", "~", " "}
  /\ Taken(char)
  /\ UNCHANGED <<words, step>>
-----------------------------------------------------------------------------
Returned == /\ words' = Append(words, new_data)
            /\ new_data' = <<>>
            /\ step' = "next"

\* A space that is not quoted ends the word.
ReturnAtSpace ==
  /\ More /\ char = " " /\ ~is_literal
  /\ tk' = [ready EXCEPT !.data = @ + 1]
  /\ Returned

\* So does the end of the text, or quotes with a space behind them; a first
\* word that began with "$" and is empty ends everything.
ReturnAtEnd ==
  /\ step = "rounds"
  /\ More => char = "nul"
  /\ LET t == IF More THEN ready ELSE tk
     IN  IF new_data = <<>> /\ tk.cmd_token_dolar
         THEN step' = "over" /\ tk' = t /\ UNCHANGED <<new_data, words>>
         ELSE tk' = [t EXCEPT !.return_token = FALSE] /\ Returned

Tokenize == \/ InitToken \/ scape_handler \/ quotes_handler \/ dolar_handler
            \/ expand_wildcard \/ tilde_handler \/ other_handler
            \/ ReturnAtSpace \/ ReturnAtEnd
=============================================================================
