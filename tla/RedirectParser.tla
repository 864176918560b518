--------------------------- MODULE RedirectParser ---------------------------
(***************************************************************************)
(* src/parser/redirections.c, redirect_utils.c and redirect_utilities.c:   *)
(* the redirections are cut out of the text of a node while the line is    *)
(* parsed, and their file names are expanded on the spot, by the machine   *)
(* of module Tokenizer.  Then the commands are run, one after the other,   *)
(* and each one's words are what that machine makes of the rest of its     *)
(* text, with the values the variables have by then; before that, it is    *)
(* started for the first word alone, as is_builtin() in exec_utils.c does. *)
(*                                                                         *)
(* "<" is any of the four operators.  The lines of a here-document are     *)
(* read when the command's redirections are made, and are expanded by      *)
(* another function than everything else.                                  *)
(***************************************************************************)
EXTENDS Tokenizer, FiniteSets

CONSTANTS
  Texts,   \* the texts a node may have
  Lines,      \* the lines of a here-document
  Limitator,  \* its delimiter
  Values   \* the values of the variable "a"

VARIABLES
  text,       \* the text of the node
  hdoc_is_quoted,  \* the delimiter of the document was written with quotes
  pc,         \* where the shell is with it
  data,       \* where extract_redirects_and_clean() is in the text
  is,         \* the quotes it believes to be open: is.quoted, is.dbl_quoted
  rest,       \* its new_data: the text without the redirections
  redirects,  \* the node's redirections
  parsed,     \* the value of "a" when the line was parsed
  command     \* the first word, if there is one, as is_builtin() sees it

fixed == <<text, hdoc_is_quoted>>
vars  == <<value, tvars, fixed, pc, data, is, rest, redirects, parsed, command>>

\* check_quotes(): for every quote of a run, the flag of its kind is turned.
check_quotes(s, i, open) ==
  LET end == CHOOSE k \in i..(Len(s) + 1) : /\ At(s, k) \notin Quotes
                                           /\ \A j \in i..(k - 1) : s[j] \in Quotes
      odd(q) == Cardinality({j \in i..(end - 1) : s[j] = q}) % 2 = 1
  IN  [next |-> end, open |-> {q \in Quotes : (q \in open) # odd(q)}]

\* Seeded fault: the end of the text is no end of a file name.
is_redirect_limit_Blank(c) == c \in {"<", " "}

is_redirect_limit(c) == c \in {"<", " ", "nul"}

\* Seeded fault: digits count wherever they stand.
get_redirect_start_Anywhere(s, i) ==
  CHOOSE k \in 1..i : /\ \A j \in k..(i - 1) : s[j] = "3"
                      /\ k = 1 \/ s[k - 1] # "3"

\* get_redirect_start(): digits count at the start of the text or behind a
\* space.
get_redirect_start(s, i) ==
  LET k == CHOOSE k \in 1..i : /\ \A j \in k..(i - 1) : s[j] = "3"
                               /\ k = 1 \/ s[k - 1] # "3"
  IN  IF k = 1 \/ At(s, k - 1) = " " THEN k ELSE i

\* get_redirect_end(): one behind the NUL if a quote seems to be open there.
get_redirect_end(s, i) ==
  LET e[k \in i..(Len(s) + 2), open \in SUBSET Quotes] ==
        LET past == IF At(s, k) # "bs" THEN k ELSE IF k < Len(s) THEN k + 2 ELSE k + 1
            now  == check_quotes(s, past, open)
        IN  CASE k > Len(s) -> k
              [] k <= Len(s) /\ is_redirect_limit(At(s, now.next)) /\ now.open = {} -> now.next
              [] OTHER -> e[now.next + 1, now.open]
  IN  e[spaces_clean(s, i), {}]

\* clean_data(): the last n characters are replaced by a space.
clean_data(s, n) == Append(IF n <= Len(s) THEN Part(s, 1, Len(s) - n) ELSE s, " ")
-----------------------------------------------------------------------------
Init == /\ \/ text \in Texts /\ pc = "cut" /\ hdoc_is_quoted = FALSE
           \/ text \in Lines /\ pc = "line" /\ hdoc_is_quoted \in BOOLEAN
        /\ value \in Values
        /\ data = 1 /\ is = {}
        /\ rest = <<>> /\ redirects = <<>> /\ parsed = value /\ command = <<>>
        /\ tk = NoText /\ new_data = <<>> /\ words = <<>> /\ step = "over"

AtRedirect == data <= Len(text) /\ text[data] = "<" /\ is = {}

\* One character of the loop; a backslash has its flag back before the next.
Copy ==
  /\ pc = "cut" /\ data <= Len(text) /\ ~AtRedirect
  /\ is' = check_quotes(text, data, is).open
  /\ rest' = Append(rest, text[data])
  /\ data' = data + 1
  /\ UNCHANGED <<value, tvars, fixed, pc, redirects, parsed, command>>

\* extract_redirect(): the operator, its digits and its file name.
Extract ==
  /\ pc = "cut" /\ AtRedirect
  /\ LET start == get_redirect_start(text, data)
         file  == spaces_clean(text, data + 1)
         end   == get_redirect_end(text, data + 1)
         raw   == Part(text, file, end - 1)
     IN  IF end > Len(text) + 1
         THEN pc' = "lost" /\ UNCHANGED <<tvars, data, rest, redirects>>
         ELSE /\ redirects' = Append(redirects, [fd |-> data - start, file |-> <<>>])
              /\ rest' = clean_data(Append(rest, " "), data - start + 1)
              /\ init_tokenizer(IF raw = <<"~">> THEN <<" ", "~", " ">> ELSE raw, FALSE)
              /\ data' = spaces_clean(text, end)
              /\ pc' = "file"
  /\ UNCHANGED <<value, fixed, is, parsed, command>>

\* redirect_expander(): the words of the file name are put together.
FileExpanded ==
  /\ pc = "file" /\ step = "over"
  /\ redirects' = [redirects EXCEPT ![Len(redirects)].file = FlattenSeq(words)]
  /\ pc' = "cut"
  /\ UNCHANGED <<value, tvars, fixed, data, is, rest, parsed, command>>

\* is_builtin(): the parser is done, the commands before this one may have set
\* the variable, and the first word tells whether the shell runs the command
\* itself.
Judge ==
  /\ pc = "cut" /\ data > Len(text)
  /\ value' \in Values
  /\ init_tokenizer(rest, TRUE)
  /\ pc' = "name"
  /\ UNCHANGED <<fixed, data, is, rest, redirects, parsed, command>>

\* execute_command(): all the words, from the start.
Execute ==
  /\ pc = "name" /\ step \in {"next", "over"}
  /\ command' = words
  /\ init_tokenizer(rest, TRUE)
  /\ pc' = "words"
  /\ UNCHANGED <<value, fixed, data, is, rest, redirects, parsed>>

Word == /\ pc \in {"file", "name", "words"} /\ step # "over"
        /\ pc = "name" => step # "next"
        /\ Tokenize
        /\ pc' = IF step' = "lost" THEN "lost" ELSE pc
        /\ UNCHANGED <<value, fixed, data, is, rest, redirects, parsed, command>>

Expanded ==
  /\ pc = "words" /\ step = "over"
  /\ pc' = "done"
  /\ UNCHANGED <<value, tvars, fixed, data, is, rest, redirects, parsed, command>>

\* own_here_doc_while(): one line, that ends the document if it is the
\* delimiter once it has been expanded.
DocumentLine ==
  /\ pc = "line"
  /\ LET line == IF hdoc_is_quoted THEN [str |-> text, lost |-> FALSE]
                 ELSE str_dollar_expander(text)
     IN  /\ words' = <<line.str>>
         /\ pc' = CASE line.lost -> "beyond"
                    [] ~line.lost /\ line.str = Limitator -> "ended"
                    [] ~line.lost /\ line.str # Limitator -> "written"
  /\ UNCHANGED <<value, tk, new_data, step, fixed, data, is, rest, redirects, parsed, command>>

Finished == pc \in {"done", "lost", "written", "ended", "beyond"} /\ UNCHANGED vars

Next == \/ Copy \/ Extract \/ FileExpanded
        \/ Judge \/ Execute \/ Word \/ Expanded
        \/ DocumentLine
        \/ Finished

Spec == Init /\ [][Next]_vars
=============================================================================
