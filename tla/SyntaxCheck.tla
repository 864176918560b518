---------------------------- MODULE SyntaxCheck ----------------------------
(***************************************************************************)
(* src/parser/syntax_check.c and syntax_util.c: the scanner that accepts a *)
(* line, refuses it, or asks for more of it.  It goes through the line     *)
(* once, from left to right, with a few flags; a line that is continued is *)
(* scanned again from its start.                                           *)
(***************************************************************************)
EXTENDS Grammar

CONSTANTS
  Tokens,     \* the tokens lines are made of
  MaxTokens,  \* the tokens of a line, its continuations included
  FewTokens   \* smaller sets of tokens: their lines are longer by one

ASSUME SyntaxAssumption == /\ Tokens \subseteq AllTokens /\ MaxTokens \in Nat
                           /\ FewTokens \subseteq SUBSET AllTokens

VARIABLES
  verdict,    \* "prompt", "scan", or what has become of the line
  line,       \* *input
  iter,       \* sypar.iter
  last_oper,  \* sypar.last_oper
  count,      \* sypar.count > 0: something stands behind the last operator
  squote, dquote,  \* sypar.squote > 0, sypar.dquote > 0
  operator,   \* sypar.operator: the group of the last operator, or -1
  bracket     \* sypar.bracket: minus the brackets that are open

syntax_vars == <<verdict, line, iter, last_oper, count, squote, dquote, operator, bracket>>
sypar == <<iter, last_oper, count, squote, dquote, operator, bracket>>

Alphabets == {Tokens} \cup FewTokens
Lines(n)  == UNION {[1..k -> A] : k \in 0..n, A \in Alphabets}
LongLines == UNION {[1..(MaxTokens + 1) -> A] : A \in FewTokens}
-----------------------------------------------------------------------------
\* get_operator_group(): 0 is no operator.
get_operator_group(x) == CASE x \in Operators -> 1
                           [] x = "<"         -> 2
                           [] x = "("         -> 31
                           [] x = ")"         -> 32
                           [] OTHER           -> 0

\* The flags at the start of syntax_parser().
Restart ==
  /\ iter' = 1 /\ last_oper' = 1 /\ count' = FALSE
  /\ squote' = FALSE /\ dquote' = FALSE
  /\ operator' = -1 /\ bracket' = 0
  /\ verdict' = "scan"

SyntaxInit ==
  /\ verdict = "prompt" /\ line = <<>>
  /\ iter = 1 /\ last_oper = 1 /\ count = FALSE
  /\ squote = FALSE /\ dquote = FALSE
  /\ operator = -1 /\ bracket = 0

\* A line is entered; main() passes over an empty one.
Enter ==
  /\ verdict = "prompt"
  /\ line' \in (Lines(MaxTokens) \cup LongLines) \ {<<>>}
  /\ Restart
-----------------------------------------------------------------------------
token == line[iter]
group == get_operator_group(token)

\* syntax_parser_first_part(): what the token does to the flags.
Counted   == count \/ (group = 0 /\ token # "sp")
Dquote    == IF ~squote /\ token = "dq" THEN ~dquote ELSE dquote
Squote    == IF ~dquote /\ token = "sq" THEN ~squote ELSE squote
Unquoted  == ~Dquote /\ ~Squote
Bracket   == CASE ~squote /\ ~dquote /\ token = "(" -> bracket - 1
               [] ~squote /\ ~dquote /\ token = ")" -> bracket + 1
               [] OTHER -> bracket

\* Seeded fault: a word may stand between ")" and a redirection.
syntax_redi_correct_case_Any == FALSE

\* syntax_redi_correct_case(): something that is neither a space nor a digit
\* stands between the last operator and this one.
syntax_redi_correct_case ==
  \E i \in (last_oper + 1)..(iter - 1) : line[i] \notin {"sp", "3"}

\* syntax_parser_operator_condition() and extra_operator_condition(): the
\* operator cannot stand here.
Misplaced ==
  \/ operator = 2 /\ ~Counted
  \/ operator \in {-1, 31} /\ ~Counted /\ group = 1
  \/ operator = 31 /\ ~Counted /\ group = 32
  \/ operator = 32 /\ Counted /\ (group = 2 => syntax_redi_correct_case)
  \/ operator = 1 /\ ~Counted /\ group = 1

\* Seeded fault: a ")" too many goes unnoticed.
Refused_Unbalanced == Unquoted /\ group # 0 /\ Misplaced

Refused == \/ Bracket > 0
           \/ Unquoted /\ group # 0 /\ Misplaced

\* One round of syntax_parser_while().
Scan ==
  /\ verdict = "scan" /\ iter <= Len(line) /\ ~Refused
  /\ dquote' = Dquote /\ squote' = Squote /\ bracket' = Bracket
  /\ IF Unquoted /\ group # 0
     THEN operator' = group /\ last_oper' = iter /\ count' = FALSE
     ELSE count' = Counted /\ UNCHANGED <<operator, last_oper>>
  /\ iter' = iter + 1
  /\ UNCHANGED <<verdict, line>>

Refuse ==
  /\ verdict = "scan" /\ iter <= Len(line) /\ Refused
  /\ verdict' = "refused"
  /\ UNCHANGED <<line, sypar>>

\* The end of the line: syntax_parser() behind its loop.
Unfinished == \/ dquote \/ squote \/ bracket # 0
              \/ operator \in {1, 31} /\ ~count

Finish ==
  /\ verdict = "scan" /\ iter > Len(line)
  /\ verdict' = CASE operator = 32 /\ count -> "refused"
                  [] operator = 2 /\ ~count -> "refused"
                  [] (operator = 32 => ~count) /\ (operator = 2 => count) ->
                       IF Unfinished THEN "ask" ELSE "accepted"
  /\ UNCHANGED <<line, sypar>>

\* dquote_expander(): a newline and what the user enters.
Continue ==
  /\ verdict = "ask"
  /\ Len(line) < MaxTokens
  /\ \E more \in Lines(MaxTokens - Len(line) - 1) : line' = line \o <<"sp">> \o more
  /\ Restart

\* ... or Ctrl-C or the end of the input: the line is thrown away.
Abandon ==
  /\ verdict = "ask"
  /\ verdict' = "abandoned"
  /\ UNCHANGED <<line, sypar>>
-----------------------------------------------------------------------------
SyntaxNext == Enter \/ Scan \/ Refuse \/ Finish \/ Continue \/ Abandon

SyntaxSpec == SyntaxInit /\ [][SyntaxNext]_syntax_vars
-----------------------------------------------------------------------------
\* The scan stays in the line, and never has a ")" too many behind it.
SyntaxTypeOK ==
  /\ verdict \in {"prompt", "scan", "accepted", "refused", "ask", "abandoned", "parsed"}
  /\ line \in Seq(AllTokens) /\ Len(line) <= MaxTokens + 1
  /\ iter \in 1..(Len(line) + 1) /\ last_oper \in 1..(Len(line) + 1)
  /\ count \in BOOLEAN /\ squote \in BOOLEAN /\ dquote \in BOOLEAN
  /\ operator \in {-1, 1, 2, 31, 32}
  /\ bracket \in -(MaxTokens + 1)..0

\* Four kinds of lines the scanner does not see through.
Adjacent(r, x, y) == \E i \in 1..(Len(r) - 1) : r[i] \in x /\ r[i + 1] \in y

DigitsBehindBracket ==
  \E i, k \in Plain(line) :
    /\ i < k /\ line[i] = ")" /\ line[k] = "<"
    /\ \A j \in (i + 1)..(k - 1) : line[j] \in {"sp", "3"}
    /\ Adjacent(SubSeq(line, i, k), {"3"}, {"sp"})

WordBehindSubshell(r) ==
  \E i, k \in 1..Len(r) : /\ i + 1 < k /\ r[i] = ")" /\ r[k] = "w"
                          /\ IsRedirs[SubSeq(r, i + 1, k - 1)]

Regular ==
  LET r == Reading(line)
  IN  /\ ~Adjacent(r, {"w", ")"}, {"("})   \* a (b)   (a)(b)
      /\ ~Adjacent(r, Operators, {")"})    \* (a|)
      /\ ~DigitsBehindBracket              \* (a) 3 <f
      /\ ~WordBehindSubshell(r)            \* (a) <f b

\* syntax_check(): the flags of one scan from left to right decide what the
\* grammar says.  A line is refused only when nothing that comes behind it can
\* make it a list.  The four kinds of lines above apart, a line that is accepted
\* is a list, and the user is asked for more only when that can make it one.
VerdictCorrect ==
  LET r == Reading(line)
  IN  /\ verdict = "refused" => ~Completable(r)
      /\ verdict = "accepted" /\ Regular => ~QuoteOpen(line) /\ (IsList[r] \/ r = <<>>)
      /\ verdict = "ask" /\ Regular => (QuoteOpen(line) \/ ~IsList[r]) /\ Completable(r)
=============================================================================
