------------------------------- MODULE Parser -------------------------------
(***************************************************************************)
(* src/parser/parser.c and parser_utils.c: the list of nodes that is made  *)
(* of an accepted line.  A node is a command or a subshell with a list of  *)
(* its own, and the operator behind it.  The redirections are still in the *)
(* node's text here; module RedirectParser starts from those.              *)
(*                                                                         *)
(* A position of a string s is one of its tokens, Len(s) + 1 that of its   *)
(* NUL, Len(s) + 2 the byte behind it, which belongs to nobody.            *)
(***************************************************************************)
EXTENDS SyntaxCheck

VARIABLE list  \* the nodes; <<>> until the line is parsed

pvars == <<syntax_vars, list>>

\* What stands in for the nodes once a scan has left the string.
Lost == [subshell |-> FALSE, child |-> <<>>, text |-> <<>>, operator |-> "lost"]

at(s, i)         == IF i <= Len(s) THEN s[i] ELSE "nul"
FirstOf(s, i, P(_)) == CHOOSE k \in i..(Len(s) + 1) :
                          /\ k = Len(s) + 1 \/ P(k)
                          /\ \A j \in i..(k - 1) : ~P(j)
-----------------------------------------------------------------------------
\* get_operator(): "end" at the end of the string.
get_operator(s, i) == CASE at(s, i) \in Operators -> at(s, i)
                        [] at(s, i) = "nul"       -> "end"
                        [] OTHER                  -> "undef"

\* ffwd(): on to the next operator or "(" that is not quoted.
ffwd(s, i) ==
  LET quote == Quote(From(s, i))
      Stop(k) == quote[k - i] = "none" /\ s[k] \in Operators \cup {"("}
  IN  FirstOf(s, i, Stop)

\* Seeded fault: the first ")" closes.
get_close_bracket_First(s, i) == LET Stop(k) == s[k] = ")" IN FirstOf(s, i, Stop)

\* get_close_bracket(): quoted brackets count like the others, and escaped ones
\* too, because isscaped() is asked about the first bracket every time.
get_close_bracket(s, i) ==
  LET depth(k) == Len(SelectSeq(SubSeq(s, i, k), LAMBDA x : x \in {"(", "esc("}))
                    - Len(SelectSeq(SubSeq(s, i, k), LAMBDA x : x \in {")", "esc)"}))
      Stop(k) == depth(k) = 0
  IN  FirstOf(s, i, Stop)

\* ft_substr() between the brackets at i and close: of an escaped bracket that
\* closes, the backslash is left.
Between(s, i, close) ==
  SubSeq(s, i + 1, close - 1) \o (IF s[close] = "esc)" THEN <<"w">> ELSE <<>>)

\* create_node(): the text goes from start up to end.  An operator of one
\* character at the very end is made part of it.  For the last node end is at
\* the NUL, and *(end + 1) the byte behind it: if that happens to be another
\* NUL, end goes on to it, but ft_substr() stops at the first.
create_node(subshell, child, s, start, end, behind) ==
  LET stop == IF \/ at(s, end) = "|" /\ end = Len(s)
                 \/ end = Len(s) + 1 /\ behind = "nul"
              THEN end + 1 ELSE end
      text == SubSeq(s, start, IF stop > Len(s) THEN Len(s) ELSE stop - 1)
  IN  [subshell |-> subshell, child |-> child, text |-> text,
       operator |-> IF stop = Len(s) + 2 THEN "end" ELSE get_operator(s, stop)]
-----------------------------------------------------------------------------
\* Seeded fault: the end of the string is passed like any character.
Beyond_Always(s, i, oper) == i + 1

\* The end of a round of parser(): the character at i is passed, and another
\* one behind an operator of two.  Where that leaves the second half of a token,
\* in a line that is not Visible below, all of the token is passed.
Beyond(s, i, oper) ==
  CASE oper = "&&" /\ at(s, i) = "&&"           -> i + 1
    [] oper = "&&" /\ at(s, i) = "nul"          -> i + 1
    [] oper = "&&" /\ at(s, i) \notin {"&&", "nul"} ->
         IF i < Len(s) THEN i + 2 ELSE i + 1
    [] oper # "&&" -> IF at(s, i) = "nul" THEN i ELSE i + 1

RECURSIVE parser(_, _), Nodes(_, _, _)

\* parse_subshell(): i is at the "(".  The node ends at the next operator,
\* quoted or not; what comes behind the node is looked for with ffwd().
Subshell(s, i, behind) ==
  LET close == get_close_bracket(s, i)
      Stop(k) == get_operator(s, k) # "undef"
      child == parser(Between(s, i, close), Tail(behind))
  IN  create_node(TRUE, child, s, close + 1, FirstOf(s, close + 1, Stop), behind[1])

\* The rounds of parser() from i on; the last operator stands before i.  behind:
\* the bytes behind the NULs of s, of a text in its brackets, and so on inwards.
Nodes(s, i, behind) ==
  LET stop == ffwd(s, i)
      close == get_close_bracket(s, stop)
      Then(node, k) ==
        LET next == Beyond(s, k, node.operator)
        IN  IF next > Len(s) + 1 THEN <<node, Lost>> ELSE <<node>> \o Nodes(s, next, behind)
  IN  CASE i > Len(s) -> <<>>
        [] i <= Len(s) /\ at(s, stop) # "(" ->
             Then(create_node(FALSE, <<>>, s, i, stop, behind[1]), stop)
        [] i <= Len(s) /\ at(s, stop) = "(" /\ close > Len(s) -> <<Lost>>
        [] i <= Len(s) /\ at(s, stop) = "(" /\ close <= Len(s) ->
             Then(Subshell(s, stop, behind), ffwd(s, close))

parser(s, behind) == Nodes(s, 1, behind)
-----------------------------------------------------------------------------
ParserInit == SyntaxInit /\ list = <<>>

Check == SyntaxNext /\ UNCHANGED list

\* A string for each depth of brackets there may be.
Depths == 1..(Count(line, "(") + 1)

\* parse_and_execute(): an accepted line is parsed, whatever stands behind it in
\* memory.
Parse == /\ verdict = "accepted"
         /\ verdict' = "parsed"
         /\ \E behind \in [Depths -> {"nul", "other"}] : list' = parser(line, behind)
         /\ UNCHANGED <<line, sypar>>

ParserSpec == ParserInit /\ [][Check \/ Parse]_pvars
-----------------------------------------------------------------------------
RECURSIVE Unparse(_), WellFormed(_), AnyLost(_)

Unparse(nodes) ==
  IF nodes = <<>> THEN <<>>
  ELSE LET n == Head(nodes)
       IN  (IF n.subshell THEN <<"(">> \o Unparse(n.child) \o <<")">> ELSE <<>>)
             \o n.text
             \o (IF n.operator \in Operators THEN <<n.operator>> ELSE <<>>)
             \o Unparse(Tail(nodes))

\* Only the last node has no operator; every node has something to run.
WellFormed(nodes) ==
  nodes = <<>> \/
  LET n == Head(nodes)
  IN  /\ n.operator \in (IF Tail(nodes) = <<>> THEN {"end"} ELSE Operators)
      /\ IF n.subshell
         THEN n.child # <<>> /\ WellFormed(n.child) /\ IsRedirs[Reading(n.text)]
         ELSE n.child = <<>> /\ Reading(n.text) # <<>> /\ IsItems[Reading(n.text)]
      /\ WellFormed(Tail(nodes))

AnyLost(nodes) == \E i \in 1..Len(nodes) : \/ nodes[i].operator = "lost"
                                           \/ AnyLost(nodes[i].child)

Quoted(i) == Quote(line)[i - 1] # "none"

\* A bracket is open at i, for the syntax check.
InBrackets(i) ==
  LET Before(x) == Cardinality({k \in Plain(line) : k < i /\ line[k] = x})
  IN  Before("(") > Before(")")

\* A subshell is in front of i, and no operator between them.
BehindSubshell(i) ==
  \E k \in Plain(line) : /\ k < i /\ line[k] = ")"
                         /\ \A j \in Plain(line) : j \in k..i => line[j] \notin Operators

\* What the parser does not see the quotes or the backslash of: brackets in a
\* subshell, and quoted operators behind one.
Visible ==
  \A i \in 1..Len(line) :
    /\ line[i] \in Escaped \/ (line[i] \in {"(", ")"} /\ Quoted(i)) => ~InBrackets(i)
    /\ line[i] \in Operators /\ Quoted(i) => ~BehindSubshell(i)

\* parser(): an accepted line becomes a list of nodes with nothing lost, added
\* or in another place: written out again the nodes are the line, each has a
\* command or a list of its own, and an operator stands behind all but the last.
\* The byte behind the NUL that create_node() looks at changes none of them.
ParseCorrect ==
  verdict = "parsed" /\ Regular /\ Visible /\ Reading(line) # <<>> =>
    list # <<>> /\ WellFormed(list) /\ Reading(Unparse(list)) = Reading(line)

\* parser() reads one byte behind the NUL of each string it parses, in
\* create_node().  None of its scans goes on from there, unless a quoted or
\* escaped bracket is in a subshell, or a quoted operator behind one.
ScansEndAtNul == AnyLost(list) => ~Visible
=============================================================================
