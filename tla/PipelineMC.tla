----------------------------- MODULE PipelineMC -----------------------------
(* The lines for the checks of Pipeline: three stages with room for all the  *)
(* pipes, for one and for none, and five stages for which the third pipe and *)
(* the ones behind it find a table from which an earlier mistake has taken   *)
(* the standard input.                                                       *)
EXTENDS Pipeline

Programs(l) == {p \in [Stage -> {"gen", "cat", "true"}] : \A n \in Stage : n > l => p[n] = "true"}

\* At most so many stages of a line redirect a descriptor to a file.
Redirections(l, fds, most) ==
  {r \in [Stage -> fds \cup {NoRedirect}] :
     /\ \A n \in Stage : n > l => r[n] = NoRedirect
     /\ Cardinality({n \in Stage : r[n] # NoRedirect}) <= most}

Short ==
  [limit : {8}, last : {3}, prog : Programs(3),
   redir : Redirections(3, {0, 1}, 2) \cup Redirections(3, {4}, 1)]
  \cup
  [limit : {4, 5}, last : {3}, prog : Programs(3), redir : Redirections(3, {1}, 1)]

Long == [limit : {4, 6}, last : {5},
         redir : {r \in Redirections(5, {0, 4}, 1) : \A n \in Stage \ {4} : r[n] = NoRedirect},
         prog : {p \in Programs(5) : p[1] = "gen" /\ p[5] = "cat" /\ p[2] = "true" /\ p[3] = "true"}]

\* The last stage has its pipe at descriptor 0, and redirects it.
Late == [limit : {6}, last : {5}, redir : {r \in Redirections(5, {0}, 1) : r[5] = 0},
         prog : {p \in Programs(5) : p[4] = "gen" /\ \A n \in 1..3 : p[n] = "true"}]

MCLines == Short \cup Long \cup Late
=============================================================================
