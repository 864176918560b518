------------------------------ MODULE Pipeline ------------------------------
(***************************************************************************)
(* src/executor/executor.c: the file descriptors of one pipeline.  The     *)
(* shell makes a pipe, forks the stage in front of it and closes the pipe  *)
(* behind it, one stage after the other; every child moves its ends to its *)
(* standard descriptors and closes the rest, while the others run.         *)
(*                                                                         *)
(* A process has a table of NFds descriptors, by number.  The programs the *)
(* stages run are the environment: see prog in module Chain.               *)
(***************************************************************************)
EXTENDS Integers, FiniteSets, FiniteSetsExt

CONSTANTS
  NStages,   \* the stages a line may have
  NFds,      \* the size of a descriptor table
  Capacity,  \* the items a pipe holds
  Items,     \* the items a producing program writes
  Lines      \* the lines the user may enter, and with which limit

ASSUME PipelineAssumption ==
  /\ NStages \in Nat /\ NFds \in Nat
  /\ Capacity \in Nat \ {0} /\ Items \in Nat
  /\ Lines \subseteq [limit : 4..NFds,
                      last  : 2..NStages,
                      prog  : [1..NStages -> {"gen", "cat", "true"}],
                      redir : [1..NStages -> 0..NFds]]

VARIABLES
  limit,   \* RLIMIT_NOFILE: only lower descriptors are given out
  last,    \* the number of stages, all but the last followed by "|"
  prog,    \* prog[n]: the program of stage n
  redir,   \* redir[n]: the descriptor stage n redirects, or NoRedirect
  pc,      \* where the shell is in execute_pipe()
  node,    \* the node it forks, then the one it waits for
  fd,      \* fd[n]: node->fd, the two descriptors of the pipe after node n
  table,   \* table[p]: the descriptor table of process p
  at,      \* at[n]: where the process of stage n is
  todo,    \* todo[n]: the items its program has to write
  buf,     \* buf[n]: the items in the pipe after node n
  failed   \* a pipe() of this line has failed

vars == <<limit, last, prog, redir, pc, node, fd, table, at, todo, buf, failed>>
line == <<limit, last, prog, redir>>
io   == <<todo, buf>>

Stage == 1..NStages
Shell == 0
Fd    == 0..(NFds - 1)
NoRedirect == NFds
STDIN  == 0
STDOUT == 1

\* What a descriptor refers to.
None     == <<"none", 0>>
Terminal == <<"tty", 0>>
File     == <<"file", 0>>
Rd(n)    == <<"rd", n>>
Wr(n)    == <<"wr", n>>

Closed    == [f \in Fd |-> None]
Inherited == [f \in Fd |-> IF f < 3 THEN Terminal ELSE None]

Work(p) == [n \in Stage |-> IF p[n] = "gen" THEN Items ELSE 0]

Free(t) == {f \in 0..(limit - 1) : t[f] = None}
Readers(n) == {p \in 0..NStages : \E f \in Fd : table[p][f] = Rd(n)}
Writers(n) == {p \in 0..NStages : \E f \in Fd : table[p][f] = Wr(n)}
-----------------------------------------------------------------------------
\* Seeded fault: the writing end is forgotten.
close_pipe_fd_ReadOnly(t, pair) == [t EXCEPT ![pair[1]] = None]

\* close_pipe_fd(): it gives up at the first close() that fails.
close_pipe_fd(t, pair) ==
  IF t[pair[1]] = None THEN t ELSE [t EXCEPT ![pair[1]] = None, ![pair[2]] = None]

close_fails(t, pair) == \/ t[pair[1]] = None
                        \/ pair[1] = pair[2]
                        \/ t[pair[2]] = None

\* prepare_redirect() for one file: it is opened at the lowest free descriptor
\* and copied, and the original is closed unless STDIN was redirected.
prepare_redirect(t, r) ==
  LET f == Min(Free(t))
      u == [t EXCEPT ![f] = File, ![r] = File]
  IN  IF f > 2 /\ r # STDIN THEN [u EXCEPT ![f] = None] ELSE u

LineStart ==
  /\ \E l \in Lines : /\ l.limit = limit
                      /\ last' = l.last /\ prog' = l.prog /\ redir' = l.redir
  /\ pc' = "pipe" /\ node' = 1
  /\ fd' = [n \in Stage |-> <<0, 0>>]
  /\ at' = [n \in Stage |-> "none"]
  /\ todo' = Work(prog')
  /\ buf' = [n \in Stage |-> 0]
  /\ failed' = FALSE

Init ==
  /\ \E l \in Lines : /\ limit = l.limit
                      /\ last = l.last /\ prog = l.prog /\ redir = l.redir
  /\ pc = "pipe" /\ node = 1
  /\ fd = [n \in Stage |-> <<0, 0>>]        \* create_node() clears the node
  /\ table = [p \in 0..NStages |-> IF p = Shell THEN Inherited ELSE Closed]
  /\ at = [n \in Stage |-> "none"]
  /\ todo = Work(prog)
  /\ buf = [n \in Stage |-> 0]
  /\ failed = FALSE
-----------------------------------------------------------------------------
\* pipe(node->fd), whose result nobody looks at.
MakePipe ==
  /\ pc = "pipe"
  /\ \/ /\ Cardinality(Free(table[Shell])) >= 2
        /\ LET r == Min(Free(table[Shell]))
               w == Min(Free(table[Shell]) \ {r})
           IN  /\ fd' = [fd EXCEPT ![node] = <<r, w>>]
               /\ table' = [table EXCEPT ![Shell][r] = Rd(node), ![Shell][w] = Wr(node)]
        /\ UNCHANGED failed
     \/ /\ Cardinality(Free(table[Shell])) < 2
        /\ failed' = TRUE
        /\ UNCHANGED <<fd, table>>
  /\ pc' = "fork"
  /\ UNCHANGED <<line, node, at, io>>

Fork ==
  /\ pc = "fork"
  /\ table' = [table EXCEPT ![node] = table[Shell]]
  /\ at' = [at EXCEPT ![node] = "dup"]
  /\ pc' = "close"
  /\ UNCHANGED <<line, node, fd, io, failed>>

\* exit_program(): the exit closes what the shell has open.
ForkFails ==
  /\ pc = "fork"
  /\ table' = [table EXCEPT ![Shell] = Closed]
  /\ pc' = "exited"
  /\ UNCHANGED <<line, node, fd, at, io, failed>>

\* Seeded fault: the shell closes the pipe in front of the next stage.
CloseBehind_Own ==
  /\ pc = "close"
  /\ table' = IF node = last THEN table
              ELSE [table EXCEPT ![Shell] = close_pipe_fd(@, fd[node])]
  /\ IF node < last
     THEN node' = node + 1 /\ pc' = (IF node' < last THEN "pipe" ELSE "fork")
     ELSE node' = 1 /\ pc' = "wait"
  /\ UNCHANGED <<line, fd, at, io, failed>>

\* The shell closes the pipe behind the stage it has just forked and turns to
\* the next stage, or waits.
CloseBehind ==
  /\ pc = "close"
  /\ table' = IF node = 1 THEN table
              ELSE [table EXCEPT ![Shell] = close_pipe_fd(@, fd[node - 1])]
  /\ IF node < last
     THEN node' = node + 1 /\ pc' = (IF node' < last THEN "pipe" ELSE "fork")
     ELSE node' = 1 /\ pc' = "wait"
  /\ UNCHANGED <<line, fd, at, io, failed>>

Wait ==
  /\ pc = "wait" /\ at[node] = "zombie"
  /\ at' = [at EXCEPT ![node] = "reaped"]
  /\ IF node < last THEN node' = node + 1 /\ UNCHANGED pc
                       ELSE UNCHANGED node /\ pc' = "done"
  /\ UNCHANGED <<line, fd, table, io, failed>>

\* parse_and_execute() frees the nodes: nothing of the line is left.
FreeTree ==
  /\ pc = "done"
  /\ pc' = "prompt" /\ node' = 1
  /\ prog' = [n \in Stage |-> "true"] /\ todo' = Work(prog')
  /\ redir' = [n \in Stage |-> NoRedirect]
  /\ fd' = [n \in Stage |-> <<0, 0>>]
  /\ at' = [n \in Stage |-> "none"]
  /\ buf' = [n \in Stage |-> 0]
  /\ UNCHANGED <<limit, last, table, failed>>

\* readline() reads the next line, unless standard input is gone.
NextLine ==
  /\ pc = "prompt" /\ table[Shell][STDIN] # None
  /\ LineStart
  /\ UNCHANGED <<limit, table>>

EndOfInput ==
  /\ pc = "prompt" /\ table[Shell][STDIN] = None
  /\ table' = [table EXCEPT ![Shell] = Closed]
  /\ pc' = "exited"
  /\ UNCHANGED <<line, node, fd, at, io, failed>>
-----------------------------------------------------------------------------
\* The process of stage n ends, which closes its descriptors.
Ends(n) == /\ at' = [at EXCEPT ![n] = "zombie"]
           /\ table' = [table EXCEPT ![n] = Closed]

Goes(n, t, where) == /\ table' = [table EXCEPT ![n] = t]
                     /\ at' = [at EXCEPT ![n] = where]

\* set_pipe(), first part: the two dup2().
DupEnds(n) ==
  /\ at[n] = "dup"
  /\ LET t   == table[n]
         out == IF n < last THEN fd[n][2] ELSE STDOUT
         in  == IF n > 1 THEN fd[n - 1][1] ELSE STDIN
         u   == [t EXCEPT ![STDOUT] = t[out]]
     IN  IF t[out] = None \/ u[in] = None
         THEN Ends(n)
         ELSE Goes(n, [u EXCEPT ![STDIN] = u[in]], "redirect")
  /\ UNCHANGED <<line, pc, node, fd, io, failed>>

\* set_pipe(), second part: the redirections, which may fail.
Redirect(n) ==
  /\ at[n] = "redirect"
  /\ \/ redir[n] = NoRedirect /\ Goes(n, table[n], "close")
     \/ /\ redir[n] < limit /\ Free(table[n]) # {}
        /\ Goes(n, prepare_redirect(table[n], redir[n]), "close")
     \/ redir[n] # NoRedirect /\ Ends(n)
  /\ UNCHANGED <<line, pc, node, fd, io, failed>>

\* Seeded fault: a stage closes the pipe in front of it only.
CloseEnds_OwnOnly(n) ==
  /\ at[n] = "close"
  /\ LET u == IF n < last THEN close_pipe_fd(table[n], fd[n]) ELSE table[n]
     IN  IF n < last /\ close_fails(table[n], fd[n]) THEN Ends(n)
         ELSE Goes(n, u, "run")
  /\ UNCHANGED <<line, pc, node, fd, io, failed>>

\* set_pipe(), last part: the child closes the pipes it has copies of.
CloseEnds(n) ==
  /\ at[n] = "close"
  /\ LET t == table[n]
         u == IF n < last THEN close_pipe_fd(t, fd[n]) ELSE t
         v == IF n > 1 THEN close_pipe_fd(u, fd[n - 1]) ELSE u
     IN  IF \/ n < last /\ close_fails(t, fd[n])
            \/ n > 1 /\ close_fails(u, fd[n - 1])
         THEN Ends(n)
         ELSE Goes(n, v, "run")
  /\ UNCHANGED <<line, pc, node, fd, io, failed>>
-----------------------------------------------------------------------------
\* The programs.  in and out: the pipe a stage reads from or writes to, or 0.
In(n)  == IF table[n][STDIN][1] = "rd" THEN table[n][STDIN][2] ELSE 0
Out(n) == IF table[n][STDOUT][1] = "wr" THEN table[n][STDOUT][2] ELSE 0

Reads(n)  == at[n] = "run" /\ prog[n] = "cat" /\ todo[n] = 0
Writes(n) == at[n] = "run" /\ todo[n] > 0

ReadItem(n) ==
  /\ Reads(n) /\ In(n) # 0 /\ buf[In(n)] > 0
  /\ buf' = [buf EXCEPT ![In(n)] = @ - 1]
  /\ todo' = [todo EXCEPT ![n] = 1]
  /\ UNCHANGED <<line, pc, node, fd, table, at, failed>>

\* The terminal and the files have no input left.
ReadEnd(n) ==
  /\ Reads(n)
  /\ In(n) # 0 => buf[In(n)] = 0 /\ Writers(In(n)) = {}
  /\ Ends(n)
  /\ UNCHANGED <<line, pc, node, fd, io, failed>>

WriteItem(n) ==
  /\ Writes(n)
  /\ \/ Out(n) = 0 /\ UNCHANGED buf
     \/ /\ Out(n) # 0 /\ Readers(Out(n)) # {} /\ buf[Out(n)] < Capacity
        /\ buf' = [buf EXCEPT ![Out(n)] = @ + 1]
  /\ todo' = [todo EXCEPT ![n] = @ - 1]
  /\ UNCHANGED <<line, pc, node, fd, table, at, failed>>

\* SIGPIPE
WriteBroken(n) ==
  /\ Writes(n) /\ Out(n) # 0 /\ Readers(Out(n)) = {}
  /\ Ends(n)
  /\ UNCHANGED <<line, pc, node, fd, io, failed>>

Finish(n) ==
  /\ at[n] = "run" /\ prog[n] # "cat" /\ todo[n] = 0
  /\ Ends(n)
  /\ UNCHANGED <<line, pc, node, fd, io, failed>>
-----------------------------------------------------------------------------
ShellStep == MakePipe \/ Fork \/ ForkFails \/ CloseBehind \/ Wait

StageStep(n) == \/ DupEnds(n) \/ Redirect(n) \/ CloseEnds(n)
                \/ ReadItem(n) \/ ReadEnd(n) \/ WriteItem(n) \/ WriteBroken(n)
                \/ Finish(n)

Next == ShellStep \/ FreeTree \/ NextLine \/ EndOfInput \/ \E n \in Stage : StageStep(n)

Spec == Init /\ [][Next]_vars

\* Every process the kernel can run gets to run.
FairSpec == /\ Spec
            /\ WF_vars(ShellStep)
            /\ \A n \in Stage : WF_vars(StageStep(n))
-----------------------------------------------------------------------------
Descriptions == {None, Terminal, File} \cup {Rd(n) : n \in Stage} \cup {Wr(n) : n \in Stage}

TypeOK ==
  /\ limit \in 4..NFds /\ last \in 2..NStages
  /\ prog \in [Stage -> {"gen", "cat", "true"}]
  /\ redir \in [Stage -> 0..NFds]
  /\ pc \in {"pipe", "fork", "close", "wait", "done", "prompt", "exited"}
  /\ node \in Stage
  /\ fd \in [Stage -> Fd \X Fd]
  /\ table \in [0..NStages -> [Fd -> Descriptions]]
  /\ at \in [Stage -> {"none", "dup", "redirect", "close", "run", "zombie", "reaped"}]
  /\ todo \in [Stage -> 0..Items \cup {1}]
  /\ buf \in [Stage -> 0..Capacity]
  /\ failed \in BOOLEAN

\* A program starts with its own ends of its own two pipes, or what it was
\* redirected to, as its standard descriptors, and holds no other end of any
\* pipe, whatever number the kernel gave the descriptors.  If a pipe() failed
\* the stages next to it never get to run their programs; the ones behind may
\* run theirs with the standard input closed, never with a wrong one.
StagesWired ==
  \A n \in Stage : at[n] = "run" =>
    /\ \/ table[n][STDIN] = CASE redir[n] = STDIN -> File
                              [] redir[n] # STDIN /\ n > 1 -> Rd(n - 1)
                              [] redir[n] # STDIN /\ n = 1 -> Terminal
       \/ failed /\ n > 1 /\ table[n][STDIN] = None
    /\ table[n][STDOUT] = CASE redir[n] = STDOUT -> File
                            [] redir[n] # STDOUT /\ n < last -> Wr(n)
                            [] redir[n] # STDOUT /\ n = last -> Terminal
    /\ \A f \in Fd \ {STDIN, STDOUT} : table[n][f] \in {None, Terminal, File}

\* While the shell waits, it has the descriptors it had before the line: no
\* end of a pipe is left, so no reader waits for a writer that is the shell.
\* If a pipe() failed, it has closed its own standard input by mistake, and may
\* have kept one writing end of a pipe.
ShellTableRestored ==
  pc \in {"wait", "done", "prompt"} =>
    \/ ~failed /\ table[Shell] = Inherited
    \/ /\ failed /\ table[Shell][STDIN] = None
       /\ LET kept == {f \in Fd \ {STDIN} : table[Shell][f] # Inherited[f]}
          IN  \A f, g \in kept :
                f = g /\ \E n \in Stage : table[Shell][f] = Wr(n)

\* No stage blocks forever: every line ends, also if the shell does not survive
\* it, with all its processes.
LineEnds ==
  pc = "pipe" ~> (pc \in {"done", "exited"}
                  /\ \A n \in Stage : at[n] \in {"none", "zombie", "reaped"})
-----------------------------------------------------------------------------
\* The stages as module Chain sees them: a stage the shell has not forked when
\* it exits is as good as down.
Life(n) ==
  CASE at[n] = "none" -> IF n > last \/ pc \in {"prompt", "exited"} THEN "down" ELSE "new"
    [] at[n] \in {"zombie", "reaped"} -> "down"
    [] at[n] \in {"dup", "redirect", "close"} -> "setup"
    [] at[n] = "run" -> IF table[n][STDIN] = None /\ redir[n] # STDIN THEN "deaf" ELSE "up"

\* The shell holds its three standard descriptors and at most two pipes, the
\* one in front of a stage and the one behind it.
Roomy == limit >= 7

Abstract == INSTANCE Chain WITH
  stage  <- [n \in Stage |-> Life(n)],
  from   <- {n \in 2..last : redir[n] # STDIN},
  onto   <- {n \in 1..(last - 1) : redir[n] # STDOUT},
  unsure <- {n \in 1..last : ~Roomy \/ redir[n] # NoRedirect}

\* A pipeline is a chain of processes and FIFOs, in which only a stage that is
\* redirected leaves its neighbours, and nothing but a redirection or the want
\* of descriptors keeps a program from running, or from reading.
ImplementsChain == Abstract!Spec
=============================================================================
