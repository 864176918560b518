------------------------------ MODULE Executor ------------------------------
(***************************************************************************)
(* src/executor/executor.c, executor_utils.c and exec_utils.c: how the     *)
(* shell runs the command nodes of one line after the other, which of them *)
(* it runs itself, which ones it forks, how it waits for them, and how the *)
(* status of a pipeline selects the next one.                              *)
(*                                                                         *)
(* The nodes of a line are 1..NNodes, a node's next is the node after it.  *)
(* Redirections and file descriptors are the subject of module Pipeline:   *)
(* here set_pipe() only succeeds or fails.  A subshell node is a child     *)
(* process that runs this same executor over the list below it and exits   *)
(* with what that returns, so for its parent it is a child with some exit  *)
(* code.                                                                   *)
(***************************************************************************)
EXTENDS Integers

CONSTANTS
  NNodes,     \* the number of command nodes of a line
  Kinds,      \* the kinds of command a node may have
  ExitCodes,  \* the exit codes a child process may end with
  Signals     \* the signals that may kill one

Builtins == {"echo", "cd", "exit"}
  \* "echo" stands for echo, pwd, env, export and unset, which leave
  \* num_return_error alone when they succeed

ASSUME NNodesAssumption == NNodes \in Nat \ {0}
ASSUME KindsAssumption == Kinds \subseteq Builtins \cup {"external", "subshell"}
ASSUME ExitCodesAssumption == ExitCodes \subseteq 0..255 /\ 0 \in ExitCodes
ASSUME SignalsAssumption == Signals \subseteq {"SIGINT", "SIGQUIT", "other"}

VARIABLES
  op, kind,           \* the line: each node's operator and kind of command
  pc,                 \* where the shell process is
  node,               \* the t_node the shell is at, or NULL
  first,              \* execute_pipe's node_init
  cursor,             \* waiting_pipe's node
  status,             \* executor's status
  num_return_error,   \* g_global.num_return_error, the value of "$?"
  proc,               \* proc[n]: the child process forked for node n
  wstatus,            \* wstatus[n]: how that child ended
  exitCode            \* the exit code of the shell process

vars == <<op, kind, pc, node, first, cursor, status, num_return_error,
          proc, wstatus, exitCode>>
list == <<op, kind>>

Node == 1..NNodes
NULL == NNodes + 1

\* The lists the parser builds: TEND marks the last node and only that one.
Lists == {o \in [Node -> {"TPIP", "TOR", "TAND", "TEND"}] :
            \A n \in Node : o[n] = "TEND" <=> n = NNodes}

\* How a child may end; SIGINT is the one signal that never dumps core.
Exited    == [sig : {"none"}, code : ExitCodes, core : {FALSE}]
Signalled == {w \in [sig : Signals, code : {0}, core : BOOLEAN] :
                w.sig = "SIGINT" => ~w.core}
NotEnded  == [sig |-> "none", code |-> 0, core |-> FALSE]
Running   == 256   \* exitCode of a shell that has not exited
-----------------------------------------------------------------------------
is_in_pipe(n) == op[n] = "TPIP" \/ (n > 1 /\ op[n - 1] = "TPIP")

\* Never asked of the first node of a list by its callers below, but guarded.
is_post_op(n, o) == n > 1 /\ op[n - 1] = o

status_return(w) ==
  CASE w.sig = "none"    -> w.code
    [] w.sig = "SIGINT"  -> 130
    [] w.sig = "SIGQUIT" -> 131
    [] w.sig = "other"   -> 1

\* What a builtin returns and what it leaves in num_return_error.  The pair
\* (1, 1) is any failure print_error() reports, that of putting the standard
\* descriptors back included.
Reported == <<1, 1>>

EchoResults == {<<0, num_return_error>>, Reported}
CdResults   == {<<0, 0>>, Reported}
ExitResults == {<<1, -1>>, Reported}   \* too many arguments: -1

BuiltinResults(k) == CASE k = "echo" -> EchoResults
                       [] k = "cd"   -> CdResults
                       [] k = "exit" -> ExitResults

\* The codes a builtin may end the whole shell with: exit_program() always
\* uses 1; "exit" uses its argument, 255 or num_return_error as a uint8_t.
BuiltinExits(k) ==
  IF k = "exit" THEN ExitCodes \cup {1, 255, num_return_error % 256} ELSE {1}

\* Only programs started with execve have the default action for the keyboard
\* signals back: the shell ignores them and what it forks inherits that.
Endings(n) == IF kind[n] = "external"
              THEN Exited \cup Signalled
              ELSE Exited \cup {w \in Signalled : w.sig = "other"}

\* num_return_error when a line starts: the status of the last one, 1 after a
\* Ctrl-C at a prompt, 258 after a line with a syntax error.
BetweenLines(s) == {s, 1, 258}

RunsInShell(n) == ~is_in_pipe(n) /\ kind[n] \in Builtins
-----------------------------------------------------------------------------
Init == /\ op \in Lists
        /\ kind \in [Node -> Kinds]
        /\ pc = "exec"
        /\ node = 1 /\ first = 1 /\ cursor = 1
        /\ status \in ExitCodes              \* an uninitialised local
        /\ num_return_error \in BetweenLines(0)
        /\ proc = [n \in Node |-> "none"]
        /\ wstatus = [n \in Node |-> NotEnded]
        /\ exitCode = Running
-----------------------------------------------------------------------------
\* Seeded fault: the status is returned but not recorded.
BuiltinRedirectFails_Unrecorded ==
  /\ pc = "exec" /\ RunsInShell(node)
  /\ status' = 1
  /\ node' = NULL
  /\ pc' = "decide"
  /\ UNCHANGED <<list, first, cursor, num_return_error, proc, wstatus, exitCode>>

\* builtin_exec(): set_pipe() fails and NULL is returned for the next node.
BuiltinRedirectFails ==
  /\ pc = "exec" /\ RunsInShell(node)
  /\ status' = 1
  /\ num_return_error' = 1
  /\ node' = NULL
  /\ pc' = "decide"
  /\ UNCHANGED <<list, first, cursor, proc, wstatus, exitCode>>

\* Seeded fault: the builtin's own node is returned as the next one.
BuiltinReturns_SameNode ==
  /\ pc = "exec" /\ RunsInShell(node)
  /\ \E r \in BuiltinResults(kind[node]) :
       status' = r[1] /\ num_return_error' = r[2]
  /\ pc' = "decide"
  /\ UNCHANGED <<list, node, first, cursor, proc, wstatus, exitCode>>

BuiltinReturns ==
  /\ pc = "exec" /\ RunsInShell(node)
  /\ \E r \in BuiltinResults(kind[node]) :
       status' = r[1] /\ num_return_error' = r[2]
  /\ node' = node + 1
  /\ pc' = "decide"
  /\ UNCHANGED <<list, first, cursor, proc, wstatus, exitCode>>

ExitShell(code) ==
  /\ exitCode' = code
  /\ num_return_error' = code
  /\ pc' = "exited"

BuiltinExitsShell ==
  /\ pc = "exec" /\ RunsInShell(node)
  /\ \E code \in BuiltinExits(kind[node]) : ExitShell(code)
  /\ UNCHANGED <<list, node, first, cursor, status, proc, wstatus>>
-----------------------------------------------------------------------------
\* The fork loop of execute_pipe() is at node.
Forking == \/ pc = "exec" /\ ~RunsInShell(node)
           \/ pc = "fork"

Fork ==
  /\ Forking
  /\ first' = IF pc = "exec" THEN node ELSE first
  /\ proc' = [proc EXCEPT ![node] = "live"]
  /\ \/ /\ op[node] = "TPIP"
        /\ node' = node + 1
        /\ pc' = "fork"
        /\ UNCHANGED cursor
     \/ /\ op[node] # "TPIP"
        /\ cursor' = first'
        /\ pc' = "wait"
        /\ UNCHANGED node
  /\ UNCHANGED <<list, status, num_return_error, wstatus, exitCode>>

\* exit_program(): the stages forked so far are left behind.
ForkFails ==
  /\ Forking
  /\ ExitShell(1)
  /\ UNCHANGED <<list, node, first, cursor, status, proc, wstatus>>

ChildEnds(n) ==
  /\ proc[n] = "live"
  /\ proc' = [proc EXCEPT ![n] = "zombie"]
  /\ \E w \in Endings(n) : wstatus' = [wstatus EXCEPT ![n] = w]
  /\ UNCHANGED <<list, pc, node, first, cursor, status, num_return_error, exitCode>>

\* Seeded fault: only the last stage of a pipeline is waited for.
WaitStage_LastOnly ==
  /\ pc = "wait" /\ op[cursor] = "TPIP"
  /\ cursor' = cursor + 1
  /\ UNCHANGED <<list, pc, node, first, status, num_return_error, proc, wstatus,
                 exitCode>>

\* Seeded fault: a core dump ends the shell before the other stages are reaped.
WaitStage_CoreEndsShell ==
  /\ pc = "wait" /\ op[cursor] = "TPIP"
  /\ proc[cursor] = "zombie"
  /\ proc' = [proc EXCEPT ![cursor] = "reaped"]
  /\ cursor' = cursor + 1
  /\ IF wstatus[cursor].core
     THEN ExitShell(1)
     ELSE UNCHANGED <<pc, num_return_error, exitCode>>
  /\ UNCHANGED <<list, node, first, status, wstatus>>

\* waitpid() on a stage that is not the last one.
WaitStage ==
  /\ pc = "wait" /\ op[cursor] = "TPIP"
  /\ proc[cursor] = "zombie"
  /\ proc' = [proc EXCEPT ![cursor] = "reaped"]
  /\ cursor' = cursor + 1
  /\ UNCHANGED <<list, pc, node, first, status, num_return_error, wstatus, exitCode>>

\* waitpid() on the last stage: its end is the status of the pipeline, and a
\* core dump ends the shell.
WaitLast ==
  /\ pc = "wait" /\ op[cursor] # "TPIP"
  /\ proc[cursor] = "zombie"
  /\ proc' = [proc EXCEPT ![cursor] = "reaped"]
  /\ \/ /\ wstatus[cursor].core
        /\ ExitShell(1)
        /\ UNCHANGED <<node, status>>
     \/ /\ ~wstatus[cursor].core
        /\ status' = status_return(wstatus[cursor])
        /\ num_return_error' = status'
        /\ node' = node + 1
        /\ pc' = "decide"
        /\ UNCHANGED exitCode
  /\ UNCHANGED <<list, first, cursor, wstatus>>
-----------------------------------------------------------------------------
\* Seeded fault: the two operators are swapped.
SearchFor_Swapped == IF status > 0 THEN "TAND" ELSE "TOR"

\* executor(): the operator the search of get_next() stops at.
SearchFor == IF status > 0 THEN "TOR" ELSE "TAND"

ShortCircuits(n) == \/ is_post_op(n, "TAND") /\ status > 0
                    \/ is_post_op(n, "TOR") /\ status = 0

Decide ==
  /\ pc = "decide"
  /\ pc' = CASE node = NULL -> "done"
             [] node # NULL /\ ShortCircuits(node) -> "skip"
             [] node # NULL /\ ~ShortCircuits(node) -> "exec"
  /\ UNCHANGED <<list, node, first, cursor, status, num_return_error, proc,
                 wstatus, exitCode>>

\* One step of get_next().
Skip ==
  /\ pc = "skip"
  /\ node' = node + 1
  /\ pc' = CASE node' = NULL -> "done"
             [] node' # NULL /\ op[node] = SearchFor -> "exec"
             [] node' # NULL /\ op[node] # SearchFor -> "skip"
  /\ UNCHANGED <<list, first, cursor, status, num_return_error, proc, wstatus,
                 exitCode>>

\* parse_and_execute() takes the status, the tree is freed, and the next line
\* is read and parsed.
NextLine ==
  /\ pc = "done"
  /\ num_return_error' \in BetweenLines(status)
  /\ op' \in Lists
  /\ kind' \in [Node -> Kinds]
  /\ pc' = "exec"
  /\ node' = 1 /\ first' = 1 /\ cursor' = 1
  /\ status' \in ExitCodes
  /\ proc' = [n \in Node |-> "none"]
  /\ wstatus' = [n \in Node |-> NotEnded]
  /\ UNCHANGED exitCode
-----------------------------------------------------------------------------
ShellStep == \/ BuiltinRedirectFails \/ BuiltinReturns \/ BuiltinExitsShell
             \/ Fork \/ ForkFails \/ WaitStage \/ WaitLast
             \/ Decide \/ Skip

Next == ShellStep \/ NextLine \/ \E n \in Node : ChildEnds(n)

Spec == Init /\ [][Next]_vars

\* The shell keeps going, and the programs it starts come to an end; nobody
\* has to type another line.
FairSpec == /\ Spec
            /\ WF_vars(ShellStep)
            /\ \A n \in Node : WF_vars(ChildEnds(n))
-----------------------------------------------------------------------------
TypeOK ==
  /\ op \in Lists
  /\ kind \in [Node -> Kinds]
  /\ pc \in {"exec", "fork", "wait", "decide", "skip", "done", "exited"}
  /\ node \in 1..NULL /\ first \in Node /\ cursor \in Node
  /\ status \in 0..255
  /\ num_return_error \in -1..258
  /\ proc \in [Node -> {"none", "live", "zombie", "reaped"}]
  /\ wstatus \in [Node -> Exited \cup Signalled]
  /\ exitCode \in 0..Running

\* The children the shell has not waited for yet.
Outstanding == {n \in Node : proc[n] \in {"live", "zombie"}}

\* While it forks, the shell owes a wait to exactly the stages behind it; it
\* starts waiting only when the whole pipeline has been forked (a stage blocked
\* on a full or an empty pipe has its neighbour), and it never leaves
\* execute_pipe() with a child it has not waited for.
ChildrenAccounted ==
  CASE pc = "fork" -> Outstanding = first..(node - 1)
    [] pc = "wait" -> Outstanding = cursor..node
    [] pc \in {"exec", "decide", "skip", "done"} -> Outstanding = {}
    [] pc = "exited" -> TRUE

\* What the shell leaves behind when it ends: nothing after the exit builtin or a
\* core dump, and after a fork() that fails just the stages in front of the one
\* that could not be started, which nobody waits for any more.
ExitLeavesNoChild ==
  [][pc' = "exited" /\ pc # "exited" =>
       Outstanding' = IF pc = "fork" THEN first..(node - 1) ELSE {}]_vars

\* A failure that can short-circuit the line is never hidden from "$?": while
\* the executor goes on with a failed status, num_return_error is not 0.  (The
\* converse does not hold: echo, pwd, env, export and unset succeed without
\* resetting num_return_error.)
FailureVisible ==
  (pc \in {"decide", "skip", "done"} \/ (pc = "exec" /\ node > 1))
     => (status > 0 => num_return_error # 0)

\* Every line comes to its end: no wait is for a child that is not there, and
\* no search through the list turns in circles.
LineEnds == (pc = "exec" /\ node = 1) ~> (pc \in {"done", "exited"})
-----------------------------------------------------------------------------
\* The first node of the pipeline node n belongs to.
StartOf(n) == CHOOSE h \in 1..n : /\ h = 1 \/ op[h - 1] # "TPIP"
                                  /\ \A j \in h..(n - 1) : op[j] = "TPIP"

Head == CASE pc \in {"exec", "decide"} -> node
          [] pc \in {"fork", "wait"}   -> first
          [] pc = "skip"               -> StartOf(node)
          [] pc \in {"done", "exited"} -> NULL

AndOr == INSTANCE AndOrList WITH builtin <- {n \in Node : kind[n] \in Builtins},
                                 head    <- Head,
                                 st      <- status,
                                 over    <- (pc = "exited")

\* The executor evaluates a line as an AND-OR list of pipelines.
ImplementsAndOr == AndOr!Spec
=============================================================================
