------------------------------ MODULE HereDoc ------------------------------
(***************************************************************************)
(* src/executor/redirects_utilities.c: a here-document is read line by     *)
(* line by a child of the process that makes the redirections, and reaches *)
(* it through a pipe that is not read before that child has ended.         *)
(*                                                                         *)
(* The redirections of a builtin are made by the shell itself, those of    *)
(* any other command by the child forked for it: the "runner".  Each of    *)
(* the three processes has its own g_global.  The reading child reads      *)
(* whatever its standard input is: the terminal, or in the later stages of *)
(* a pipeline the pipe from the stage before, of which it and the runner   *)
(* hold the writing end as well.                                           *)
(***************************************************************************)
EXTENDS Integers

CONSTANTS
  MaxDocs,   \* the here-documents a command may have
  MaxLines,  \* the lines a document may have
  Capacity   \* the lines a pipe holds

ASSUME HereDocAssumption ==
  /\ MaxDocs \in Nat \ {0} /\ MaxLines \in Nat /\ Capacity \in Nat \ {0}

VARIABLES
  pc,           \* where the process that makes the redirections is
  where,        \* who that is: "shell" for a builtin, else "runner"
  stdin,        \* what its standard input is
  upstream,     \* the lines left to read there, unless it is the terminal
  docs,         \* the here-documents the command has left to read
  is_ctrlc,     \* g_global.is_ctrlc of each process
  reader,       \* where the reading child is
  typed,        \* the lines the present document has had so far
  buf,          \* the lines of it in the pipe
  interrupted   \* history: where Ctrl-C was hit, as far as it still counts

vars == <<pc, where, stdin, upstream, docs, is_ctrlc, reader, typed, buf, interrupted>>
command == <<where, stdin>>
content == <<typed, buf>>

Process == {"shell", "runner", "reader"}
Inputs  == {"terminal", "file", "pipe"}

Init == /\ pc = "prompt"
        /\ where = "shell" /\ stdin = "terminal" /\ upstream = 0
        /\ docs = 0
        /\ is_ctrlc = [p \in Process |-> FALSE]
        /\ reader = "none"
        /\ typed = 0 /\ buf = 0
        /\ interrupted = {}
-----------------------------------------------------------------------------
\* The user enters a command with here-documents.  A file may have been
\* redirected to the standard input in front of them.
Entered(inputs) ==
  /\ pc = "prompt"
  /\ docs' \in 1..MaxDocs
  /\ stdin' \in inputs
  /\ upstream' \in IF stdin' = "terminal" THEN {0} ELSE 0..MaxLines
  /\ pc' = "open"
  /\ UNCHANGED <<reader, content, interrupted>>

\* A builtin: no fork(), and nobody touches the flag.
EnterBuiltin ==
  /\ Entered({"terminal", "file"})
  /\ where' = "shell"
  /\ UNCHANGED is_ctrlc

\* Seeded fault: execute_pipe() does not take the flag back.
EnterCommand_FlagKept ==
  /\ Entered(Inputs)
  /\ where' = "runner"
  /\ is_ctrlc' = [is_ctrlc EXCEPT !["runner"] = is_ctrlc["shell"]]

\* A command that is forked, alone or as a stage of a pipeline: the child has
\* a copy of the flag when execute_pipe() takes it back.
EnterCommand ==
  /\ Entered(Inputs)
  /\ where' = "runner"
  /\ is_ctrlc' = [is_ctrlc EXCEPT !["runner"] = is_ctrlc["shell"], !["shell"] = FALSE]

\* own_here_doc(): pipe() and fork().
Open ==
  /\ pc = "open"
  /\ reader' = "forked"
  /\ is_ctrlc' = [is_ctrlc EXCEPT !["reader"] = is_ctrlc[where]]
  /\ typed' = 0 /\ buf' = 0
  /\ pc' = "wait"
  /\ UNCHANGED <<command, upstream, docs, interrupted>>

\* The line is over.  After a builtin a Ctrl-C of the prompt goes on counting.
Over == /\ pc' = "prompt"
        /\ interrupted' = IF where = "shell" THEN interrupted \ {"document"} ELSE {}
        /\ docs' = 0

\* pipe() or fork() fails: prepare_iter() takes an old flag for the reason.
OpenFails ==
  /\ pc = "open"
  /\ is_ctrlc' = [is_ctrlc EXCEPT ![where] = FALSE]
  /\ Over
  /\ UNCHANGED <<command, upstream, reader, content>>

\* waitpid(): however the child stopped reading, this is a document.  With
\* another one to come is_last_here() closes it.
Close ==
  /\ pc = "wait" /\ reader = "ended"
  /\ reader' = "none"
  /\ docs' = docs - 1
  /\ pc' = IF docs > 1 THEN "open" ELSE "run"
  /\ UNCHANGED <<command, upstream, is_ctrlc, content, interrupted>>

CommandEnds ==
  /\ pc = "run"
  /\ Over
  /\ UNCHANGED <<command, upstream, is_ctrlc, reader, content>>
-----------------------------------------------------------------------------
\* own_here_doc_while(), up to readline().
Ask ==
  /\ reader = "forked"
  /\ reader' = "ask"
  /\ UNCHANGED <<pc, command, upstream, docs, is_ctrlc, content, interrupted>>

\* readline() takes a line from the standard input.
Line == \/ stdin = "terminal" /\ UNCHANGED upstream
        \/ upstream > 0 /\ upstream' = upstream - 1

\* ... which is text.
ReadText ==
  /\ reader = "ask" /\ typed < MaxLines
  /\ Line
  /\ typed' = typed + 1
  /\ reader' = IF is_ctrlc["reader"] THEN "ended" ELSE "write"
  /\ UNCHANGED <<pc, command, docs, is_ctrlc, buf, interrupted>>

\* Seeded fault: nobody notices the end of a file.
ReadEnd_Missed ==
  /\ reader = "ask"
  /\ Line
  /\ reader' = "ended"
  /\ UNCHANGED <<pc, command, docs, is_ctrlc, content, interrupted>>

\* ... or the limiter, or the end of the terminal or file.  The pipe of a
\* pipeline has no end: the reading child holds its writing end itself.
ReadEnd ==
  /\ reader = "ask"
  /\ Line \/ (stdin = "file" /\ upstream = 0 /\ UNCHANGED upstream)
  /\ reader' = "ended"
  /\ UNCHANGED <<pc, command, docs, is_ctrlc, content, interrupted>>

\* write() blocks on a full pipe.  If Ctrl-C came meanwhile the standard input
\* is closed, and readline() finds the end of it.
WriteLine ==
  /\ reader = "write" /\ buf < Capacity
  /\ buf' = buf + 1
  /\ reader' = IF is_ctrlc["reader"] THEN "ended" ELSE "ask"
  /\ UNCHANGED <<pc, command, upstream, docs, is_ctrlc, typed, interrupted>>
-----------------------------------------------------------------------------
CtrlCAtPrompt ==
  /\ pc = "prompt"
  /\ is_ctrlc' = [is_ctrlc EXCEPT !["shell"] = TRUE]
  /\ interrupted' = interrupted \cup {"prompt"}
  /\ UNCHANGED <<pc, command, upstream, docs, reader, content>>

\* Seeded fault: the flag is one variable of all the processes.
heredoc_handler_Shared ==
  /\ reader \in {"ask", "write"}
  /\ is_ctrlc' = [p \in Process |-> TRUE]
  /\ interrupted' = interrupted \cup {"document"}
  /\ reader' = IF reader = "ask" THEN "ended" ELSE reader
  /\ UNCHANGED <<pc, command, upstream, docs, content>>

\* Only the reading child has a handler, and a write() goes on behind it.
heredoc_handler ==
  /\ reader \in {"ask", "write"}
  /\ is_ctrlc' = [is_ctrlc EXCEPT !["reader"] = TRUE]
  /\ interrupted' = interrupted \cup {"document"}
  /\ reader' = IF reader = "ask" THEN "ended" ELSE reader
  /\ UNCHANGED <<pc, command, upstream, docs, content>>
-----------------------------------------------------------------------------
User == EnterBuiltin \/ EnterCommand \/ CtrlCAtPrompt \/ heredoc_handler

RunnerStep == Open \/ OpenFails \/ Close \/ CommandEnds
ReaderStep == Ask \/ ReadText \/ ReadEnd \/ WriteLine

Next == User \/ RunnerStep \/ ReaderStep

Spec == Init /\ [][Next]_vars

\* Both processes keep going, commands end, and a user who is asked for lines
\* goes on typing up to the end of the document.
FairSpec == Spec /\ WF_vars(RunnerStep) /\ WF_vars(ReaderStep)
-----------------------------------------------------------------------------
TypeOK ==
  /\ pc \in {"prompt", "open", "wait", "run"}
  /\ where \in {"shell", "runner"} /\ stdin \in Inputs
  /\ upstream \in 0..MaxLines /\ docs \in 0..MaxDocs
  /\ is_ctrlc \in [Process -> BOOLEAN]
  /\ reader \in {"none", "forked", "ask", "write", "ended"}
  /\ reader # "none" <=> pc = "wait"
  /\ typed \in 0..MaxLines /\ buf \in 0..Capacity
  /\ interrupted \subseteq {"prompt", "document"}

\* A command gets every line of its last here-document, unless the user has hit
\* Ctrl-C in that command, or at a prompt after which only builtins have run.
DocumentIntact == pc = "run" /\ interrupted = {} => buf = typed

\* A Ctrl-C in a here-document is an affair of the reading child: it never
\* reaches the flag of the shell, where it would end a later document.
FlagStaysInDocument == is_ctrlc["shell"] => "prompt" \in interrupted

\* The two ways in which own_here_doc() waits for ever: for a child that has
\* more to write than the pipe holds, and for one that waits for the end of a
\* pipe it could write to.
Overfull   == reader = "write" /\ buf = Capacity
OwnWriter  == reader = "ask" /\ stdin = "pipe" /\ upstream = 0

\* There is no third way: every other here-document leads back to the prompt.
HangsOnlySo == (pc = "open") ~> (pc = "prompt" \/ Overfull \/ OwnWriter)
=============================================================================
