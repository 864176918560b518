# A verification model of ba.sh

ba.sh is a small shell in C: it reads a line, cuts it into a list of command
nodes joined by `|`, `&&` and `||`, and runs the list with `fork()`, `pipe()`,
`dup2()`, `execve()` and `waitpid()`. This directory holds TLA+ models of the parts
in which order, concurrency and shared state decide whether it works, the TLC
configurations that check them on small instances, and theorems about them with
proofs for TLAPS.

Paths below are relative to `src/src/` of the repository.

    tlc -config Executor.cfg Executor      # any run of PROJECT.json
    tlapm ExecutorProofs.tla               # the proofs

## The system

| component | code | state | operations | talks to |
|---|---|---|---|---|
| main loop | `minishell.c`, `init.c` | `t_master` (tree, environment), `g_global` | read a line, check, parse, execute, free | all |
| prompt and signals | `executor/signals.c`, `parser/syntax_check.c:95` | dispositions of SIGINT and SIGQUIT, `g_global.is_ctrlc` | install handlers, ignore, ask for more | the terminal, the handlers at any moment |
| syntax check | `parser/syntax_check.c`, `syntax_util.c` | automaton over operator groups, quotes, brackets | accept, refuse, ask for more | prompt |
| parser | `parser/*.c` | list of `t_node`, a list below each subshell node | cut nodes, extract redirections | tokenizer (file names are expanded here) |
| executor | `executor/executor.c`, `executor_utils.c`, `exec_utils.c` | current node, `status`, `num_return_error`, pids | run in the shell or fork, wait, choose the next pipeline | all builtins, children |
| pipeline plumbing | `executor/executor.c:54-143` | descriptor tables of the shell and of its children, `node->fd` | pipe, fork, close, dup2, redirect | the kernel, the programs |
| redirections | `executor/redirects.c` | `group`: which descriptor was opened for which | open, dup2, close | plumbing, here-documents |
| redirection parser | `parser/redirections.c`, `redirect_utils.c`, `redirect_utilities.c` | the text of a node, two flags for quotes | cut redirections out of a node, expand their file names | parser, tokenizer |
| here-documents | `executor/redirects_utilities.c` | a pipe and a child that reads the terminal | read, expand, write, wait | signals, the terminal |
| program start | `executor/exec_cmd.c` | the files, the handlers of the child | dispatch builtins, search PATH, execve | environment, other processes |
| tokenizer, wildcards | `executor/expand*.c`, `wildcard.c`, `utils/path_utils.c` | a static `t_tokener` | next token, expand `$`, `~`, `*` | environment, directories |
| environment list | `env/*.c`, `builtins/envoir*.c` | a doubly linked list on the heap | load, search, set, append, unset, to array | builtins, tokenizer |
| builtins | `builtins/*.c` | the list, the current directory, `num_return_error` | cd, pwd, echo, env, export, unset, exit | executor |
| start-up | `init.c`, `utils/init_utils.c` | the first environment, SHLVL | load, default, level | environment list |
| helpers, debug | `utils/*.c` | none | strings, memory, printing | all |
| readline, bmlib | `src/lib` | vendored | line editing, strings | prompt |

What is hard about it:

* **Concurrency.** The stages of a pipeline run while the shell is still building
  it. The kernel gives out descriptor numbers that have just been freed, and an
  end of a pipe that stays open in any process makes some reader wait for ever.
* **Signals.** Handlers run at any moment and write `g_global`, which the rest of
  the shell reads and clears in other places. What the shell ignores its children
  inherit, unless `execve()` finds a handler to reset.
* **Order.** Children end in any order; the shell waits for them in list order and
  the last one gives the status. The next pipeline is found by a search along the
  operators that stops in the middle of the list.
* **Failures.** `pipe()`, `fork()`, `dup2()`, `open()` fail half way; some results
  are not looked at. Core dumps end the shell.
* **Pointers.** The environment list keeps pointers to freed cells, and `malloc()`
  reuses them.
* **Time of expansion.** File names are expanded while a line is parsed, commands when
  they run, and both by one machine with a static state.
* **The world outside.** Files come and go between `stat()` and `execve()`,
  directories between `chdir()` and `getcwd()`.
* **Shared status.** `status`, `node->status` and `num_return_error` say different
  things about the same command.

What makes each component correct: the executor evaluates the list from left to
right as an AND-OR list, waits for every child it forks and shows every failure; the
plumbing connects each stage to its two neighbours and nothing else, and leaves the
shell's table as it was; the list has one entry for each name and unset takes out one
entry; no key kills the shell, every key reaches the program, and an interrupted
line costs that line only; a redirection touches the descriptor it names; a
here-document gives what was typed and never blocks; the words and file names are those
the quoting says; the program that starts is the first one PATH has; `cd -` leads back;
a number is the number that was written, or is refused.

## The modules

### Executor (implements AndOrList)

The control flow of `executor()`, `execute_pipe()`, `builtin_exec()`, `waiting_pipe()`,
`status_return()` and `get_next()` over one list after the other.

| model | code |
|---|---|
| `op`, `kind` | `node->operator` and what `is_builtin()` and `node->subshell` say of the node |
| `node`, `first`, `cursor` | the local pointers of `executor()`, `execute_pipe()` (`node_init`) and `waiting_pipe()` |
| `status`, `num_return_error` | the local of `executor()`, uninitialised at first, and `g_global` |
| `proc`, `wstatus` | the child of each node, and what `waitpid()` will say of it |
| `pc` | `"exec"` at the head of the loop, `"fork"` in the middle of a pipeline, `"wait"` in `waiting_pipe()`, `"decide"` and `"skip"` in `executor()`, `"done"` between lines |
| `BuiltinRedirectFails`, `BuiltinReturns`, `BuiltinExitsShell` | the paths of `builtin_exec()` |
| `Fork`, `ForkFails`, `WaitStage`, `WaitLast` | `execute_pipe()` and `waiting_pipe()` |
| `Decide`, `Skip`, `NextLine` | the operators, `get_next()`, the next line |
| `ChildEnds` | a child, at any moment |

The builtins are three kinds that differ in what they do to the two statuses:
`"echo"` (also pwd, env, export, unset) does not set `num_return_error` on success,
`"cd"` always does, `"exit"` may end the shell or leave -1. A subshell is a child
that runs this same code over its own list.

`AndOrList` is what that amounts to: `&&` and `||` of equal precedence, each
pipeline run or skipped as a whole, the status left alone by a skip; a builtin
whose redirections fail gives up the line, which is this shell's own behaviour.
The mapping is in `Head`: while the executor is inside a pipeline the abstract
list is still in front of it, and a search that is inside a pipeline counts as being
at its first node.

### Pipeline (implements Chain)

The descriptors of pipelines, for every interleaving of the shell, of the children
that set themselves up, and of the programs that already run. `table[p]` is a process's
descriptor table: numbers are given out lowest first, as the kernel does, so
reuse of numbers is in the model. `MakePipe`, `Fork`, `CloseBehind`, `Wait` are the
shell; `DupEnds`, `Redirect`, `CloseEnds` are `set_pipe()` in three steps. The programs
(external) write, copy or end at once; a write to a pipe without readers kills,
a read from an empty pipe without writers is the end of input, and who is a reader
or a writer is computed from the tables.

A line is a record: its number of stages, the limit of descriptors it runs under, a
program and a redirection for each stage. `Lines` is the constant set of them.
`Inherited` is what the shell has before the line.

The result of `pipe()` is not looked at. A stage whose pipe failed has `{0, 0}` in
`node->fd`, so the shell closes its own standard input for it, and the *next* `pipe()`
gets descriptor 0 for a reading end, which the stage after that closes again as its own.
With five stages and six descriptors all of that happens in one line. What still holds:
no program runs with a wrong end (`StagesWired`: the stages around a failed pipe end
instead), and the shell has lost its standard input and at most one more descriptor
(`ShellTableRestored`), so that the next prompt finds the end of the input.

`Chain` has no descriptors: processes in a row, a bounded buffer between each two, some
of them *deaf* because their input never was connected. The refinement says that the
closing is exactly right: a stage sees the end of its input when the stage before it is
gone, not later because somebody else kept an end.

### EnvHeap (implements EnvList)

The list in memory: `cell[c]` is the `t_env` at address `c`, `live` the addresses
that are allocated; a new variable gets any free address. Actions: `Export`,
`ExportAppend` (`value_condition()`, also used by cd and SHLVL through
`env_set_value()`), `env_unset_node`, and `env_to_array`, the walk that makes the
environment of every program. The initial states are the lists `env_parser()`
builds (linked both ways) and those of `default_env()` (no prev pointers).
`undefined` records a read or write through a pointer to a freed cell or through NULL,
after which C promises nothing; the model stops there.

`Met(Sought)` are the cells a search passes, up to the first with a name in `Sought`:
the least set of cells that holds the head and the next of all that do not end the search.
It needs no recursion, so that the proofs can use it. A stale prev pointer may put a
freed cell into the list, so a search may be `Astray`; with four variables this
happens (the list A, B, X, D: unset X; export C at the same address; unset A; export A;
unset B; unset D).

`EnvList` is a sequence of variables together with the set `frail` of names whose prev
pointer cannot be trusted. It is the honest abstract specification: the list works
as a list *until* a frail name or the only variable is unset, or a
variable without value is appended to, and an unset makes at most the variable behind
it frail.

### Prompt

The two prompts, the two signals, one child. `sigint` and `sigquit` are the
dispositions of the shell, `cint` and `cquit` those of the child, inherited at `Fork`,
replaced at `Arm` (`init_signals(NO_INTERACTIVE)`) and reset by `Exec`. `CtrlC` and
`CtrlBackslash` happen at any moment and reach both processes. A line is a kind
and a number of further lines it needs; what the syntax check decides is chosen freely.
`prompted`, `hits` and `lost` are history variables. The exit builtin, a failing
`fork()` and a failing `sigaction()` are not in this module (the first two are in
Executor). SA_RESTART is set, so no read or wait is interrupted.

### HereDoc

`own_here_doc()` with its two processes and the pipe between them; the shell is the third,
with a flag of its own. `pc` is the process that makes the redirections (`where`: the
shell for a builtin, else the child forked for the command), `reader` the child
that reads lines; `stdin` is what both read from. Nothing takes lines out of `buf`
before the reading child has ended. Ctrl-C comes at any moment: at the prompt it sets the
shell's `is_ctrlc`, which every child inherits and which only `execute_pipe()` and
`prepare_iter()` take back; in the document it sets the reading child's.

Two ways of hanging are in the code and in the model. A document larger than the
pipe blocks the reading child in `write()` and its parent in `waitpid()`. In the
second and later stages of a pipeline the redirections are made before the stage closes
its ends of the pipe in front of it, so the child that reads the document from that pipe
waits for an end that it could write itself. `HangsOnlySo` says there is no third.
`DocumentIntact` needs its condition: after a Ctrl-C at the prompt, or in the document,
the command runs with what has been read so far.

### Redirect

`prepare_redirect()` for one command after the other. A redirection is the descriptor it
is for, and whether it is a file or a here-document (which is always for descriptor 0). `table`
is the descriptor table of the shell and of a child, `group` the array of the code:
`group[d]` is the number, the "original", that was copied to `d`. `Save` is the code's 200:
the first number that cannot be redirected, where `builtin_exec()` keeps its copy of
standard input. `at` and `pc` are the loop; `opened` and `before` are history variables.
`strayed` marks who has executed the last round of the closing loop, which reads one
element behind the array: any number may be there, and the properties promise nothing
after it hits an open one.

`Applied` says exactly where every descriptor points when the command runs, and with
it what goes wrong: a number that the user names (`5>f 3>g`, or `3>h` alone) may be
the one `open()` returns for an original, and is then closed behind the user's back; the
original of standard input is never closed, because the loop starts at 1, so that each
builtin with `<` leaves a descriptor open in the shell.

### Grammar, SyntaxCheck, Parser

Lines are sequences of tokens: a character that means nothing, escaped ones among them, a digit,
a space, one of the operators, a bracket, a quote. `"&&"` stands for `||` too, `"<"` for the four
redirections. An escaped bracket is a token of its own, `"esc("` or `"esc)"`: the grammar and the
syntax check take it for a character that means nothing, the parser does not always.

`Grammar` is the reference: which token sequences are lists of commands (`IsList`), and
which can become one on the next line (`Completable`). `SyntaxCheck` is the scanner of
`syntax_check.c`, one action a round of its loop, with the code's flags as variables
(`count` and the quotes as BOOLEANs), and the prompt for more: `Continue` starts the
scan again with a newline and what was typed. `Parser` extends it by `Parse`, which makes the list
of nodes of an accepted line. `ffwd`, `get_close_bracket`, `create_node` are the code's
functions; `Nodes` is the loop of `parser()`, `Beyond` the step from one node to the
next, and `Lost` the result when that step, or a scan, leaves the string.

The scanner accepts four kinds of lines that are no lists, `Regular` names them: `a (b)`
and `(a)(b)`, `(a|)`, `(a) 3 <f`, `(a) <f b`. The parser then drops or misreads parts of
them: of `echo a (echo b)` only the subshell runs.

The parser does not see every quote and backslash. `get_close_bracket()` counts quoted brackets:
`(echo ")")` ends at the quoted one. It asks `isscaped()` about the bracket it started at, every
time, so it counts escaped ones as well: `(a \))` ends at the escaped bracket, and of `(echo \()`,
which the syntax check accepts, it never finds the end, so that the search for the end of the
subshell goes on behind the NUL. That search takes quoted operators for operators: `(a) <"x&&y"`
reads the file `x`. `Visible` excludes the lines with a quoted or escaped bracket in a subshell and
those with a quoted operator behind one, for `ParseCorrect`; `ScansEndAtNul` says that all lines on
which a scan goes on behind the NUL are among them.

One read behind the NUL happens on every line: `create_node()` looks at `*(end + 1)` to find an
operator that is the last character, and for the last node `end` is the NUL. The byte there belongs
to nobody, in the line and in the text of each subshell; if it is 0, `end` moves on to it. `Parse`
chooses it freely for each depth of brackets (`Depths`), and `ParseCorrect` says that the nodes do not
depend on it. `isscaped()` looks at the byte in front of a character, so for the first character of a
string at the one in front of the string: the model takes it for one that is no backslash.

### Wildcard, Tokenizer, RedirectParser, measured by Fields (in Words)

`Wildcard` has `match_wildcard()` as a function of two positions, whose third result,
`"lost"`, is a read behind the end of the name, and the functions that put names and
paths together. `Tokenizer` is the machine of `executor/expand*.c`: its static variable
`tk`, one action a call of `token_and_expand()`, expansions put in front of the rest of
the text. `RedirectParser` cuts the redirections out of a node's text with its own two flags
for quotes, expands their file names with that machine *while the line is parsed*, and then
runs the commands, with the values the variables have by then; the lines of
here-documents go through `str_dollar_expander()`, which is other code.

`Fields` is the reference: each character is read in the state its predecessors leave
(plain, escaped, in one of the quotes), and the text means a set of redirections and a
list of words. It was written from what the shell's quoting is meant to be and has
none of the code's cursors. `Words` compares the two, for a variable whose value may
change between parsing and running:

* `FilesCorrect`: the file names are those of the text, with the values at parse time;
* `WordsCorrect`: the words are those of the rest, with the values at run time;
* `SameCommand`: `is_builtin()`, which cuts the first word on its own, decides about the word
  that is run;
* `DocumentCorrect`: each line of a here-document, and where the document ends;
* `StartsFresh`: what one text leaves in the static variable does not change the next;
* `InText`: no pointer goes on behind the end of the text, for the texts and lines the table below
  does not name. It says nothing of the other end: `get_redirect_start()` (`redirect_utils.c:101`)
  and `tilde_handler()` (`expand_handler.c:30`) may look at the one byte in front of the text, the
  first without consequence; for the second the model has a byte there that is no blank.

The code departs from the reference for some kinds of text. `Regular` in `Words` names each:

| kind | example, and what the shell does |
|---|---|
| quotes that stand together, or in other quotes | `echo ""<f`, `echo "it's" >f`: the redirection is taken for text |
| an operator that is escaped | `echo \>f` redirects all the same; digits behind an escaped blank count as its descriptor |
| two escapes in a row in a file name, or one behind a quote | backslashes are dropped or kept wrongly |
| digits that are a file name | `a< 33<g`: 33 is the file, and the descriptor of the next one as well |
| a newline that is not behind a blank | it is no end of a word |
| a backslash at the end | the scan steps over the NUL |
| a last word that is an unquoted expansion to nothing | `echo a $NIX`: an empty word is left, `a ` with its blank is written |
| first a variable, then a word of empty quotes | the command ends there, with its arguments |
| `$?` or a lone `$` directly behind a variable | `echo $A$?` writes `0`: what `$A` gave is replaced |
| a star next to quotes, `\`, `$` or `/` in its word, or a `?` inside the word | `echo "a"*` writes `a"a"*`; a `?` beyond the end of a name steps over its NUL |
| a tilde behind a variable or an escaped blank, `~user`, `~/` at the start or as a file | `~/x` looks for a file of that name, `echo \ ~` writes the home directory |
| a backslash before a quote in `'...'` | the quote is escaped, the text is not complete |
| in a here-document: a backslash at the end or before other characters, a lone `$`, `$?` behind a variable, an expansion to the delimiter | the backslash or `$` is dropped, the value replaced, the document ended |

The properties say that no other text of the run goes wrong; about those in the table they promise
nothing. The values of the run are the empty one and one of two words. Two more departures are
outside its instance: the text of an expansion is read again, so that a `*` or a `~` in a value is expanded
in its turn, and the names a star finds are cut at their blanks, so that a file `a b` is two words.
No value of the run has a star or a tilde, and no file name a blank.

### Launch

A child with a command: `env_get_path()`, `check_cmd()`, `execve()`, and the second search
that finds the words and the code of a failure. `file[c]` is what is at the c-th path,
`was[c]` all it has been since the search began: other processes change the files between any
two steps, up to `MaxChanges` times. `way` says where the command is looked for: as a path,
in the directories of PATH, without PATH in the working directory, or with a PATH that has no
value, which ends the child by a signal (`export PATH && ls`: status 1 and no message).
`Posix` is what a POSIX shell finds. `AsPosix` names where the two differ: directories,
special files, files whose owner may do what the user may not, and a plain file that hides a
program in a later directory.

### Cd

`exec_cd()` in three steps, because other processes make and remove directories between
them; the user sets and unsets PWD, OLDPWD and HOME, and starts another shell in a
directory whose path `env_parser()` cuts at a `=`. `trail` and `sure` are history
variables: where the shell was before its last cd as far as OLDPWD can tell, and
whether PWD is known to be right. cd of no argument, of `-` and of a path, with each of
its failures, are the disjuncts of the first step.

### Arguments

Texts that are read as numbers and names. `exec_exit()` with `valid_numeric_argv()`, which
compares a number as text with the limits of `long long`, and `ft_atoi_long_long()` with its
wrap-around; `export` with `NAME`, `NAME=value`, `NAME+=value` and words that are no
names; `bash_lvl_calculator()`, for a chain of shells each started by the one before.
The widths and the level that is not shown are constants, so that TLC reaches the limits with
short texts: `LongBits` is 8 for 64, `IntBits` 4 for 32, `Cap` 6 for 1000, and the proofs are about
all of them. Texts are sequences of any `Characters`; a value that is NULL is a text with a
character that is none of them. Two kinds of
argument are left open by name: a sign followed by blanks (0 for the code), and a long
number with blanks (refused).

## The runs

| run | instance | what it shows |
|---|---|---|
| `executor` | 3 nodes of 4 kinds, codes 0 and 1, signals, fair | `ChildrenAccounted`: the shell owes a wait to exactly the stages it has forked and is not done with. `ExitLeavesNoChild`: neither `exit` nor a core dump leaves a process behind, and a failed `fork()` just the stages in front of it. `FailureVisible`: a failed status the executor acts on is never behind a `$?` of 0. `ImplementsAndOr`. `LineEnds`: every line comes to its end |
| `pipeline` | 3 stages with 8, 5 or 4 descriptors and redirections of 0, 1 and 4; 5 stages with 4 and 6, also with a last stage that redirects its input; fair | `StagesWired`: each program starts with its own ends and no other. `ShellTableRestored`: the shell has what it had before, but for what a failed `pipe()` costs. `ImplementsChain`, `LineEnds`: no stage blocks for ever |
| `env_heap` | 4 names, 4 addresses, up to symmetry | `NamesDistinct`: no name is listed twice. `ImplementsEnvList` |
| `env_unset` | 3 names, 4 addresses | **violated**: `UnsetTakesOne`, the comment of `env_unset_node()` |
| `prompt` | 2 further lines, 3 Ctrl-C, fair | `SurvivesKeyboard`, `ProgramsInterruptible`, `EachCtrlCTakesOneLine`, `WaitUndisturbed`, `PromptReturns` |
| `heredoc` | 2 documents of 3 lines, a pipe for 2, fair | `DocumentIntact`: which documents are whole. `FlagStaysInDocument`: how far a Ctrl-C reaches. `HangsOnlySo` |
| `redirect` | 3 redirections of 0 to 5, 8 descriptors | `Applied`. `StandardRestored`: the shell that prompts again has its standard input and output |
| `parser` | lines of 6 tokens: word, digit, operators, redirection, brackets, both quotes; of 7 tokens of three smaller sets, two of them with escaped brackets; any byte behind each NUL | `SyntaxTypeOK`: the scan stays in its line. `VerdictCorrect`: the verdict is the grammar's. `ParseCorrect`: the nodes written out are the line. `ScansEndAtNul`: on which lines alone the parser goes on behind the NUL |
| `words` | texts of 5 pieces, a set of pieces for each kind of expansion; lines of documents | the six properties above |
| `cd` | 2 directories, one with a `=` in its path | `Arrived`: a cd that returns 0 has done everything. `Refused`: one that returns 1 has done nothing, or got stuck in one of two ways. `BackAgain`: `cd -` leads back, and PWD is right from the first cd on |
| `launch` | PATH of 3 directories, 2 changes at any moment | `StartedFirst`: whatever is started, all paths before it were empty at some moment. `CodeTells`: each exit code tells something that was true. `AsPosix` |
| `arguments` | a long of 8 bits, an int of 4, 8 shells in each other | `ExitRight`, `ExportRight`, `LevelRight` |

Bounds. Three nodes give every pair of operators around a node, a pipeline that starts or ends in
the middle, and a search that passes a pipeline; all but `LineEnds` is proved for any number of
them. Three stages have a first, a middle and a last; five, with a limit of six, are what it takes
for a pipe to be made with a descriptor that an earlier failure has freed, and to be inherited by a
later stage. With these five stages the last one has its pipe at descriptor 0: if `0< file` takes it
away while the stage is still being set up, the stage in front is killed by its next write, which no
stage with a pipe that works meets (`Late`). Wiring, table and refinement are proved for any number.
Two items through a pipe that holds one make every stage block. Four names and four addresses give a
node with two neighbours, an address that is used again while stale pointers to it exist, and a list
that leads to a freed cell; three names do not. Two documents make one that is closed unread, and
three lines are more than a pipe for two holds. Three redirections let one open a number, a second
use it and a third replace one of both, and a table of eight has numbers that cannot be redirected
as well as those that can. Six tokens are enough for a pair of neighbouring operators inside
brackets with something on both sides (spaces come in where a line is continued), seven for a
subshell with a quoted operator in its redirection, or with escaped brackets in it and behind it. Five pieces give a quoted or expanded part with
something on either side, a redirection with a name and a word behind it, and every pair of
expansions that touch. Two directories are the one the shell is in and the one it goes to, and every
cd makes a new pair of them. Three directories of PATH are one that is passed over, one that stops
the search and one behind it; two changes let one remove what `stat()` found and another change what
the second search finds. Eight shells pass the level that is not shown, whatever the first one is.

The type invariants of the modules with a proof module are theorems
and are not run again; that of SyntaxCheck is run as well, for it is the only one that says that the
scan stays in its line.

`CHECK_DEADLOCK FALSE` is in the configurations of Executor, Pipeline, EnvHeap and Prompt
because the shell really stops, with `exit`, at the end of the input or where C
promises nothing; that it does not stop anywhere else is what the liveness
properties say. It is in that of Parser because a line ends with its verdict, and in that of Arguments
because a shell ends with exit. The other runs keep the deadlock check: there the user can
always do something, or the last state is named by a step of its own.

Fairness. `WF_vars(ShellStep)`: the shell is one process and the kernel schedules it;
`WF_vars(ChildEnds(n))` in Executor: programs come to an end (an assumption about
the programs, without which no shell ends a line); `WF_vars(StageStep(n))` in
Pipeline: each process is scheduled when it is not blocked, with no assumption that
blocked ones get free; in Prompt only the shell and the way of the child to
`execve()` are fair: no program has to end and no user has to type. In HereDoc both processes
are scheduled, the command ends, and a user who is asked for lines goes on up to
the end of the document; no Ctrl-C is ever promised.

## The finding

`env_unset` refutes the comment `src/src/env/env_ex.c:62`, "Unset the value of one of the
variables of enviroment". `env_unset_node()` takes a variable without `prev` for the head of
the list and never repairs the `prev` of the variable behind the one it frees. The property
looks only at steps in which no freed memory and no NULL is used. TLC's trace: the list of
`default_env()`, which has no `prev` pointers at all, loses all variables in front of the one
that is unset. With the program: `env -i ./msh`, then `unset PWD`, and PATH and SHLVL are
gone as well.

The model has more of it, as steps to `undefined`: the unset of the only variable goes
through NULL (line 85); `unset A` and then `unset B`, for neighbours, writes to freed
memory or, if the address was used again, into an unrelated variable. The refinement
`ImplementsEnvList` says exactly how long the list can be relied on.

## The proofs

**ExecutorProofs.** For every number of nodes, every set of exit codes and signals,
and every kind of line. `IInv` is `TypeOK /\ Position /\ ChildrenAccounted /\
FailureVisible`. `Position` is the strengthening: where the pointers are for each
`pc` (`node` is not NULL in `"exec"`, `first..node` is one pipeline while forking and
waiting, `"exec"` and `"decide"` are at a node that starts a pipeline, `"skip"` searches in
the right direction). Without it `Fork` could overwrite a child that has not
been waited for, and the mapping `Head` would not be at the start of a pipeline.
Theorems: `TypeCorrect`, `ChildrenAlwaysAccounted`, `FailureAlwaysVisible`,
`ExitIsClean` (an action property, from the invariant: what is left behind when the shell ends, exactly), and `Refinement`:
`Spec => AndOr!Spec`, one lemma per action, each mapped to a step of AndOrList or to
a stutter. `LineMovesOn` is the safety half of `LineEnds`: in a line the shell always has a step to
take or waits for a child that can still end (`NoLostWait`), and each of its steps leads to a later
node, a later place at that node (`Rank`), or a later child of the pipeline (`MovesOn`).

**PromptProofs.** For any number of further lines and signals. `IInv` is
`Dispositions /\ FlagPaid`. `Dispositions` ties what the two processes do on a signal
to where they are; it is needed because the handler of `readline()` outlives it.
`FlagPaid` is the argument for one line per Ctrl-C: the flag is only up when a Ctrl-C has
not been charged yet. Theorems: `PromptTypeCorrect`, `Survives`, `Interruptible`, `OneLineEach`,
`Undisturbed`, and `StraightBack`, the safety half of `PromptReturns`: the shell never waits for a
child that is gone, and after a program has died of Ctrl-C only the shell's own `Wait` changes
anything about it, and leads to the prompt.

**InputProofs, HereDoc.** For any number of documents, lines and any pipe. `IInv` is
`FlagsCount /\ LinesCount`. `FlagsCount`: a flag that is up has its Ctrl-C in
`interrupted`, with the place it came from; it needs to know that `execute_pipe()` has
taken back the shell's flag while a command other than a builtin runs. `LinesCount`: without
a Ctrl-C, the lines in the pipe are those typed, less the one that is being written. Theorems:
`HereDocTypeCorrect`, `Intact`, `FlagOfDocument`, and the safety half of `HangsOnlySo`: `NoOtherHang`
(one of the two processes can go on, or it is one of the two ways the property names) and
`EveryStepIsNearer` (every step lowers `Left`, a number, and a Ctrl-C does not raise it).

**InputProofs, SyntaxCheck.** For lines of any length over any of the tokens, brackets of any depth
and any number of continuations. Theorems: `SyntaxTypeCorrect` and `VerdictIsCorrect`, which is
`VerdictCorrect` as the run checks it. The argument has three parts.

The grammar. `IsRedirs`, `IsItems` and `IsList` are recursive functions on the readings; that they
obey their equations (`RedirsUnfold`, `ItemsUnfold`, `ListUnfold`) follows from `FixedPoint`: an
equation for a function has a solution as long as each value depends only on values for smaller
arguments, here for shorter texts. `ListShape`: every list begins and ends as it should, has only neighbours that
`Follows` allows, and its brackets are level. `SoundList` is the other direction: a text with
neighbours as `Meets` has them, level brackets and no word behind a subshell's redirections is a
list; it is cut at the first operator outside the brackets, and the parts are sound again.

The scan. `ScanRight` says what each flag means at each position, in terms of what has been read
so far (`done`): the quote that is open, the brackets, the last token, which tokens have stood side
by side. The hard part is `GapRight`: `count` behind a `)` does not tell a word from digits that belong
to the next redirection, and `syntax_redi_correct_case()` looks back to decide; it does, unless the
digits stand apart from the operator (`DigitsBehindBracket`, one of the four kinds). TLC
checked `ScanRight` on lines of five tokens before it was proved. Each round is one of four kinds
(`ScanKinds`), and there is one lemma for each part of the invariant.

The verdict. A refusal leaves a text that no list begins with (`Broken`, `BrokenForGood`);
at the end what has been read is the reading of the line, and either it is `Sound`, or it
becomes so with the missing brackets behind it, and a word where an operator stands last
(`FrontCompletable`).

**RedirectProofs.** For every size of the table, every number that cannot be redirected and
any number of redirections. `IInv` is `TypeOK /\ CopiesKept`. `CopiesKept`: while a
builtin's redirections are made, its copies at `Save` and `Save + 1` are the terminal, and no
original has one of these numbers (both are taken, and a redirection is below them).
Theorems: `TypeCorrect`, `StandardBack`.

`RedirectionsApplied` needs more, because what a number refers to depends on what was closed and
opened for all redirections before. `AppliedInv` has two halves. `Contents`: a number that is no
original refers to the last redirection made for it, or to what it was. `Tidy`: each original belongs
to one number and is open while it does; of those that do not belong to one any more at most one is
closed, and that is the number `open()` returns next, so that a file never lands on a number of
somebody else. `LowOpen` keeps the originals off 0 to 2.

**PipelineProofs.** For every number of stages, any limits, programs, redirections and lines.
`TypeOK` is inductive. `ShellHas` is what the shell holds at each `pc`: the lemma `CarryOn`
follows the descriptors from one stage to the next (`Carry` is what is left of the pipe in
front, `Piped` what the pipe behind adds), through a `pipe()` that fails and the
descriptor 0 it costs. `Stages` says of each process where it stands: not born, set up
with exactly its ends (`Sound`, `Fresh`, `Wired`), or `Doomed`, because a pipe of its own
failed. Theorems: `PipelineTypeCorrect`, `ShellRestored`, `StagesAreWired`.

`PipelineIsChain` proves the refinement from `Wiring`, which adds to these what connects two
neighbours: in which order they are started (`InOrder`), that the shell still has the reading end
that the next stage is to get (`ShellReads`), that with seven descriptors no `pipe()` fails
(`Plenty`), and which ends a stage has at each point of its set-up (`Joined`). From it follow who
can have an end at all, hence that *no writer* of a pipe means that the stage in front is gone, and
*no reader* that the stage behind is, or was redirected. One lemma per action. The proof showed that
`Chain` was too strict at first: it let a write fail only when the stage behind is gone, or up and
redirected. The five stages with six descriptors and `0< file` in the last are the exception, which
TLC then found as well (`Late`); in `Chain` a stage may now have turned away while it is still being
set up.

`NoStageStuck` is the freedom from deadlock behind `LineEnds`, for any number of stages and any
capacity, also behind a failed `pipe()` or `fork()`. `Behind` says what nobody holds any more. Suppose
no stage can go on. Then the last one that has something to write waits for room, so its reader waits
as well, with items there to take: it would have to be writing. So all wait for input, and the first of
them for a writer that does not exist.

`EveryStepIsLess` is the other half: `Remaining` falls with every step of the shell and of a stage.
It counts single steps, as a set, so that sums over the stages are cardinalities of unions (`Apart`)
and no recursion is needed. `Owes(n)` is what a stage has to do: the steps of its set-up, and for each
item a number that gets smaller from stage to stage, and once more when the item goes into a pipe; a
`cat` that takes an item from the pipe in front of it trades what the stage before it owed for less of
its own (`Traded`), which needs `Stages`: it reads that pipe and no other.

**EnvHeapProofs.** For any names, values and finite set of addresses. `IInv` is
`TypeOK /\ NamesDistinct`. The argument is about least closed sets: after each step some set
closed under the new pointers lies within what was reachable before, plus the new cell.
Theorems: `EnvTypeCorrect`, `NamesStayDistinct`.

`EnvIsList` proves the refinement. Its invariant is `Whole`: as long as the list is not `Broken`,
its cells have an order `q` without repetition in which each points to the next (`Listed`). The
mapping walks the pointers by a recursive function; that the walk is `q` (`WalkVisits`) is shown
without an induction theorem, by comparing two functions that obey the same rule at the least place
where they differ. Each action then gives the new order: with one cell behind it, without one in the
middle or at the head, or the same with another value.

**BuiltinProofs.** Of Arguments and of Cd, which have no name in common.

For texts of any length, any widths of the three integer types and any level that is not shown from
2 to the largest int: `ExitIsRight`, `ExportIsRight` and `LevelIsRight`, the three properties of the
run. The first two are about one step; the work is in what the functions of the code compute. An
induction on the length of a text is stated with the set of the lengths for which something holds
(`Induction`, `StrongInduction`), and every recursive function is first shown to exist as a function
that is made longer by one place (`NumeralExists`, `ToTextExists`, `ExportAllExists`). From there:

* `Parted` and `Parts` say where a text is cut by the scans of the code (`Leading`, `Behind`), and
  `Reading` which four places `ft_atoi_long_long()` and `is_numeric()` find in any text;
* `Shorter`, `NotAbove` and `IsAbove` are what `valid_numeric_argv()` relies on: of two numbers
  without zeros in front the shorter text is the smaller number, and of two that are equally long the
  first difference decides, as `strncmp()` does. With `ToTextIs`, what `ft_itoa()` writes, this gives
  `ValidIsLong` and `LongIsValid`;
* `ReadDigitsIs` follows `num` through the loop of `ft_atoi_long_long()`: it stays what the digits say
  as long as that fits, and the one value that does not, 2^63, is turned into the right one by the
  sign (`Reads`);
* `WordParts` and `WordExported` cut a word of export at the first `=` and the `+` in front of it;
  `ExportAllIs` follows the loop over the words;
* `NextLevel` is `bash_lvl_calculator()` on any number an int holds, `AnyLevel` on anything else.

`LevelIsRight` needs an invariant: `LevelInv` adds to `LevelRight` that the environment holds texts
(`Holds`), that SHLVL is there once a shell has started another one, and that until then `base` is
what it shows. Without it an export that leaves SHLVL alone could still lose it.

For any set of directories: `CdInv` adds `Underway`, what each step of a cd has
done so far, and `Traced`, which ties `trail` and `sure` to the variables. Theorems:
`CdTypeCorrect`, `CdArrived`, `CdRefused`, `CdBackAgain`.

**LaunchProofs.** For a PATH of any length and any number of changes. The invariant says that
every path the search has passed was empty at some moment, and every step only adds to `was`.
Theorems: `LaunchTypeCorrect`, `LaunchStartedFirst`, `LaunchCodeTells`, and `LaunchAsPosix`, for
which `Steady` adds that without a change the history of a path is what it is.

The proofs assume the `ASSUME`s of the modules, which TLC evaluates in the runs.
Model-checked only:

* liveness, for which TLAPS 1.4 has no rules: both `LineEnds`, `PromptReturns`, `HangsOnlySo`. What
  they rest on is proved: that a step is possible, and that every step is nearer. `ENABLED` is out of the prover's reach too, so the guards are written out (`ShellCan`,
  `RunnerCan`, `ReaderCan`, `CanStep`). For Pipeline and HereDoc TLC has compared them with `ENABLED` of
  the action on the instances of the runs;
* Parser and Words: a parser of nested lists and an expander that call themselves. They are
  RECURSIVE operators, for which the prover has no rule, and their properties compare two such
  definitions for every text;
* `UnsetTakesOne`, which does not hold.

## How the models were compared with the program

The repository has no tests for these parts, so samples were run through the built shell, and its
answers compared with the model's: about 4,500 random texts for Words, 6,000 lines for Parser (its
nodes, and whether a memory checker sees it leave the line), 700
redirections, 1,500 lines of here-documents, 413 combinations of files for Launch,
the arguments of exit and export, chains of shells for SHLVL, the five-stage pipeline with six
descriptors, and the sequences of unset above. They agreed, but for five texts behind an earlier
line with an unfinished `$'...'`: `is_quoted_dolar` is left over from it (hazard
`expander_utils2.c:131`), and for three lines with a quoted operator behind a
subshell (not `Visible`), on which the parser goes on in the middle of a token, where the model
passes all of it (`Beyond`).

## Not modelled, and the plan

Of the program itself, `src/src`, the models cover more than half of the lines. Nine tenths of
the repository is `src/lib/readline`, some 45,000 lines of vendored C that is compiled in as it
is; `readline()` is the user in Prompt and HereDoc, and nothing more of it is modelled. Of bmlib the
functions that the models call are (`ft_substr()`, `ft_strrchr()`, `ft_itoa()`, `ft_split()`).

Left out for good, and why:

* messages, debug printing, the reading of directories by the kernel, the sorting and printing
  of `env` and `export`, the output of `echo`: no property is about them;
* memory that runs out: the code exits;
* the modes `-c` and `-t`: `-t` prints the nodes as well. `-c` gives its one line to the parser without
  the syntax check (`init.c:57`), so what Parser says of accepted lines says nothing of a `-c` line
  that the check would have refused;
* `close()` that fails, and `write()` of a here-document that is cut short;
* a limit of 202 descriptors or fewer, with which the copies of `builtin_exec()` cannot be
  made at 200 and 201;
* `get_abs_path()` puts the working directory in front of `dir/x` without a `/`: Wildcard has it as
  it is, and no property calls it right;
* `str_to_lower()` makes `LS` into `ls`: names in Launch are what it gives;
* the array for the words of a command of one word has no room for the NULL behind it
  (`exec_cmd.c:31` and `:49`): the models hold sequences;
* `quotes_sub_handler()` and `is_isolated_quotes()` are never called.

What a next step would take up, in this order:

1. the composition of Prompt with HereDoc: a Ctrl-C in a document that a builtin reads;
2. Executor on the lists that Parser builds, with subshells as lists of their own;
3. Redirect with a table too small for the copies of `builtin_exec()`.
