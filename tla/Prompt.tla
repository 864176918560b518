------------------------------- MODULE Prompt -------------------------------
(***************************************************************************)
(* src/minishell.c, executor/signals.c and the prompts of                  *)
(* parser/syntax_check.c: how lines are read, which of the keyboard        *)
(* signals reach the shell and the program it runs, and what becomes of    *)
(* g_global, which the signal handlers share with the rest of the shell.   *)
(*                                                                         *)
(* The keyboard signals go to the shell and to its child at once, at any   *)
(* moment.  A line is what the rest of the shell makes of it: empty,       *)
(* refused by the syntax check, unfinished, a builtin or a program; how it *)
(* is executed is the subject of module Executor.                          *)
(***************************************************************************)
EXTENDS Integers

CONSTANTS
  MaxMore,   \* how many further lines an unfinished line may ask for
  MaxCtrlC   \* how often the user hits Ctrl-C at a prompt

ASSUME PromptAssumption == MaxMore \in Nat /\ MaxCtrlC \in Nat

VARIABLES
  pc,                 \* where the shell is
  more,               \* the further lines that the line being read needs
  kind,               \* what the line is
  sigint, sigquit,    \* what the shell does on Ctrl-C and on Ctrl-\
  is_ctrlc,           \* g_global.is_ctrlc
  num_return_error,   \* g_global.num_return_error
  child,              \* the child process: where it is
  cint, cquit,        \* what the child does on the two signals
  cstatus,            \* how it ended
  prompted,           \* history: the shell has asked for a line
  hits,               \* history: the Ctrl-C the shell's handler has seen
  lost                \* history: the unfinished lines it has thrown away

vars == <<pc, more, kind, sigint, sigquit, is_ctrlc, num_return_error,
          child, cint, cquit, cstatus, prompted, hits, lost>>
line    == <<more, kind>>
signals == <<sigint, sigquit>>
program == <<child, cint, cquit, cstatus>>
history == <<prompted, hits, lost>>

Kinds == {"empty", "refused", "builtin", "external"}
Statuses == {0, 1, 127}   \* of builtins and of programs that end by themselves

Init == /\ pc = "ready"
        /\ more = 0 /\ kind = "empty"
        /\ sigint = "default" /\ sigquit = "default"
        /\ is_ctrlc = FALSE /\ num_return_error = 0
        /\ child = "none" /\ cint = "default" /\ cquit = "default" /\ cstatus = 0
        /\ prompted = FALSE /\ hits = 0 /\ lost = 0
-----------------------------------------------------------------------------
\* Seeded fault: the default action is put back instead of ignoring the signal.
do_sigign_Default == "default"

\* do_sigign(): what it leaves as the disposition of its signal.
do_sigign == "ignore"

\* read_user_input(), up to readline(): init_signals(INTERACTIVE) and
\* do_sigign(SIGQUIT).
ReadUserInput ==
  /\ pc = "ready"
  /\ sigint' = "interactive" /\ sigquit' = do_sigign
  /\ prompted' = TRUE
  /\ pc' = "reading"
  /\ UNCHANGED <<line, is_ctrlc, num_return_error, program, hits, lost>>

\* The user ends the line.  The handler stays in place for a moment.
Enter ==
  /\ pc = "reading"
  /\ kind' \in Kinds
  /\ more' \in IF kind' = "empty" THEN {0} ELSE 0..MaxMore
  /\ pc' = "entered"
  /\ UNCHANGED <<signals, is_ctrlc, num_return_error, program, history>>

\* Ctrl-D at the primary prompt.
EndOfInput ==
  /\ pc = "reading"
  /\ pc' = "exited"
  /\ UNCHANGED <<line, signals, is_ctrlc, num_return_error, program, history>>

\* Seeded fault: readline()'s handler stays while the line is executed.
IgnoreInterrupts_KeepsHandler ==
  /\ pc = "entered"
  /\ pc' = IF kind = "empty" THEN "ready" ELSE "syntax"
  /\ UNCHANGED <<line, signals, is_ctrlc, num_return_error, program, history>>

IgnoreInterrupts ==
  /\ pc = "entered"
  /\ sigint' = do_sigign
  /\ pc' = IF kind = "empty" THEN "ready" ELSE "syntax"
  /\ UNCHANGED <<line, sigquit, is_ctrlc, num_return_error, program, history>>

\* syntax_check() refuses the line; parse_and_execute() takes the flag back.
Refuse ==
  /\ pc = "syntax" /\ more = 0 /\ kind = "refused"
  /\ num_return_error' = 258
  /\ is_ctrlc' = FALSE
  /\ pc' = "ready"
  /\ UNCHANGED <<line, signals, program, history>>

\* dquote_expander(), up to readline().
AskForMore ==
  /\ pc = "syntax" /\ more > 0
  /\ sigint' = "interactive" /\ sigquit' = do_sigign
  /\ pc' = "more"
  /\ UNCHANGED <<line, is_ctrlc, num_return_error, program, history>>

\* Seeded fault: the flag is left for the next line.
MoreEntered_FlagKept ==
  /\ pc = "more"
  /\ sigint' = do_sigign
  /\ \/ /\ is_ctrlc
        /\ num_return_error' = 1 /\ lost' = lost + 1
        /\ pc' = "ready"
        /\ UNCHANGED <<more, is_ctrlc>>
     \/ /\ ~is_ctrlc
        /\ more' = more - 1
        /\ pc' = "syntax"
        /\ UNCHANGED <<is_ctrlc, num_return_error, lost>>
  /\ UNCHANGED <<kind, sigquit, program, prompted, hits>>

\* The rest of dquote_expander(), when the user has ended the line: the flag
\* decides whether it counts.  Whoever raised it, parse_and_execute() takes it
\* back.  End of input leaves the status of a syntax error.
MoreEntered ==
  /\ pc = "more"
  /\ sigint' = do_sigign
  /\ \/ /\ is_ctrlc
        /\ num_return_error' = 1 /\ is_ctrlc' = FALSE /\ lost' = lost + 1
        /\ pc' = "ready"
        /\ UNCHANGED more
     \/ /\ ~is_ctrlc
        /\ more' = more - 1
        /\ pc' = "syntax"
        /\ UNCHANGED <<is_ctrlc, num_return_error, lost>>
     \/ /\ ~is_ctrlc
        /\ num_return_error' = 258
        /\ pc' = "ready"
        /\ UNCHANGED <<more, is_ctrlc, lost>>
  /\ UNCHANGED <<kind, sigquit, program, prompted, hits>>

\* A builtin leaves is_ctrlc as it is.
RunBuiltin ==
  /\ pc = "syntax" /\ more = 0 /\ kind = "builtin"
  /\ num_return_error' \in Statuses
  /\ pc' = "ready"
  /\ UNCHANGED <<line, signals, is_ctrlc, program, history>>

\* execute_pipe() forks and waits.
Fork ==
  /\ pc = "syntax" /\ more = 0 /\ kind = "external"
  /\ child' = "forked" /\ cint' = sigint /\ cquit' = sigquit /\ cstatus' = 0
  /\ is_ctrlc' = FALSE
  /\ pc' = "waiting"
  /\ UNCHANGED <<line, signals, num_return_error, history>>

\* Seeded fault: only a child that called exit() is waited for.
Wait_ExitedOnly ==
  /\ pc = "waiting" /\ child = "ended"
  /\ is_ctrlc' = FALSE
  /\ num_return_error' = cstatus
  /\ child' = "none"
  /\ pc' = "ready"
  /\ UNCHANGED <<line, signals, cint, cquit, cstatus, history>>

\* waiting_pipe() and status_return(): a core dump ends the shell.
Wait ==
  /\ pc = "waiting" /\ child \in {"ended", "SIGINT", "SIGQUIT", "core"}
  /\ is_ctrlc' = FALSE
  /\ num_return_error' = CASE child = "ended"   -> cstatus
                           [] child = "SIGINT"  -> 130
                           [] child = "SIGQUIT" -> 131
                           [] child = "core"    -> 1
  /\ pc' = IF child = "core" THEN "exited" ELSE "ready"
  /\ child' = "none"
  /\ UNCHANGED <<line, signals, cint, cquit, cstatus, history>>
-----------------------------------------------------------------------------
\* Seeded fault: the signals are left as the shell had them.
Arm_Nothing ==
  /\ child = "forked"
  /\ child' = "armed"
  /\ UNCHANGED <<pc, line, signals, is_ctrlc, num_return_error, cint, cquit,
                 cstatus, history>>

\* exec(): init_signals(NO_INTERACTIVE), in the child.
Arm ==
  /\ child = "forked"
  /\ child' = "armed" /\ cint' = "handler" /\ cquit' = "handler"
  /\ UNCHANGED <<pc, line, signals, is_ctrlc, num_return_error, cstatus, history>>

\* execve() puts the default action in the place of a handler, and leaves an
\* ignored signal ignored.
AfterExec(disposition) == IF disposition = "ignore" THEN "ignore" ELSE "default"

Exec ==
  /\ child = "armed"
  /\ child' = "program" /\ cint' = AfterExec(cint) /\ cquit' = AfterExec(cquit)
  /\ UNCHANGED <<pc, line, signals, is_ctrlc, num_return_error, cstatus, history>>

\* The program ends by itself, or there was none to execute.
ChildEnds ==
  /\ child \in {"armed", "program"}
  /\ child' = "ended"
  /\ cstatus' \in Statuses
  /\ UNCHANGED <<pc, line, signals, is_ctrlc, num_return_error, cint, cquit, history>>
-----------------------------------------------------------------------------
Alive == pc \notin {"exited", "killed"}

\* Ctrl-C: the shell may have a handler, ignore it or die, the child as well.
CtrlC ==
  /\ Alive
  /\ \/ /\ sigint = "interactive" /\ hits < MaxCtrlC
        /\ is_ctrlc' = TRUE /\ num_return_error' = 1 /\ hits' = hits + 1
        /\ UNCHANGED pc
     \/ /\ sigint = "ignore"
        /\ UNCHANGED <<pc, is_ctrlc, num_return_error, hits>>
     \/ /\ sigint = "default"
        /\ pc' = "killed"
        /\ UNCHANGED <<is_ctrlc, num_return_error, hits>>
  /\ child' = IF child = "program" /\ cint = "default" THEN "SIGINT" ELSE child
  /\ UNCHANGED <<line, signals, cint, cquit, cstatus, prompted, lost>>

\* Ctrl-\: no handler of the shell does anything about it.
CtrlBackslash ==
  /\ Alive
  /\ pc' = IF sigquit = "default" THEN "killed" ELSE pc
  /\ child' \in IF child = "program" /\ cquit = "default" THEN {"SIGQUIT", "core"}
                ELSE {child}
  /\ UNCHANGED <<line, signals, is_ctrlc, num_return_error, cint, cquit, cstatus,
                 history>>

ShellStep == ReadUserInput \/ IgnoreInterrupts \/ Refuse \/ AskForMore
             \/ RunBuiltin \/ Fork \/ Wait
User == Enter \/ EndOfInput \/ MoreEntered \/ CtrlC \/ CtrlBackslash

Next == ShellStep \/ User \/ Arm \/ Exec \/ ChildEnds

Spec == Init /\ [][Next]_vars

\* The shell and the child's way to execve() keep going.  A program may run for
\* ever, and a user need not type.
FairSpec == Spec /\ WF_vars(ShellStep) /\ WF_vars(Arm) /\ WF_vars(Exec)
-----------------------------------------------------------------------------
TypeOK ==
  /\ pc \in {"ready", "reading", "entered", "syntax", "more", "waiting", "exited", "killed"}
  /\ more \in 0..MaxMore /\ kind \in Kinds
  /\ {sigint, sigquit} \subseteq {"default", "interactive", "ignore"}
  /\ is_ctrlc \in BOOLEAN
  /\ num_return_error \in Statuses \cup {130, 131, 258}
  /\ child \in {"none", "forked", "armed", "program", "ended", "SIGINT", "SIGQUIT", "core"}
  /\ {cint, cquit} \subseteq {"default", "interactive", "ignore", "handler"}
  /\ cstatus \in Statuses
  /\ prompted \in BOOLEAN /\ hits \in 0..MaxCtrlC /\ lost \in Nat

\* Once the shell has asked for a line no keyboard signal kills it, whatever it
\* is doing: reading, between two prompts, forking or waiting.
SurvivesKeyboard == prompted => pc # "killed"

\* The shell ignores both signals while it runs a program; the program itself
\* never inherits that, or nothing at the keyboard could stop it.
ProgramsInterruptible ==
  child = "program" => /\ cint = "default" /\ cquit = "default"
                       /\ sigint = "ignore" /\ sigquit = "ignore"

\* The flag of a Ctrl-C may be old when an unfinished line is continued, and
\* then takes a line that was meant; but each Ctrl-C takes one line at most.
EachCtrlCTakesOneLine == lost <= hits

\* After Ctrl-C has killed the program the user gets a prompt without hitting
\* another key.
PromptReturns == (child = "SIGINT") ~> (pc = "reading")

\* A key that is hit while the shell waits is the program's affair: it raises no
\* flag for the next prompt and does not touch "$?".
WaitUndisturbed ==
  [][pc = "waiting" /\ pc' = "waiting"
       => UNCHANGED <<is_ctrlc, num_return_error>>]_vars
=============================================================================
