------------------------------ MODULE Redirect ------------------------------
(***************************************************************************)
(* src/executor/redirects.c: the redirections of one command after the     *)
(* other, made one by one in a table of file descriptors.  A builtin's are *)
(* made in the shell itself, which puts descriptors 0 and 1 back when the  *)
(* builtin is over; any other command's in the child forked for it.        *)
(*                                                                         *)
(* A file is opened at the lowest free number, the "original", copied to   *)
(* the descriptor it is for, and the original is closed later.  Nothing    *)
(* keeps the numbers of originals apart from those the user has named.     *)
(* A limit of Save + 2 descriptors or fewer, at which the two copies of    *)
(* builtin_exec() cannot be made, is left out.                             *)
(***************************************************************************)
EXTENDS Integers, Sequences

CONSTANTS
  NFds,          \* the size of a descriptor table
  Save,          \* 200: the first number that cannot be redirected; the
                 \* copies of 0 and 1 are kept at Save and Save + 1
  MaxRedirects   \* the redirections a command may have

ASSUME RedirectAssumption ==
  /\ Save \in Nat /\ Save > 2
  /\ NFds \in Nat /\ NFds > Save + 1
  /\ MaxRedirects \in Nat \ {0}

Fd      == 0..(NFds - 1)
STDIN   == 0
STDOUT  == 1
Process == {"shell", "child"}

\* What a descriptor refers to: the file or here-document of redirection k of
\* the present command, or one of these.
TERMINAL == 0
CLOSED   == -1
EARLIER  == MaxRedirects + 1   \* a file of an earlier command
Object   == CLOSED..EARLIER

\* "doc" is "<<", which is for STDIN whatever the user writes in front of it.
Redirections == [type : {"file"}, fd : 0..Save] \cup [type : {"doc"}, fd : {STDIN}]

VARIABLES
  pc,       \* where the process that makes the redirections is
  where,    \* who that is
  list,     \* node->redirects
  at,       \* redi: the redirection that is next
  table,    \* table[p]: the descriptors of process p
  group,    \* group[d]: the original that was copied to d, or 0
  error,    \* prepare_redirect's error
  before,   \* history: the table the command started with
  opened,   \* history: the numbers of the originals of the command
  strayed   \* history: who has closed a number found behind the group array

vars == <<pc, where, list, at, table, group, error, before, opened, strayed>>
command == <<where, list, before>>

Table == table[where]
redi  == list[at]
Free  == {d \in Fd : Table[d] = CLOSED}
Lowest(f) == \A d \in Free : f <= d
Unused == [d \in Fd |-> CLOSED]
-----------------------------------------------------------------------------
Init == /\ pc = "prompt" /\ where = "shell" /\ list = <<>> /\ at = 1
        /\ table = [p \in Process |->
                      IF p = "shell" THEN [d \in Fd |-> IF d < 3 THEN TERMINAL ELSE CLOSED]
                                     ELSE Unused]
        /\ group = [d \in 0..(Save - 1) |-> 0]
        /\ error = FALSE
        /\ before = table["shell"] /\ opened = {} /\ strayed = {}

\* The descriptors as they are when a new command is executed.
Inherited == [d \in Fd |-> IF table["shell"][d] > 0 THEN EARLIER ELSE table["shell"][d]]

Enter ==
  /\ pc = "prompt"
  /\ list' \in UNION {[1..n -> Redirections] : n \in 1..MaxRedirects}
  /\ at' = 1 /\ opened' = {} /\ error' = FALSE
  /\ group' = [d \in 0..(Save - 1) |-> 0]
  /\ pc' = "redirect"
  /\ UNCHANGED strayed

\* builtin_exec(): STDIN and STDOUT are copied to 200 and 201.
EnterBuiltin ==
  /\ Enter
  /\ where' = "shell"
  /\ before' = [Inherited EXCEPT ![Save] = Inherited[STDIN],
                             ![Save + 1] = Inherited[STDOUT]]
  /\ table' = [table EXCEPT !["shell"] = before']

EnterCommand ==
  /\ Enter
  /\ where' = "child"
  /\ before' = Inherited
  /\ table' = [p \in Process |-> Inherited]
-----------------------------------------------------------------------------
Making == pc = "redirect" /\ redi.fd < Save

\* The next redirection, or the closing of the originals.
Advance == /\ at' = at + 1
           /\ pc' = IF at = Len(list) THEN "close" ELSE "redirect"
           /\ UNCHANGED error

GiveUp == error' = TRUE /\ pc' = "close" /\ UNCHANGED at

\* The second half of prepare_iter(): the original f is copied to the
\* descriptor of the redirection, and the original of an earlier one closed.
Copy(f) ==
  LET d == redi.fd
      u == [Table EXCEPT ![f] = at, ![d] = at]
      old == group[d]
  IN  /\ opened' = opened \cup {f}
      /\ \/ /\ old <= 2
            /\ table' = [table EXCEPT ![where] = u]
            /\ group' = [group EXCEPT ![d] = f]
            /\ Advance
         \/ /\ old > 2 /\ u[old] # CLOSED
            /\ table' = [table EXCEPT ![where] = [u EXCEPT ![old] = CLOSED]]
            /\ group' = [group EXCEPT ![d] = f]
            /\ Advance
         \/ /\ old > 2 /\ u[old] = CLOSED      \* close() fails
            /\ table' = [table EXCEPT ![where] = u]
            /\ UNCHANGED group
            /\ GiveUp

OpenFile ==
  /\ Making /\ redi.type = "file"
  /\ \E f \in Free : Lowest(f) /\ Copy(f)
  /\ UNCHANGED <<command, strayed>>

\* There is no such file, or no number left.
OpenFails ==
  /\ Making /\ redi.type = "file"
  /\ GiveUp
  /\ UNCHANGED <<command, table, group, opened, strayed>>

is_last_here == \A k \in (at + 1)..Len(list) : list[k].type # "doc"

\* own_here_doc() makes a pipe, and its writing end is closed again.  The
\* reading end of the last document is an original like any other.
OpenDoc ==
  /\ Making /\ redi.type = "doc"
  /\ \E r, w \in Free :
       /\ Lowest(r) /\ w # r
       /\ \/ is_last_here /\ Copy(r)
          \/ ~is_last_here /\ Advance /\ UNCHANGED <<table, group, opened>>
  /\ UNCHANGED <<command, strayed>>

\* own_here_doc() fails in pipe(), in fork() or because of the child, and
\* leaves open nothing, both ends or the reading end.
DocFails ==
  /\ Making /\ redi.type = "doc"
  /\ \/ UNCHANGED table
     \/ \E r, w \in Free :
          /\ Lowest(r) /\ w # r /\ \A d \in Free \ {r} : w <= d
          /\ \E left \in {{r}, {r, w}} :
               table' = [table EXCEPT ![where] =
                           [d \in Fd |-> IF d \in left THEN at ELSE Table[d]]]
  /\ GiveUp
  /\ UNCHANGED <<command, group, opened, strayed>>

\* Seeded fault: 200 itself passes for a descriptor that can be redirected.
TooLarge_Passed ==
  /\ pc = "redirect" /\ redi.fd = Save
  /\ table' = [table EXCEPT ![where][Save] = at]
  /\ Advance
  /\ UNCHANGED <<command, group, opened, strayed>>

\* A number above 199: prepare_redirect() returns and closes nothing.
TooLarge ==
  /\ pc = "redirect" /\ redi.fd = Save
  /\ pc' = "failed"
  /\ UNCHANGED <<command, at, table, group, error, opened, strayed>>

\* Seeded fault: the loop starts behind the original of STDOUT.
Originals_FromTwo == {group[d] : d \in 2..(Save - 1)}

\* The loop over group starts behind the original of STDIN.
Originals == {group[d] : d \in 1..(Save - 1)}

\* ... and ends one element behind the array, where any number may be.
CloseOriginals ==
  /\ pc = "close"
  /\ \E stray \in {0} \cup 3..(NFds - 1) :
       /\ table' = [table EXCEPT ![where] =
            [d \in Fd |-> IF d > 2 /\ d \in Originals \cup {stray}
                          THEN CLOSED ELSE Table[d]]]
       /\ strayed' = IF stray = 0 THEN strayed ELSE strayed \cup {where}
  /\ pc' = IF error THEN "failed" ELSE "run"
  /\ UNCHANGED <<command, at, group, error, opened>>
-----------------------------------------------------------------------------
Finish == /\ pc' = "prompt" /\ where' = "shell" /\ list' = <<>> /\ at' = 1
          /\ group' = [d \in 0..(Save - 1) |-> 0]
          /\ error' = FALSE
          /\ before' = table'["shell"] /\ opened' = {}

\* dup2() of the two copies; one that has been closed leaves what is there.
PutBack == [d \in Fd |-> IF d \in {STDIN, STDOUT} /\ Table[Save + d] # CLOSED
                         THEN Table[Save + d] ELSE Table[d]]

\* builtin_exec(): the builtin is over, the copies are closed, the second one
\* only if the first was still open.
BuiltinReturns ==
  /\ pc = "run" /\ where = "shell"
  /\ table' = [table EXCEPT !["shell"] =
                 [PutBack EXCEPT ![Save]     = CLOSED,
                                 ![Save + 1] = IF Table[Save] = CLOSED THEN @ ELSE CLOSED]]
  /\ UNCHANGED strayed
  /\ Finish

\* set_pipe() has failed: the copies stay open.
BuiltinFails ==
  /\ pc = "failed" /\ where = "shell"
  /\ table' = [table EXCEPT !["shell"] = PutBack]
  /\ UNCHANGED strayed
  /\ Finish

\* execute_child(): the child ends, before or after the command was run.
ChildEnds ==
  /\ pc \in {"run", "failed"} /\ where = "child"
  /\ table' = [table EXCEPT !["child"] = Unused]
  /\ strayed' = strayed \ {"child"}
  /\ Finish
-----------------------------------------------------------------------------
Next == \/ EnterBuiltin \/ EnterCommand
        \/ OpenFile \/ OpenFails \/ OpenDoc \/ DocFails \/ TooLarge
        \/ CloseOriginals
        \/ BuiltinReturns \/ BuiltinFails \/ ChildEnds

Spec == Init /\ [][Next]_vars
-----------------------------------------------------------------------------
TypeOK ==
  /\ pc \in {"prompt", "redirect", "close", "run", "failed"}
  /\ where \in Process
  /\ list \in Seq(Redirections) /\ Len(list) <= MaxRedirects
  /\ at \in 1..(Len(list) + 1)
  /\ pc = "redirect" => at <= Len(list)
  /\ table \in [Process -> [Fd -> Object]]
  /\ group \in [0..(Save - 1) -> Fd]
  /\ error \in BOOLEAN
  /\ before \in [Fd -> Object]
  /\ opened \subseteq Fd /\ strayed \subseteq Process

\* The last redirection that names one of the descriptors D, or 0.
LastFor(D) == LET K == {k \in 1..Len(list) : list[k].fd \in D}
              IN  IF K = {} THEN 0 ELSE CHOOSE k \in K : \A j \in K : j <= k

\* When the command runs, every descriptor is what the last redirection that
\* names it has made of it, or what it was before.  The numbers used for
\* originals are the exception: they are closed, and lost if the user has named
\* them, but for that of STDIN.
Applied ==
  pc = "run" /\ where \notin strayed =>
    \A d \in Fd : Table[d] =
      CASE d \in opened /\ d = group[STDIN]         -> LastFor({d, STDIN})
        [] d \in opened /\ d # group[STDIN]         -> CLOSED
        [] d \notin opened /\ LastFor({d}) > 0 -> LastFor({d})
        [] d \notin opened /\ LastFor({d}) = 0 -> before[d]

\* Whatever a builtin's redirections do and however they fail, the shell has its
\* standard input and output back at the next prompt.
StandardRestored ==
  pc = "prompt" /\ "shell" \notin strayed =>
    table["shell"][STDIN] = TERMINAL /\ table["shell"][STDOUT] = TERMINAL
=============================================================================
