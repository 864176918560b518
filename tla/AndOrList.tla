----------------------------- MODULE AndOrList -----------------------------
(***************************************************************************)
(* What the shell promises about one input line: an AND-OR list of         *)
(* pipelines, evaluated from left to right.  A pipeline behind "&&" runs   *)
(* only if the last pipeline that ran succeeded, one behind "||" only if   *)
(* it failed, and a pipeline that does not run leaves the status alone.    *)
(*                                                                         *)
(* Nothing here knows of processes, of the operator a search stops at, or  *)
(* of the nodes inside a pipeline: module Executor is what the code does,  *)
(* and implements this specification.                                      *)
(***************************************************************************)
EXTENDS Integers

CONSTANT NNodes  \* the number of command nodes of a line

VARIABLES
  op,        \* op[n]: the operator that follows node n
  builtin,   \* the nodes whose command is a builtin
  head,      \* the first node of the pipeline that is next, or NULL
  st,        \* the status of the last pipeline that ran
  over       \* the shell process has exited

vars == <<op, builtin, head, st, over>>

Node   == 1..NNodes
NULL   == NNodes + 1
Status == 0..255

Lists == {o \in [Node -> {"TPIP", "TOR", "TAND", "TEND"}] :
            \A n \in Node : o[n] = "TEND" <=> n = NNodes}

\* Nodes h .. k-1 are one whole pipeline, given that h starts one.
Spans(h, k) == /\ op[k - 1] # "TPIP"
               /\ \A j \in h..(k - 2) : op[j] = "TPIP"

\* A builtin that is a pipeline of its own runs inside the shell process.
InShell(h) == h \in builtin /\ op[h] # "TPIP"

ShouldRun(h) == \/ h = 1
                \/ op[h - 1] = "TAND" /\ st = 0
                \/ op[h - 1] = "TOR"  /\ st > 0
-----------------------------------------------------------------------------
Init == /\ op \in Lists
        /\ builtin \in SUBSET Node
        /\ head = 1
        /\ st \in Status
        /\ over = FALSE

Running == head \in Node /\ ~over

Run == /\ Running /\ ShouldRun(head)
       /\ st' \in Status
       /\ \E k \in (head + 1)..NULL : Spans(head, k) /\ head' = k
       /\ UNCHANGED <<op, builtin, over>>

Skip == /\ Running /\ ~ShouldRun(head)
        /\ \E k \in (head + 1)..NULL : Spans(head, k) /\ head' = k
        /\ UNCHANGED <<op, builtin, st, over>>

\* A builtin whose redirections cannot be set up gives up the whole line.
Abandon == /\ Running /\ ShouldRun(head) /\ InShell(head)
           /\ st' = 1
           /\ head' = NULL
           /\ UNCHANGED <<op, builtin, over>>

\* The shell exits: the exit builtin, or a failure it does not survive.
Exit == /\ Running /\ ShouldRun(head)
        /\ over' = TRUE
        /\ head' = NULL
        /\ UNCHANGED <<op, builtin, st>>

NewLine == /\ head = NULL /\ ~over
           /\ op' \in Lists
           /\ builtin' \in SUBSET Node
           /\ head' = 1
           /\ st' \in Status
           /\ UNCHANGED over

Next == Run \/ Skip \/ Abandon \/ Exit \/ NewLine

Spec == Init /\ [][Next]_vars
=============================================================================
