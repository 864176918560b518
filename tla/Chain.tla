------------------------------- MODULE Chain -------------------------------
(***************************************************************************)
(* What a pipeline promises: its stages are processes that start in any    *)
(* order, each one connected to the next by a bounded FIFO buffer and by   *)
(* nothing else, unless one of the two turns away from it, to a file.  A   *)
(* stage finds the end of its input exactly when the stage before it is    *)
(* gone, or has turned away, and everything that one wrote has been read;  *)
(* it is stopped when the stage behind it is gone or has turned away.  A   *)
(* deaf stage has lost its input.                                          *)
(* File descriptors do not exist here: module Pipeline has them, and       *)
(* implements this.                                                        *)
(***************************************************************************)
EXTENDS Integers

CONSTANTS
  NStages,   \* the stages there may be
  Capacity,  \* what the buffer between two stages holds
  Items      \* what a producing stage writes

VARIABLES
  last,   \* the number of stages
  prog,   \* prog[n]: what the program of stage n does
  from,   \* the stages that read what the stage before them writes
  onto,   \* the stages that write to the stage behind them
  unsure, \* the stages that may not get as far as their program, or may find
          \* no input there
  stage,  \* stage[n]: not started, being set up, up, deaf, or down again
  todo,   \* todo[n]: the items stage n has to write
  buf     \* buf[n]: the items between stage n and stage n+1

line == <<last, prog, from, onto, unsure>>
vars == <<line, stage, todo, buf>>

Stage == 1..NStages

\* "gen" writes Items items, "cat" copies its input, "true" ends at once.
Programs == [Stage -> {"gen", "cat", "true"}]
Work(p) == [n \in Stage |-> IF p[n] = "gen" THEN Items ELSE 0]

\* A stage that turns away from a neighbour has something to fail at.
Pipelines ==
  {l \in [last : Stage, prog : Programs, from : SUBSET Stage,
          onto : SUBSET Stage, unsure : SUBSET Stage] :
     /\ l.from \subseteq 2..l.last /\ l.onto \subseteq 1..(l.last - 1)
     /\ \A n \in (1..l.last) \ l.unsure : /\ n > 1 => n \in l.from
                                         /\ n < l.last => n \in l.onto}
-----------------------------------------------------------------------------
ThisLine == [last |-> last, prog |-> prog, from |-> from, onto |-> onto, unsure |-> unsure]

Fresh(l) == [n \in Stage |-> IF n <= l THEN "new" ELSE "down"]

Init == /\ ThisLine \in Pipelines
        /\ stage = Fresh(last)
        /\ todo = Work(prog)
        /\ buf = [n \in Stage |-> 0]

Start(n) == /\ stage[n] = "new"
            /\ stage' = [stage EXCEPT ![n] = "setup"]
            /\ UNCHANGED <<line, todo, buf>>

Run(n) == /\ stage[n] = "setup"
          /\ \/ stage' = [stage EXCEPT ![n] = "up"]
             \/ n \in unsure /\ stage' = [stage EXCEPT ![n] = "deaf"]
          /\ UNCHANGED <<line, todo, buf>>

Fail(n) == /\ stage[n] = "setup" /\ n \in unsure
           /\ stage' = [stage EXCEPT ![n] = "down"]
           /\ UNCHANGED <<line, todo, buf>>

\* The stages that have not been started never will be.
GiveUp == /\ stage' = [n \in Stage |-> IF stage[n] = "new" THEN "down" ELSE stage[n]]
          /\ UNCHANGED <<line, todo, buf>>

Up(n) == stage[n] \in {"up", "deaf"}

Read(n) == /\ stage[n] = "up" /\ n \in from
           /\ prog[n] = "cat" /\ todo[n] = 0 /\ buf[n - 1] > 0
           /\ buf' = [buf EXCEPT ![n - 1] = @ - 1]
           /\ todo' = [todo EXCEPT ![n] = 1]
           /\ UNCHANGED <<line, stage>>

Write(n) == /\ Up(n) /\ todo[n] > 0
            /\ \/ n \notin onto /\ UNCHANGED buf
               \/ /\ n \in onto /\ buf[n] < Capacity
                  /\ buf' = [buf EXCEPT ![n] = @ + 1]
            /\ todo' = [todo EXCEPT ![n] = @ - 1]
            /\ UNCHANGED <<line, stage>>

Leaves(n, ends) == stage[n] = "down" \/ (Up(n) /\ n \notin ends)

EndOfInput(n) == \/ prog[n] # "cat"
                 \/ stage[n] = "deaf"
                 \/ n \notin from
                 \/ Leaves(n - 1, onto) /\ buf[n - 1] = 0

\* A stage may have turned away from the one before it before it is up.
NoReader(n) == /\ n \in onto
               /\ \/ stage[n + 1] \in {"down", "deaf"}
                  \/ stage[n + 1] # "new" /\ n + 1 \notin from

Stop(n) == /\ Up(n)
           /\ \/ todo[n] = 0 /\ EndOfInput(n)
              \/ todo[n] > 0 /\ NoReader(n)
           /\ stage' = [stage EXCEPT ![n] = "down"]
           /\ UNCHANGED <<line, todo, buf>>

Over == \A n \in Stage : stage[n] = "down"

\* Between two lines there is one that nobody has asked for.
AnyLine == /\ Over
           /\ ThisLine' \in Pipelines
           /\ todo' = Work(prog')
           /\ buf' = [n \in Stage |-> 0]

NewLine == AnyLine /\ stage' = Fresh(last')
Forget  == AnyLine /\ UNCHANGED stage

Next == \/ \E n \in Stage : \/ Start(n) \/ Run(n) \/ Fail(n)
                           \/ Read(n) \/ Write(n) \/ Stop(n)
        \/ GiveUp \/ NewLine \/ Forget

Spec == Init /\ [][Next]_vars
=============================================================================
