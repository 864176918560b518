--------------------------- MODULE ExecutorProofs ---------------------------
(***************************************************************************)
(* Theorems about module Executor, for lists of any length, every kind of  *)
(* command and every set of exit codes: its invariants, what exit leaves   *)
(* behind, and that it implements the AND-OR list of module AndOrList.  At *)
(* the end, what is behind LineEnds: a step is always possible in a line,  *)
(* and each one brings the shell nearer to its end.                        *)
(***************************************************************************)
EXTENDS Executor, TLAPS

\* Node h starts the pipeline that node n belongs to.
Starts(h, n) == /\ h = 1 \/ op[h - 1] # "TPIP"
                /\ \A j \in h..(n - 1) : op[j] = "TPIP"

\* The pipeline that starts at h is one the list's operators let run.
MayRun(h) == \/ h = 1
             \/ op[h - 1] = "TAND" /\ status = 0
             \/ op[h - 1] = "TOR" /\ status > 0

\* Where the shell is in the list.  Outside get_next() it is always at the edge
\* of a pipeline; inside, what it has walked over since the last edge is one
\* pipeline, behind the operator that get_next() is not looking for.
Position ==
  /\ pc = "exec" => node \in Node /\ Starts(node, node) /\ MayRun(node)
  /\ pc \in {"fork", "wait"} =>
       node \in Node /\ first <= node /\ Starts(first, node) /\ MayRun(first)
  /\ pc = "fork" => first < node
  /\ pc = "wait" => op[node] # "TPIP" /\ first <= cursor /\ cursor <= node
  /\ pc = "decide" => node > 1 /\ op[node - 1] # "TPIP"
  /\ pc = "skip" =>
       /\ node \in Node
       /\ \E h \in 2..node : /\ Starts(h, node)
                             /\ op[h - 1] = IF status > 0 THEN "TAND" ELSE "TOR"

IInv == TypeOK /\ Position /\ ChildrenAccounted /\ FailureVisible
-----------------------------------------------------------------------------
\* What the definitions of the data give the provers.
LEMMA ListFacts ==
  ASSUME NEW o \in Lists
  PROVE  /\ o \in [Node -> {"TPIP", "TOR", "TAND", "TEND"}]
         /\ \A n \in Node : o[n] = "TEND" <=> n = NNodes
BY DEF Lists

LEMMA NodeFacts ==
  /\ NNodes \in Nat /\ 1 \in Node /\ NULL \in Nat /\ NULL = NNodes + 1
  /\ \A n \in Node : n \in Nat /\ n >= 1 /\ n + 1 \in 1..NULL
  /\ \A n \in 1..NULL : n \in Nat /\ (n # NULL => n \in Node)
BY NNodesAssumption DEF Node, NULL

LEMMA EndingFacts ==
  /\ NotEnded \in Exited
  /\ \A n \in Node : Endings(n) \subseteq Exited \cup Signalled
  /\ \A w \in Exited \cup Signalled : status_return(w) \in 0..255
<1> USE ExitCodesAssumption, SignalsAssumption
<1>1. NotEnded \in Exited
  BY DEF NotEnded, Exited
<1>2. \A n \in Node : Endings(n) \subseteq Exited \cup Signalled
  BY DEF Endings
<1>3. ASSUME NEW w \in Exited \cup Signalled
      PROVE  status_return(w) \in 0..255
  <2>1. CASE w \in Exited
    BY <2>1 DEF Exited, status_return
  <2>2. CASE w \in Signalled
    <3>1. w.sig \in {"SIGINT", "SIGQUIT", "other"}
      BY <2>2 DEF Signalled
    <3>2. QED
      BY <3>1 DEF status_return
  <2>3. QED
    BY <1>3, <2>1, <2>2
<1>4. QED
  BY <1>1, <1>2, <1>3

\* What a builtin leaves behind is a status and a "$?" of the right range.
LEMMA BuiltinFacts ==
  ASSUME NEW k \in Builtins, num_return_error \in -1..258
  PROVE  /\ \A r \in BuiltinResults(k) :
              /\ r[1] \in 0..255 /\ r[2] \in -1..258
              /\ r[1] > 0 => r[2] # 0
         /\ BuiltinExits(k) \subseteq 0..255
<1>1. k \in {"echo", "cd", "exit"}
  BY DEF Builtins
<1>2. \A r \in BuiltinResults(k) : /\ r[1] \in 0..255 /\ r[2] \in -1..258
                                   /\ r[1] > 0 => r[2] # 0
  BY <1>1 DEF BuiltinResults, EchoResults, CdResults, ExitResults, Reported
<1>3. num_return_error % 256 \in 0..255
  OBVIOUS
<1>4. BuiltinExits(k) \subseteq 0..255
  BY <1>3, ExitCodesAssumption DEF BuiltinExits
<1>5. QED
  BY <1>2, <1>4
-----------------------------------------------------------------------------
LEMMA InitType == Init => TypeOK
BY NodeFacts, EndingFacts, ExitCodesAssumption DEF Init, TypeOK, Running, BetweenLines

\* Type correctness of one step, one step of the proof per action.
LEMMA StepType == TypeOK /\ Position /\ [Next]_vars => TypeOK'
<1> SUFFICES ASSUME TypeOK, Position, [Next]_vars
             PROVE  TypeOK'
  OBVIOUS
<1> USE NodeFacts DEF TypeOK, list, Running
<1>1. CASE BuiltinRedirectFails
  BY <1>1 DEF BuiltinRedirectFails
<1>2. CASE BuiltinReturns
  <2>1. PICK r \in BuiltinResults(kind[node]) : status' = r[1] /\ num_return_error' = r[2]
    BY <1>2 DEF BuiltinReturns
  <2>2. node \in Node /\ kind[node] \in Builtins
    BY <1>2 DEF BuiltinReturns, RunsInShell, Position
  <2>3. r[1] \in 0..255 /\ r[2] \in -1..258
    BY <2>1, <2>2, BuiltinFacts
  <2>4. QED
    BY <1>2, <2>1, <2>2, <2>3 DEF BuiltinReturns
<1>3. CASE BuiltinExitsShell
  <2>1. node \in Node /\ kind[node] \in Builtins
    BY <1>3 DEF BuiltinExitsShell, RunsInShell, Position
  <2>2. PICK code \in BuiltinExits(kind[node]) : ExitShell(code)
    BY <1>3 DEF BuiltinExitsShell
  <2>3. code \in 0..255
    BY <2>1, <2>2, BuiltinFacts
  <2>4. QED
    BY <1>3, <2>2, <2>3 DEF BuiltinExitsShell, ExitShell
<1>4. CASE Fork
  <2>1. node \in Node /\ (op[node] = "TPIP" => node + 1 \in 1..NULL)
    BY <1>4 DEF Fork, Forking, Position
  <2>2. first' \in Node
    BY <1>4, <2>1 DEF Fork
  <2>3. proc' \in [Node -> {"none", "live", "zombie", "reaped"}]
    BY <1>4, <2>1 DEF Fork
  <2>4. QED
    BY <1>4, <2>1, <2>2, <2>3 DEF Fork
<1>5. CASE ForkFails
  BY <1>5 DEF ForkFails, ExitShell
<1>6. CASE WaitStage
  <2>1. cursor + 1 \in Node
    BY <1>6, ListFacts DEF WaitStage, Node
  <2>2. proc' \in [Node -> {"none", "live", "zombie", "reaped"}]
    BY <1>6 DEF WaitStage
  <2>3. QED
    BY <1>6, <2>1, <2>2 DEF WaitStage
<1>7. CASE WaitLast
  <2>1. proc' \in [Node -> {"none", "live", "zombie", "reaped"}]
    BY <1>7 DEF WaitLast
  <2>2. status_return(wstatus[cursor]) \in 0..255
    BY EndingFacts
  <2>3. node \in Node
    BY <1>7 DEF WaitLast, Position
  <2>4. QED
    BY <1>7, <2>1, <2>2, <2>3 DEF WaitLast, ExitShell
<1>8. CASE Decide
  <2>1. pc' \in {"done", "skip", "exec"}
    BY <1>8 DEF Decide
  <2>2. QED
    BY <1>8, <2>1 DEF Decide
<1>9. CASE Skip
  <2>1. pc' \in {"done", "skip", "exec"}
    BY <1>9 DEF Skip
  <2>2. QED
    BY <1>9, <2>1 DEF Skip, Position
<1>10. CASE NextLine
  BY <1>10, EndingFacts, ExitCodesAssumption DEF NextLine, BetweenLines
<1>11. ASSUME NEW n \in Node, ChildEnds(n)
       PROVE  TypeOK'
  BY <1>11, EndingFacts DEF ChildEnds
<1>12. CASE UNCHANGED vars
  BY <1>12 DEF vars
<1>13. QED
  BY <1>1, <1>2, <1>3, <1>4, <1>5, <1>6, <1>7, <1>8, <1>9, <1>10, <1>11, <1>12
     DEF Next, ShellStep
-----------------------------------------------------------------------------
LEMMA InitPosition == Init => Position /\ ChildrenAccounted /\ FailureVisible
<1> SUFFICES ASSUME Init
             PROVE  Position /\ ChildrenAccounted /\ FailureVisible
  OBVIOUS
<1>1. Position
  BY NodeFacts DEF Init, Position, Starts, MayRun
<1>2. ChildrenAccounted
  BY DEF Init, ChildrenAccounted, Outstanding
<1>3. FailureVisible
  BY DEF Init, FailureVisible
<1>4. QED
  BY <1>1, <1>2, <1>3

\* The shell stays at the edge of a pipeline, or inside one it knows the start of.
LEMMA StepPosition == TypeOK /\ Position /\ [Next]_vars => Position'
<1> SUFFICES ASSUME TypeOK, Position, [Next]_vars
             PROVE  Position'
  OBVIOUS
<1> USE NodeFacts DEF list
<1>a. op \in Lists /\ status \in Nat
  BY DEF TypeOK
<1>b. \A n \in Node : op[n] \in {"TPIP", "TOR", "TAND", "TEND"}
                      /\ (op[n] = "TEND" <=> n = NNodes)
  BY <1>a, ListFacts
<1>1. CASE BuiltinRedirectFails
  <2>1. op[NULL - 1] # "TPIP" /\ NULL > 1
    BY <1>b, NNodesAssumption DEF Node
  <2>2. QED
    BY <1>1, <2>1 DEF BuiltinRedirectFails, Position
<1>2. CASE BuiltinReturns
  <2>1. node \in Node /\ op[node] # "TPIP"
    BY <1>2 DEF BuiltinReturns, RunsInShell, is_in_pipe, Position
  <2>2. pc' = "decide" /\ node' = node + 1 /\ op' = op
    BY <1>2 DEF BuiltinReturns
  <2>3. QED
    BY <2>1, <2>2 DEF Position
<1>3. CASE BuiltinExitsShell
  BY <1>3 DEF BuiltinExitsShell, ExitShell, Position
<1>4. CASE Fork
  <2>1. /\ node \in Node /\ op' = op /\ status' = status
        /\ first' \in Nat /\ first' <= node /\ Starts(first', node) /\ MayRun(first')
    BY <1>4 DEF Fork, Forking, Position, TypeOK, Starts, MayRun, Node
  <2>2. CASE op[node] = "TPIP"
    <3>1. node + 1 \in Node /\ node' = node + 1 /\ pc' = "fork"
      BY <1>4, <1>b, <2>1, <2>2 DEF Fork, Node
    <3>2. Starts(first', node + 1)
      BY <2>1, <2>2 DEF Starts, Node
    <3>3. QED
      BY <2>1, <3>1, <3>2 DEF Position, Starts, MayRun, Node
  <2>3. CASE op[node] # "TPIP"
    <3>1. node' = node /\ pc' = "wait" /\ cursor' = first'
      BY <1>4, <2>3 DEF Fork
    <3>2. QED
      BY <2>1, <2>3, <3>1 DEF Position, Starts, MayRun, Node
  <2>4. QED
    BY <2>2, <2>3
<1>5. CASE ForkFails
  BY <1>5 DEF ForkFails, ExitShell, Position
<1>6. CASE WaitStage
  <2>1. cursor \in Node /\ cursor # node /\ cursor + 1 <= node
    BY <1>6 DEF WaitStage, Position, TypeOK, Node
  <2>2. QED
    BY <1>6, <2>1 DEF WaitStage, Position, Starts, MayRun, TypeOK, Node
<1>7. CASE WaitLast
  <2>1. CASE pc' = "exited"
    BY <2>1 DEF Position
  <2>2. CASE pc' # "exited"
    <3>1. pc' = "decide" /\ node' = node + 1 /\ op' = op
      BY <1>7, <2>2 DEF WaitLast, ExitShell
    <3>2. node \in Node /\ op[node] # "TPIP"
      BY <1>7 DEF WaitLast, Position
    <3>3. QED
      BY <3>1, <3>2 DEF Position
  <2>3. QED
    BY <2>1, <2>2
<1>8. CASE Decide
  <2>0. /\ pc = "decide" /\ node' = node /\ op' = op /\ status' = status
        /\ node > 1 /\ op[node - 1] # "TPIP" /\ node \in 1..NULL
    BY <1>8 DEF Decide, Position, TypeOK
  <2>1. CASE node = NULL
    <3>1. pc' = "done"
      BY <1>8, <2>1 DEF Decide
    <3>2. QED
      BY <3>1 DEF Position
  <2>2. CASE node # NULL
    <3>1. node \in Node /\ node - 1 \in Node /\ node - 1 # NNodes
      BY <2>0, <2>2 DEF Node
    <3>2. op[node - 1] \in {"TAND", "TOR"}
      BY <1>b, <2>0, <3>1
    <3>3. Starts(node, node)
      BY <2>0, <3>1 DEF Starts, Node
    <3>4. CASE ShortCircuits(node)
      <4>1. pc' = "skip"
        BY <1>8, <2>2, <3>4 DEF Decide
      <4>2. op[node - 1] = IF status > 0 THEN "TAND" ELSE "TOR"
        BY <1>a, <3>4, <2>0 DEF ShortCircuits, is_post_op
      <4>3. node \in 2..node
        BY <2>0, <3>1 DEF Node
      <4>4. \E h \in 2..node : /\ Starts(h, node)
                               /\ op[h - 1] = IF status > 0 THEN "TAND" ELSE "TOR"
        BY <3>3, <4>2, <4>3
      <4>5. QED
        BY <2>0, <3>1, <4>1, <4>4 DEF Position, Starts
    <3>5. CASE ~ShortCircuits(node)
      <4>1. pc' = "exec"
        BY <1>8, <2>2, <3>5 DEF Decide
      <4>2. MayRun(node)
        BY <1>a, <2>0, <3>2, <3>5 DEF ShortCircuits, is_post_op, MayRun
      <4>3. QED
        BY <2>0, <3>1, <3>3, <4>1, <4>2 DEF Position, Starts, MayRun
    <3>6. QED
      BY <3>4, <3>5
  <2>3. QED
    BY <2>1, <2>2
<1>9. CASE Skip
  <2>0. /\ pc = "skip" /\ node' = node + 1 /\ op' = op /\ status' = status
        /\ node \in Node
    BY <1>9 DEF Skip, Position
  <2>1. CASE node + 1 = NULL
    <3>1. pc' = "done"
      BY <1>9, <2>0, <2>1 DEF Skip
    <3>2. QED
      BY <3>1 DEF Position
  <2>2. CASE node + 1 # NULL /\ op[node] = SearchFor
    <3>1. pc' = "exec" /\ node + 1 \in Node
      BY <1>9, <2>0, <2>2 DEF Skip
    <3>2. Starts(node + 1, node + 1) /\ MayRun(node + 1)
      BY <1>a, <2>0, <2>2 DEF SearchFor, Starts, MayRun, Node
    <3>3. QED
      BY <2>0, <3>1, <3>2 DEF Position, Starts, MayRun
  <2>3. CASE node + 1 # NULL /\ op[node] # SearchFor
    <3>1. pc' = "skip" /\ node + 1 \in Node
      BY <1>9, <2>0, <2>3 DEF Skip
    <3>2. PICK h \in 2..node : /\ Starts(h, node)
                               /\ op[h - 1] = IF status > 0 THEN "TAND" ELSE "TOR"
      BY <2>0 DEF Position
    <3>3. \E g \in 2..(node + 1) :
            /\ Starts(g, node + 1)
            /\ op[g - 1] = IF status > 0 THEN "TAND" ELSE "TOR"
      <4>1. CASE op[node] = "TPIP"
        <5>1. h \in 2..(node + 1) /\ Starts(h, node + 1)
          BY <2>0, <3>2, <4>1 DEF Starts, Node
        <5>2. QED
          BY <3>2, <5>1
      <4>2. CASE op[node] # "TPIP"
        <5>1. op[node] = IF status > 0 THEN "TAND" ELSE "TOR"
          BY <1>b, <2>0, <2>3, <4>2 DEF SearchFor
        <5>2. node + 1 \in 2..(node + 1) /\ Starts(node + 1, node + 1)
              /\ (node + 1) - 1 = node
          BY <2>0, <4>2 DEF Starts, Node
        <5>3. QED
          BY <5>1, <5>2
      <4>3. QED
        BY <4>1, <4>2
    <3>4. QED
      BY <2>0, <3>1, <3>3 DEF Position, Starts
  <2>4. QED
    BY <2>1, <2>2, <2>3
<1>10. CASE NextLine
  BY <1>10 DEF NextLine, Position, Starts, MayRun
<1>11. ASSUME NEW n \in Node, ChildEnds(n)
       PROVE  Position'
  BY <1>11 DEF ChildEnds, Position, Starts, MayRun
<1>12. CASE UNCHANGED vars
  BY <1>12 DEF vars, Position, Starts, MayRun
<1>13. QED
  BY <1>1, <1>2, <1>3, <1>4, <1>5, <1>6, <1>7, <1>8, <1>9, <1>10, <1>11, <1>12
     DEF Next, ShellStep
-----------------------------------------------------------------------------
\* A step that leaves proc alone leaves the children to wait for alone.
LEMMA OutstandingStable == UNCHANGED proc => Outstanding' = Outstanding
BY DEF Outstanding

\* waitpid() takes the child at cursor, and only that one, off the account.
LEMMA ReapFacts ==
  ASSUME TypeOK, proc[cursor] = "zombie",
         proc' = [proc EXCEPT ![cursor] = "reaped"]
  PROVE  Outstanding' = Outstanding \ {cursor}
BY DEF Outstanding, TypeOK

\* What is forked and what is waited for stay in step.
LEMMA StepChildren ==
  TypeOK /\ Position /\ ChildrenAccounted /\ [Next]_vars => ChildrenAccounted'
<1> SUFFICES ASSUME TypeOK, Position, ChildrenAccounted, [Next]_vars
             PROVE  ChildrenAccounted'
  OBVIOUS
<1> USE NodeFacts DEF list
<1>1. CASE BuiltinRedirectFails
  BY <1>1, OutstandingStable DEF BuiltinRedirectFails, ChildrenAccounted
<1>2. CASE BuiltinReturns
  BY <1>2, OutstandingStable DEF BuiltinReturns, ChildrenAccounted
<1>3. CASE BuiltinExitsShell
  BY <1>3 DEF BuiltinExitsShell, ExitShell, ChildrenAccounted
<1>4. CASE Fork
  <2>1. node \in Node /\ first' \in Nat /\ first' <= node
    BY <1>4 DEF Fork, Forking, Position, TypeOK, Node
  <2>2. Outstanding' = Outstanding \cup {node}
    BY <1>4, <2>1 DEF Fork, Outstanding, TypeOK
  <2>3. Outstanding = first'..(node - 1)
    <3>1. CASE pc = "exec"
      <4>1. Outstanding = {} /\ first' = node
        BY <1>4, <3>1 DEF Fork, ChildrenAccounted
      <4>2. QED
        BY <2>1, <4>1
    <3>2. CASE pc = "fork"
      BY <1>4, <3>2 DEF Fork, ChildrenAccounted
    <3>3. QED
      BY <1>4, <3>1, <3>2 DEF Fork, Forking
  <2>4. Outstanding' = first'..node
    BY <2>1, <2>2, <2>3
  <2>5. CASE op[node] = "TPIP"
    <3>1. pc' = "fork" /\ node' - 1 = node
      BY <1>4, <2>1, <2>5 DEF Fork
    <3>2. QED
      BY <2>4, <3>1 DEF ChildrenAccounted
  <2>6. CASE op[node] # "TPIP"
    <3>1. pc' = "wait" /\ node' = node /\ cursor' = first'
      BY <1>4, <2>6 DEF Fork
    <3>2. QED
      BY <2>4, <3>1 DEF ChildrenAccounted
  <2>7. QED
    BY <2>5, <2>6
<1>5. CASE ForkFails
  BY <1>5 DEF ForkFails, ExitShell, ChildrenAccounted
<1>6. CASE WaitStage
  <2>1. Outstanding' = Outstanding \ {cursor}
    BY <1>6, ReapFacts DEF WaitStage
  <2>2. Outstanding = cursor..node /\ cursor \in Node /\ node \in Node
    BY <1>6 DEF WaitStage, ChildrenAccounted, Position, TypeOK
  <2>3. Outstanding' = (cursor + 1)..node
    BY <2>1, <2>2
  <2>4. QED
    BY <1>6, <2>3 DEF WaitStage, ChildrenAccounted
<1>7. CASE WaitLast
  <2>1. Outstanding' = Outstanding \ {cursor}
    BY <1>7, ReapFacts DEF WaitLast
  <2>2. Outstanding = cursor..node /\ cursor \in Node /\ node \in Node
    BY <1>7 DEF WaitLast, ChildrenAccounted, Position, TypeOK
  <2>3. cursor = node
    BY <1>7, <2>2 DEF WaitLast, Position, Starts, TypeOK, Node
  <2>4. Outstanding' = {} /\ pc' \in {"decide", "exited"}
    BY <1>7, <2>1, <2>2, <2>3 DEF WaitLast, ExitShell
  <2>5. QED
    BY <2>4 DEF ChildrenAccounted
<1>8. CASE Decide
  <2>1. pc' \in {"done", "skip", "exec"} /\ pc = "decide" /\ proc' = proc
    BY <1>8 DEF Decide
  <2>2. QED
    BY <2>1, OutstandingStable DEF ChildrenAccounted
<1>9. CASE Skip
  <2>1. pc' \in {"done", "skip", "exec"} /\ pc = "skip" /\ proc' = proc
    BY <1>9 DEF Skip
  <2>2. QED
    BY <2>1, OutstandingStable DEF ChildrenAccounted
<1>10. CASE NextLine
  <2>1. pc' = "exec" /\ Outstanding' = {}
    BY <1>10 DEF NextLine, Outstanding
  <2>2. QED
    BY <2>1 DEF ChildrenAccounted
<1>11. ASSUME NEW n \in Node, ChildEnds(n)
       PROVE  ChildrenAccounted'
  <2>1. Outstanding' = Outstanding
    BY <1>11 DEF ChildEnds, Outstanding, TypeOK
  <2>2. QED
    BY <1>11, <2>1 DEF ChildEnds, ChildrenAccounted
<1>12. CASE UNCHANGED vars
  BY <1>12, OutstandingStable DEF vars, ChildrenAccounted
<1>13. QED
  BY <1>1, <1>2, <1>3, <1>4, <1>5, <1>6, <1>7, <1>8, <1>9, <1>10, <1>11, <1>12
     DEF Next, ShellStep
-----------------------------------------------------------------------------
\* A failed status stays visible in "$?" as long as the line goes on.
LEMMA StepFailure ==
  TypeOK /\ Position /\ FailureVisible /\ [Next]_vars => FailureVisible'
<1> SUFFICES ASSUME TypeOK, Position, FailureVisible, [Next]_vars
             PROVE  FailureVisible'
  OBVIOUS
<1> USE NodeFacts DEF list
<1>1. CASE BuiltinRedirectFails
  BY <1>1 DEF BuiltinRedirectFails, FailureVisible
<1>2. CASE BuiltinReturns
  <2>1. PICK r \in BuiltinResults(kind[node]) : status' = r[1] /\ num_return_error' = r[2]
    BY <1>2 DEF BuiltinReturns
  <2>2. node \in Node /\ kind[node] \in Builtins /\ num_return_error \in -1..258
    BY <1>2 DEF BuiltinReturns, RunsInShell, Position, TypeOK
  <2>3. r[1] > 0 => r[2] # 0
    BY <2>1, <2>2, BuiltinFacts
  <2>4. QED
    BY <2>1, <2>3 DEF FailureVisible
<1>3. CASE BuiltinExitsShell
  BY <1>3 DEF BuiltinExitsShell, ExitShell, FailureVisible
<1>4. CASE Fork
  <2>1. pc' \in {"fork", "wait"}
    BY <1>4 DEF Fork
  <2>2. QED
    BY <2>1 DEF FailureVisible
<1>5. CASE ForkFails
  BY <1>5 DEF ForkFails, ExitShell, FailureVisible
<1>6. CASE WaitStage
  <2>1. pc' = "wait"
    BY <1>6 DEF WaitStage
  <2>2. QED
    BY <2>1 DEF FailureVisible
<1>7. CASE WaitLast
  <2>1. pc' = "exited" \/ num_return_error' = status'
    BY <1>7 DEF WaitLast, ExitShell
  <2>2. status' > 0 => status' # 0
    OBVIOUS
  <2>3. QED
    BY <2>1, <2>2 DEF FailureVisible
<1>8. CASE Decide
  BY <1>8 DEF Decide, FailureVisible
<1>9. CASE Skip
  BY <1>9 DEF Skip, FailureVisible
<1>10. CASE NextLine
  BY <1>10 DEF NextLine, FailureVisible
<1>11. ASSUME NEW n \in Node, ChildEnds(n)
       PROVE  FailureVisible'
  BY <1>11 DEF ChildEnds, FailureVisible
<1>12. CASE UNCHANGED vars
  BY <1>12 DEF vars, FailureVisible
<1>13. QED
  BY <1>1, <1>2, <1>3, <1>4, <1>5, <1>6, <1>7, <1>8, <1>9, <1>10, <1>11, <1>12
     DEF Next, ShellStep
-----------------------------------------------------------------------------
\* The inductive invariant holds in every state of every run of the shell.
THEOREM Invariant == Spec => []IInv
<1>1. Init => IInv
  BY InitType, InitPosition DEF IInv
<1>2. IInv /\ [Next]_vars => IInv'
  BY StepType, StepPosition, StepChildren, StepFailure DEF IInv
<1>3. QED
  BY <1>1, <1>2, PTL DEF Spec

\* Every variable of the executor stays in its range: statuses and exit codes
\* are those a process may have, "$?" is one of them or the -1 of "exit 1 2".
THEOREM TypeCorrect == Spec => []TypeOK
BY Invariant, PTL DEF IInv

\* execute_pipe() waits for exactly the children it forked, whatever order they
\* end in.
THEOREM ChildrenAlwaysAccounted == Spec => []ChildrenAccounted
BY Invariant, PTL DEF IInv

\* "$?" never reads 0 while a failed status decides what runs next.
THEOREM FailureAlwaysVisible == Spec => []FailureVisible
BY Invariant, PTL DEF IInv

\* When the shell ends it has waited for every child; only a fork() failing in
\* mid pipeline leaves the stages in front of it, and those alone.
THEOREM ExitIsClean == Spec => ExitLeavesNoChild
<1> DEFINE Left == IF pc = "fork" THEN first..(node - 1) ELSE {}
<1>1. ASSUME IInv, IInv', Next, pc' = "exited", pc # "exited"
      PROVE  Outstanding' = Left
  <2> USE <1>1 DEF IInv, list
  <2>1. CASE BuiltinExitsShell
    <3>1. pc = "exec" /\ UNCHANGED proc
      BY <2>1 DEF BuiltinExitsShell
    <3>2. QED
      BY <3>1, OutstandingStable DEF ChildrenAccounted
  <2>2. CASE ForkFails
    <3>1. pc \in {"exec", "fork"} /\ UNCHANGED proc
      BY <2>2 DEF ForkFails, Forking
    <3>2. QED
      BY <3>1, OutstandingStable DEF ChildrenAccounted
  <2>3. CASE WaitLast
    <3>1. Outstanding' = Outstanding \ {cursor}
      BY <2>3, ReapFacts DEF WaitLast
    <3>2. Outstanding = cursor..node /\ cursor \in Node /\ node \in Node
      BY <2>3 DEF WaitLast, ChildrenAccounted, Position, TypeOK
    <3>3. cursor = node
      BY <2>3, <3>2, NodeFacts DEF WaitLast, Position, Starts, Node
    <3>4. pc = "wait"
      BY <2>3 DEF WaitLast
    <3>5. QED
      BY <3>1, <3>2, <3>3, <3>4, NodeFacts
  <2>4. QED
    BY <1>1, <2>1, <2>2, <2>3
       DEF Next, ShellStep, BuiltinRedirectFails, BuiltinReturns, Fork, WaitStage,
           Decide, Skip, NextLine, ChildEnds
<1>2. IInv /\ IInv' /\ [Next]_vars
        => [pc' = "exited" /\ pc # "exited" => Outstanding' = Left]_vars
  BY <1>1 DEF vars
<1>3. QED
  BY <1>2, Invariant, PTL DEF Spec, ExitLeavesNoChild
-----------------------------------------------------------------------------
\* A node has one pipeline, and StartOf finds its first node.
LEMMA StartUnique ==
  ASSUME op \in Lists, NEW n \in Node, NEW h \in 1..n, Starts(h, n)
  PROVE  StartOf(n) = h
<1> USE NodeFacts
<1>1. ASSUME NEW a \in 1..n, NEW b \in 1..n, Starts(a, n), Starts(b, n), a < b
      PROVE  FALSE
  <2>1. b - 1 \in a..(n - 1) /\ b # 1
    BY <1>1
  <2>2. QED
    BY <1>1, <2>1 DEF Starts
<1>2. \A g \in 1..n : Starts(g, n) => g = h
  BY <1>1
<1>3. \A g \in 1..n : Starts(g, n) <=> /\ g = 1 \/ op[g - 1] # "TPIP"
                                       /\ \A j \in g..(n - 1) : op[j] = "TPIP"
  BY DEF Starts
<1>4. QED
  BY <1>2, <1>3 DEF StartOf

\* What a single-pipeline step of the list needs: a pipeline that starts at h
\* and whose last node is n spans h .. n.
LEMMA SpansFacts ==
  ASSUME NEW n \in Node, NEW h \in 1..n, Starts(h, n), op[n] # "TPIP"
  PROVE  AndOr!Spans(h, n + 1) /\ n + 1 \in (h + 1)..AndOr!NULL
BY NodeFacts DEF AndOr!Spans, AndOr!NULL, AndOr!Node, Starts, Node, NULL

LEMMA SameConstants ==
  AndOr!Node = Node /\ AndOr!NULL = NULL /\ AndOr!Lists = Lists
  /\ AndOr!Status = 0..255
BY DEF AndOr!Node, AndOr!NULL, AndOr!Lists, AndOr!Status, Node, NULL, Lists

LEMMA AndOrInit == Init => AndOr!Init
<1> SUFFICES ASSUME Init
             PROVE  AndOr!Init
  OBVIOUS
<1>1. Head = 1
  BY DEF Init, Head
<1>2. QED
  BY <1>1, SameConstants, ExitCodesAssumption DEF Init, AndOr!Init

\* A pipeline that has run is one step of the list.
LEMMA RunStep ==
  ASSUME TypeOK, UNCHANGED list, NEW h \in Node, NEW n \in Node, h <= n,
         Starts(h, n), MayRun(h), op[n] # "TPIP",
         Head = h, Head' = n + 1, pc # "exited", pc' # "exited", status' \in 0..255
  PROVE  AndOr!Run
<1>1. AndOr!Spans(h, n + 1) /\ n + 1 \in (h + 1)..AndOr!NULL
  BY SpansFacts, NodeFacts DEF Node
<1>2. AndOr!Running /\ AndOr!ShouldRun(h)
  BY SameConstants DEF AndOr!Running, AndOr!ShouldRun, MayRun
<1>3. QED
  BY <1>1, <1>2, SameConstants DEF AndOr!Run, list

\* A pipeline that get_next() has walked over is one step of the list.
LEMMA SkipStep ==
  ASSUME TypeOK, UNCHANGED <<list, status>>, NEW h \in Node, NEW n \in Node,
         h <= n, Starts(h, n), op[n] # "TPIP", h > 1,
         op[h - 1] = IF status > 0 THEN "TAND" ELSE "TOR",
         Head = h, Head' = n + 1, pc # "exited", pc' # "exited"
  PROVE  AndOr!Skip
<1>1. AndOr!Spans(h, n + 1) /\ n + 1 \in (h + 1)..AndOr!NULL
  BY SpansFacts, NodeFacts DEF Node
<1>2. AndOr!Running /\ ~AndOr!ShouldRun(h)
  BY SameConstants DEF AndOr!Running, AndOr!ShouldRun, TypeOK
<1>3. QED
  BY <1>1, <1>2, SameConstants DEF AndOr!Skip, list

\* A shell that exits does so in one step of the list.
LEMMA ExitStep ==
  ASSUME TypeOK, UNCHANGED <<list, status>>, NEW h \in Node, MayRun(h),
         Head = h, pc # "exited", pc' = "exited"
  PROVE  AndOr!Exit
<1>1. Head' = NULL
  BY DEF Head
<1>2. AndOr!Running /\ AndOr!ShouldRun(h)
  BY SameConstants DEF AndOr!Running, AndOr!ShouldRun, MayRun
<1>3. QED
  BY <1>1, <1>2, SameConstants DEF AndOr!Exit, list
-----------------------------------------------------------------------------
\* Every step of the executor is a step of the list, or none.
LEMMA AndOrStep == IInv /\ IInv' /\ [Next]_vars => [AndOr!Next]_(AndOr!vars)
<1> SUFFICES ASSUME IInv, IInv', [Next]_vars
             PROVE  AndOr!Next \/ UNCHANGED AndOr!vars
  OBVIOUS
<1> USE NodeFacts DEF IInv, list
<1>a. /\ op \in Lists /\ status \in Nat /\ status' \in 0..255
      /\ \A n \in Node : op[n] = "TEND" <=> n = NNodes
  BY ListFacts DEF TypeOK
<1>b. ASSUME UNCHANGED <<list, status>>, Head' = Head,
             pc = "exited" <=> pc' = "exited"
      PROVE  UNCHANGED AndOr!vars
  BY <1>b DEF AndOr!vars
<1>1. CASE BuiltinRedirectFails
  <2>1. pc = "exec" /\ node \in Node /\ MayRun(node) /\ Head = node
    BY <1>1 DEF BuiltinRedirectFails, Position, Head
  <2>2. /\ pc' = "decide" /\ Head' = NULL /\ status' = 1
        /\ op' = op /\ kind' = kind
    BY <1>1 DEF BuiltinRedirectFails, Head
  <2>3. node \in {n \in Node : kind[n] \in Builtins} /\ op[node] # "TPIP"
    BY <1>1, <2>1 DEF BuiltinRedirectFails, RunsInShell, is_in_pipe
  <2>4. AndOr!Running /\ AndOr!ShouldRun(Head) /\ AndOr!InShell(Head)
    BY <2>1, <2>3, SameConstants
       DEF AndOr!Running, AndOr!ShouldRun, AndOr!InShell, MayRun
  <2>5. AndOr!Abandon
    BY <2>1, <2>2, <2>4, SameConstants DEF AndOr!Abandon
  <2>6. QED
    BY <2>5 DEF AndOr!Next
<1>2. CASE BuiltinReturns
  <2>1. /\ pc = "exec" /\ node \in Node /\ MayRun(node) /\ Starts(node, node)
        /\ Head = node /\ op[node] # "TPIP"
    BY <1>2 DEF BuiltinReturns, Position, Head, RunsInShell, is_in_pipe
  <2>2. pc' = "decide" /\ Head' = node + 1 /\ UNCHANGED list
    BY <1>2 DEF BuiltinReturns, Head
  <2>3. AndOr!Run
    BY <1>a, <2>1, <2>2, RunStep
  <2>4. QED
    BY <2>3 DEF AndOr!Next
<1>3. CASE BuiltinExitsShell
  <2>1. pc = "exec" /\ node \in Node /\ MayRun(node) /\ Head = node
    BY <1>3 DEF BuiltinExitsShell, Position, Head
  <2>2. pc' = "exited" /\ UNCHANGED <<list, status>>
    BY <1>3 DEF BuiltinExitsShell, ExitShell
  <2>3. AndOr!Exit
    BY <2>1, <2>2, ExitStep
  <2>4. QED
    BY <2>3 DEF AndOr!Next
<1>4. CASE Fork
  <2>1. UNCHANGED <<list, status>> /\ pc # "exited" /\ pc' \in {"fork", "wait"}
    BY <1>4 DEF Fork, Forking
  <2>2. Head = first' /\ Head' = first'
    BY <1>4, <2>1 DEF Fork, Forking, Head
  <2>3. QED
    BY <1>b, <2>1, <2>2
<1>5. CASE ForkFails
  <2>1. Head \in Node /\ MayRun(Head) /\ pc # "exited"
    BY <1>5 DEF ForkFails, Forking, Position, Head, TypeOK
  <2>2. pc' = "exited" /\ UNCHANGED <<list, status>>
    BY <1>5 DEF ForkFails, ExitShell
  <2>3. AndOr!Exit
    BY <2>1, <2>2, ExitStep
  <2>4. QED
    BY <2>3 DEF AndOr!Next
<1>6. CASE WaitStage
  <2>1. UNCHANGED <<list, status, first>> /\ pc = "wait" /\ pc' = "wait"
    BY <1>6 DEF WaitStage
  <2>2. Head' = Head
    BY <2>1 DEF Head
  <2>3. QED
    BY <1>b, <2>1, <2>2
<1>7. CASE WaitLast
  <2>1. /\ pc = "wait" /\ node \in Node /\ first \in Node /\ first <= node
        /\ Starts(first, node) /\ MayRun(first) /\ op[node] # "TPIP" /\ Head = first
    BY <1>7 DEF WaitLast, Position, Head, TypeOK
  <2>2. UNCHANGED list
    BY <1>7 DEF WaitLast
  <2>3. CASE wstatus[cursor].core
    <3>1. pc' = "exited" /\ status' = status
      BY <1>7, <2>3 DEF WaitLast, ExitShell
    <3>2. AndOr!Exit
      BY <2>1, <2>2, <3>1, ExitStep
    <3>3. QED
      BY <3>2 DEF AndOr!Next
  <2>4. CASE ~wstatus[cursor].core
    <3>1. pc' = "decide" /\ Head' = node + 1
      BY <1>7, <2>4 DEF WaitLast, Head
    <3>2. AndOr!Run
      BY <1>a, <2>1, <2>2, <3>1, RunStep
    <3>3. QED
      BY <3>2 DEF AndOr!Next
  <2>5. QED
    BY <2>3, <2>4
<1>8. CASE Decide
  <2>1. /\ UNCHANGED <<list, status, node>> /\ pc = "decide" /\ Head = node
        /\ pc' \in {"done", "skip", "exec"} /\ node \in 1..NULL
        /\ node > 1 /\ op[node - 1] # "TPIP"
    BY <1>8 DEF Decide, Head, Position, TypeOK
  <2>2. CASE pc' = "exec"
    <3>1. Head' = node
      BY <2>1, <2>2 DEF Head
    <3>2. QED
      BY <1>b, <2>1, <2>2, <3>1
  <2>3. CASE pc' = "done"
    <3>1. Head' = NULL /\ node = NULL
      BY <1>8, <2>3 DEF Head, Decide
    <3>2. QED
      BY <1>b, <2>1, <2>3, <3>1
  <2>4. CASE pc' = "skip"
    <3>1. node \in Node /\ Starts(node, node)
      BY <1>8, <2>1, <2>4 DEF Decide, Starts, Node
    <3>2. StartOf(node) = node
      BY <1>a, <3>1, StartUnique DEF Node
    <3>3. StartOf(node)' = StartOf(node)
      BY <2>1 DEF StartOf
    <3>4. Head' = node
      BY <2>4, <3>2, <3>3 DEF Head
    <3>5. QED
      BY <1>b, <2>1, <2>4, <3>4
  <2>5. QED
    BY <2>1, <2>2, <2>3, <2>4
<1>9. CASE Skip
  <2>1. /\ UNCHANGED <<list, status>> /\ pc = "skip" /\ node' = node + 1
        /\ node \in Node /\ pc' \in {"done", "skip", "exec"}
    BY <1>9 DEF Skip, Position
  <2>2. PICK h \in 2..node : /\ Starts(h, node)
                             /\ op[h - 1] = IF status > 0 THEN "TAND" ELSE "TOR"
    BY <2>1 DEF Position
  <2>3. h \in Node /\ h \in 1..node /\ h <= node /\ h > 1
    BY <2>1, <2>2 DEF Node
  <2>4. Head = h
    BY <1>a, <2>1, <2>2, <2>3, StartUnique DEF Head
  <2>5. CASE pc' = "skip" /\ op[node] = "TPIP"
    <3>1. node + 1 \in Node /\ Starts(h, node + 1) /\ h \in 1..(node + 1)
      BY <1>9, <2>1, <2>2, <2>3, <2>5 DEF Skip, Starts, Node
    <3>2. StartOf(node + 1) = h
      BY <1>a, <3>1, StartUnique
    <3>3. StartOf(node)' = StartOf(node + 1)
      BY <2>1 DEF StartOf
    <3>4. Head' = h
      BY <2>5, <3>2, <3>3 DEF Head
    <3>5. QED
      BY <1>b, <2>1, <2>4, <2>5, <3>4
  <2>6. CASE pc' = "skip" /\ op[node] # "TPIP"
    <3>1. node + 1 \in Node /\ Starts(node + 1, node + 1)
      BY <1>9, <2>1, <2>6 DEF Skip, Starts, Node
    <3>2. StartOf(node + 1) = node + 1
      BY <1>a, <3>1, StartUnique DEF Node
    <3>3. StartOf(node)' = StartOf(node + 1)
      BY <2>1 DEF StartOf
    <3>4. Head' = node + 1
      BY <2>6, <3>2, <3>3 DEF Head
    <3>5. AndOr!Skip
      BY <2>1, <2>2, <2>3, <2>4, <2>6, <3>4, SkipStep
    <3>6. QED
      BY <3>5 DEF AndOr!Next
  <2>7. CASE pc' = "exec" \/ pc' = "done"
    <3>1. op[node] # "TPIP" /\ Head' = node + 1
      BY <1>9, <1>a, <2>1, <2>7 DEF Skip, SearchFor, Head, Node
    <3>2. AndOr!Skip
      BY <2>1, <2>2, <2>3, <2>4, <2>7, <3>1, SkipStep
    <3>3. QED
      BY <3>2 DEF AndOr!Next
  <2>8. QED
    BY <2>1, <2>5, <2>6, <2>7
<1>10. CASE NextLine
  <2>1. /\ pc = "done" /\ Head = NULL /\ pc' = "exec" /\ Head' = 1
        /\ op' \in Lists /\ status' \in 0..255
    BY <1>10, ExitCodesAssumption DEF NextLine, Head
  <2>2. AndOr!NewLine
    BY <2>1, SameConstants DEF AndOr!NewLine
  <2>3. QED
    BY <2>2 DEF AndOr!Next
<1>11. ASSUME NEW n \in Node, ChildEnds(n)
       PROVE  UNCHANGED AndOr!vars
  <2>1. UNCHANGED <<list, status, pc, node, first>>
    BY <1>11 DEF ChildEnds
  <2>2. Head' = Head
    BY <2>1 DEF Head, StartOf
  <2>3. QED
    BY <1>b, <2>1, <2>2
<1>12. CASE UNCHANGED vars
  <2>1. UNCHANGED <<list, status, pc, node, first>>
    BY <1>12 DEF vars
  <2>2. Head' = Head
    BY <2>1 DEF Head, StartOf
  <2>3. QED
    BY <1>b, <2>1, <2>2
<1>13. QED
  BY <1>1, <1>2, <1>3, <1>4, <1>5, <1>6, <1>7, <1>8, <1>9, <1>10, <1>11, <1>12
     DEF Next, ShellStep

\* The executor runs, skips and gives up exactly the pipelines that an AND-OR
\* list read from left to right would.
THEOREM Refinement == Spec => ImplementsAndOr
<1>1. Init => AndOr!Init
  BY AndOrInit
<1>2. IInv /\ IInv' /\ [Next]_vars => [AndOr!Next]_(AndOr!vars)
  BY AndOrStep
<1>3. QED
  BY <1>1, <1>2, Invariant, PTL DEF Spec, ImplementsAndOr, AndOr!Spec
-----------------------------------------------------------------------------
\* The guards of ShellStep.
ShellCan == \/ pc \in {"exec", "fork", "decide", "skip"}
            \/ pc = "wait" /\ proc[cursor] = "zombie"

\* In a line the shell can go on, or waits for a child that can end.
NoLostWait ==
  pc \notin {"done", "exited"} => ShellCan \/ (pc = "wait" /\ proc[cursor] = "live")

\* The order of the shell's places at one node.
Rank == CASE pc = "decide" -> 5
          [] pc = "skip"   -> 4
          [] pc = "exec"   -> 3
          [] pc = "fork"   -> 2
          [] pc = "wait"   -> 1
          [] pc \in {"done", "exited"} -> 0

\* A step of the shell goes on to a later node, or to a later place, or to a
\* later child it waits for, as far as the node it is at; a child that ends
\* does not move the shell, and ends once.
MovesOn ==
  /\ ShellStep =>
       \/ node' > node
       \/ node' = node /\ Rank' < Rank
       \/ /\ pc = "wait" /\ pc' = "wait" /\ node' = node
          /\ cursor' > cursor /\ cursor' <= node
  /\ \A n \in Node : ChildEnds(n) =>
       /\ UNCHANGED <<pc, node, cursor>>
       /\ proc[n] = "live" /\ proc'[n] = "zombie"

LEMMA StepMovesOn == IInv /\ IInv' /\ [Next]_vars => MovesOn
<1> SUFFICES ASSUME IInv, IInv'
             PROVE  MovesOn
  OBVIOUS
<1>1. /\ node \in 1..NULL /\ node' \in 1..NULL /\ proc \in [Node -> {"none", "live", "zombie", "reaped"}]
      /\ cursor \in Node /\ NULL \in Nat /\ \A n \in 1..NULL : n \in Nat
      /\ \A n \in Node : n \in Nat /\ n < NULL
  BY NodeFacts DEF IInv, TypeOK, Node, NULL
<1>2. pc \in {"exec", "fork"} => node \in Node
  BY DEF IInv, Position
<1>3. ASSUME NEW n \in Node, ChildEnds(n)
      PROVE  /\ UNCHANGED <<pc, node, cursor>>
             /\ proc[n] = "live" /\ proc'[n] = "zombie"
  BY <1>1, <1>3 DEF ChildEnds
<1> DEFINE On == \/ node' > node
                 \/ node' = node /\ Rank' < Rank
                 \/ /\ pc = "wait" /\ pc' = "wait" /\ node' = node
                    /\ cursor' > cursor /\ cursor' <= node
<1> SUFFICES ASSUME ShellStep
             PROVE  On
  BY <1>3 DEF MovesOn
<1>4. CASE BuiltinRedirectFails
  BY <1>1, <1>2, <1>4 DEF BuiltinRedirectFails
<1>5. CASE BuiltinReturns
  BY <1>1, <1>2, <1>5 DEF BuiltinReturns
<1>6. CASE BuiltinExitsShell
  BY <1>6 DEF BuiltinExitsShell, ExitShell, Rank
<1>7. CASE Fork
  <2>1. CASE node' = node + 1
    BY <1>1, <2>1
  <2>2. CASE node' = node /\ pc' = "wait"
    BY <1>7, <2>2 DEF Fork, Forking, Rank
  <2>3. QED
    BY <1>7, <2>1, <2>2 DEF Fork
<1>8. CASE ForkFails
  BY <1>8 DEF ForkFails, Forking, ExitShell, Rank
<1>9. CASE WaitStage
  <2>1. pc = "wait" /\ pc' = "wait" /\ node' = node /\ cursor' = cursor + 1
    BY <1>9 DEF WaitStage
  <2>2. cursor' > cursor /\ cursor' <= node
    BY <1>1, <2>1 DEF IInv, Position
  <2>3. QED
    BY <2>1, <2>2
<1>10. CASE WaitLast
  <2>1. pc = "wait" /\ (node' = node + 1 \/ (node' = node /\ pc' = "exited"))
    BY <1>10 DEF WaitLast, ExitShell
  <2>2. QED
    BY <1>1, <2>1 DEF Rank
<1>11. CASE Decide
  <2>1. pc = "decide" /\ pc' \in {"done", "skip", "exec"} /\ node' = node
    BY <1>11 DEF Decide
  <2>2. QED
    BY <2>1 DEF Rank
<1>12. CASE Skip
  BY <1>1, <1>12 DEF Skip
<1>13. QED
  BY <1>4, <1>5, <1>6, <1>7, <1>8, <1>9, <1>10, <1>11, <1>12 DEF ShellStep

\* In every line the shell can take a step, unless it waits for a child it has
\* forked and that has not ended; and no step brings it back: it passes the
\* nodes in their order, and waits for the children of a pipeline in theirs.
THEOREM LineMovesOn == Spec => []NoLostWait /\ [][MovesOn]_vars
<1>1. IInv => NoLostWait
  <2> SUFFICES ASSUME IInv, pc = "wait"
               PROVE  proc[cursor] \in {"live", "zombie"}
    BY DEF NoLostWait, ShellCan, IInv, TypeOK
  <2>1. cursor \in cursor..node
    BY NodeFacts DEF IInv, TypeOK, Position
  <2>2. QED
    BY <2>1 DEF IInv, ChildrenAccounted, Outstanding
<1>2. IInv /\ IInv' /\ [Next]_vars => [MovesOn]_vars
  BY StepMovesOn
<1>3. QED
  BY <1>1, <1>2, Invariant, PTL DEF Spec
=============================================================================
