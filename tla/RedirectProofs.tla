--------------------------- MODULE RedirectProofs ---------------------------
(***************************************************************************)
(* Theorems about module Redirect, for any number of redirections and any  *)
(* size of the table.                                                      *)
(***************************************************************************)
EXTENDS Redirect, WellFoundedInduction, TLAPS

\* Until a number found behind the group array is closed, the copies of a
\* builtin's STDIN and STDOUT stay where they are, and no original has their
\* numbers; the shell's own STDIN and STDOUT are not touched at any other time.
CopiesKept ==
  "shell" \notin strayed =>
    /\ where = "shell" /\ pc # "prompt" =>
         /\ table["shell"][Save] = TERMINAL /\ table["shell"][Save + 1] = TERMINAL
         /\ \A d \in 0..(Save - 1) : group[d] # Save /\ group[d] # Save + 1
    /\ where = "child" \/ pc = "prompt" =>
         table["shell"][STDIN] = TERMINAL /\ table["shell"][STDOUT] = TERMINAL

USE RedirectAssumption

LEMMA Constants ==
  /\ STDIN \in Fd /\ STDOUT \in Fd /\ Save \in Fd /\ Save + 1 \in Fd
  /\ 0..(Save - 1) \subseteq Fd
  /\ STDIN # Save /\ STDIN # Save + 1 /\ STDOUT # Save /\ STDOUT # Save + 1
  /\ TERMINAL \in Object /\ CLOSED \in Object /\ EARLIER \in Object
  /\ 1..MaxRedirects \subseteq Object
  /\ TERMINAL # CLOSED /\ ~(TERMINAL > 0)
BY DEF STDIN, STDOUT, Fd, TERMINAL, CLOSED, EARLIER, Object

LEMMA InitInvariant == Init => TypeOK /\ CopiesKept
<1> SUFFICES ASSUME Init
             PROVE  TypeOK /\ CopiesKept
  OBVIOUS
<1>1. table \in [Process -> [Fd -> Object]]
  BY Constants DEF Init, Unused, Process
<1>2. TypeOK
  <2>1. Len(list) = 0 /\ list \in Seq(Redirections)
    BY DEF Init
  <2>2. group \in [0..(Save - 1) -> Fd]
    BY DEF Init, Fd
  <2>3. before \in [Fd -> Object]
    BY <1>1 DEF Init, Process
  <2>4. QED
    BY <1>1, <2>1, <2>2, <2>3 DEF Init, TypeOK, Process
<1>3. CopiesKept
  <2>1. table["shell"] = [d \in Fd |-> IF d < 3 THEN TERMINAL ELSE CLOSED]
    BY DEF Init, Process
  <2>2. QED
    BY <2>1, Constants DEF Init, CopiesKept, STDIN, STDOUT
<1>4. QED
  BY <1>2, <1>3
-----------------------------------------------------------------------------
\* The shell's table as a new command finds it.
LEMMA InheritedFacts ==
  ASSUME table["shell"] \in [Fd -> Object]
  PROVE  /\ Inherited \in [Fd -> Object]
         /\ \A d \in Fd : table["shell"][d] = TERMINAL => Inherited[d] = TERMINAL
BY Constants DEF Inherited, TERMINAL

\* What each kind of step makes of the descriptors of a process.
LEMMA CopyType ==
  ASSUME TypeOK, Making, NEW f \in Free, Copy(f)
  PROVE  /\ table' \in [Process -> [Fd -> Object]]
         /\ group' \in [0..(Save - 1) -> Fd]
         /\ opened' \subseteq Fd
         /\ at' \in 1..(Len(list) + 1)
         /\ pc' \in {"redirect", "close"}
         /\ pc' = "redirect" => at' <= Len(list)
         /\ error' \in BOOLEAN
<1>1. /\ at \in 1..Len(list) /\ at \in Object
      /\ redi \in Redirections
      /\ redi.fd \in 0..(Save - 1)
  <2>1. at \in 1..Len(list) /\ at \in 1..MaxRedirects
    BY DEF TypeOK, Making
  <2>2. redi \in Redirections
    BY <2>1 DEF TypeOK, redi
  <2>3. QED
    BY <2>1, <2>2, Constants DEF Making, Redirections, STDIN
<1>2. f \in Fd
  BY DEF Free
<1> DEFINE u == [Table EXCEPT ![f] = at, ![redi.fd] = at]
           v == [u EXCEPT ![group[redi.fd]] = CLOSED]
<1>3. u \in [Fd -> Object] /\ v \in [Fd -> Object]
  BY <1>1, Constants DEF TypeOK, Table
<1>4. table' \in [Process -> [Fd -> Object]]
  <2>1. table' = [table EXCEPT ![where] = u] \/ table' = [table EXCEPT ![where] = v]
    BY DEF Copy
  <2>2. QED
    BY <2>1, <1>3 DEF TypeOK
<1>5. group' \in [0..(Save - 1) -> Fd]
  <2>1. group' = [group EXCEPT ![redi.fd] = f] \/ group' = group
    BY DEF Copy
  <2>2. QED
    BY <2>1, <1>2 DEF TypeOK
<1>6. Advance \/ GiveUp
  BY DEF Copy
<1>7. opened' \subseteq Fd
  BY <1>2 DEF Copy, TypeOK
<1>8. /\ at' \in 1..(Len(list) + 1)
      /\ pc' \in {"redirect", "close"}
      /\ pc' = "redirect" => at' <= Len(list)
      /\ error' \in BOOLEAN
  <2>1. Len(list) \in Nat
    BY DEF TypeOK
  <2>2. CASE Advance
    BY <1>1, <2>1, <2>2 DEF Advance, TypeOK
  <2>3. CASE GiveUp
    BY <1>1, <2>1, <2>3 DEF GiveUp
  <2>4. QED
    BY <1>6, <2>2, <2>3
<1>9. QED
  BY <1>4, <1>5, <1>7, <1>8

\* A copy touches neither the numbers of the two copies nor another process.
LEMMA CopyKeeps ==
  ASSUME TypeOK, Making, NEW f \in Free, Copy(f), CopiesKept, "shell" \notin strayed
  PROVE  /\ where = "shell" =>
              /\ table'["shell"][Save] = TERMINAL /\ table'["shell"][Save + 1] = TERMINAL
              /\ \A d \in 0..(Save - 1) : group'[d] # Save /\ group'[d] # Save + 1
         /\ where = "child" => table'["shell"] = table["shell"]
<1>1. redi.fd \in 0..(Save - 1)
  <2>1. at \in 1..Len(list)
    BY DEF TypeOK, Making
  <2>2. redi \in Redirections
    BY <2>1 DEF TypeOK, redi
  <2>3. QED
    BY <2>2 DEF Making, Redirections, STDIN
<1> DEFINE u == [Table EXCEPT ![f] = at, ![redi.fd] = at]
           v == [u EXCEPT ![group[redi.fd]] = CLOSED]
<1>2. table' = [table EXCEPT ![where] = u] \/ table' = [table EXCEPT ![where] = v]
  BY DEF Copy
<1>3. CASE where = "child"
  BY <1>2, <1>3 DEF TypeOK, Process
<1>4. CASE where = "shell"
  <2>1. /\ table["shell"][Save] = TERMINAL /\ table["shell"][Save + 1] = TERMINAL
        /\ \A d \in 0..(Save - 1) : group[d] # Save /\ group[d] # Save + 1
    BY <1>4 DEF CopiesKept, Making
  <2>2. f # Save /\ f # Save + 1
    BY <1>4, <2>1, Constants DEF Free, Table
  <2>3. u[Save] = TERMINAL /\ u[Save + 1] = TERMINAL
    BY <1>1, <1>4, <2>1, <2>2, Constants DEF Table, TypeOK
  <2>4. v[Save] = TERMINAL /\ v[Save + 1] = TERMINAL
    BY <1>1, <1>4, <2>1, <2>3, Constants DEF Table, TypeOK
  <2>5. table'["shell"] = u \/ table'["shell"] = v
    BY <1>2, <1>4 DEF TypeOK, Process
  <2>6. \A d \in 0..(Save - 1) : group'[d] # Save /\ group'[d] # Save + 1
    <3>1. group' = [group EXCEPT ![redi.fd] = f] \/ group' = group
      BY DEF Copy
    <3>2. QED
      BY <2>1, <2>2, <3>1 DEF TypeOK
  <2>7. QED
    BY <1>4, <2>3, <2>4, <2>5, <2>6
<1>5. QED
  BY <1>3, <1>4 DEF TypeOK, Process
-----------------------------------------------------------------------------
LEMMA PutBackFacts ==
  ASSUME TypeOK
  PROVE  /\ PutBack \in [Fd -> Object]
         /\ \A d \in {STDIN, STDOUT} :
              Table[Save + d] = TERMINAL => PutBack[d] = TERMINAL
         /\ \A d \in Fd \ {STDIN, STDOUT} : PutBack[d] = Table[d]
<1>1. Table \in [Fd -> Object]
  BY DEF TypeOK, Table
<1>2. \A d \in {STDIN, STDOUT} : d \in Fd /\ Save + d \in Fd
  BY Constants DEF STDIN, STDOUT
<1>3. QED
  BY <1>1, <1>2, Constants DEF PutBack

LEMMA StepType == TypeOK /\ [Next]_vars => TypeOK'
<1> SUFFICES ASSUME TypeOK, [Next]_vars
             PROVE  TypeOK'
  OBVIOUS
<1> USE DEF command
<1>1. ASSUME EnterBuiltin \/ EnterCommand
      PROVE  TypeOK'
  <2>1. /\ list' \in Seq(Redirections) /\ Len(list') <= MaxRedirects
        /\ Len(list') \in Nat \ {0}
    BY <1>1 DEF EnterBuiltin, EnterCommand, Enter
  <2>2. group' \in [0..(Save - 1) -> Fd]
    BY <1>1 DEF EnterBuiltin, EnterCommand, Enter, Fd
  <2>3. Inherited \in [Fd -> Object]
    BY InheritedFacts DEF TypeOK, Process
  <2>4. before' \in [Fd -> Object] /\ table' \in [Process -> [Fd -> Object]]
    <3>1. CASE EnterBuiltin
      <4>1. before' = [Inherited EXCEPT ![Save] = Inherited[STDIN],
                                        ![Save + 1] = Inherited[STDOUT]]
        BY <3>1 DEF EnterBuiltin
      <4>2. before' \in [Fd -> Object]
        BY <2>3, <4>1, Constants
      <4>3. table' = [table EXCEPT !["shell"] = before']
        BY <3>1 DEF EnterBuiltin
      <4>4. table \in [Process -> [Fd -> Object]]
        BY DEF TypeOK
      <4>5. QED
        BY <4>2, <4>3, <4>4
    <3>2. CASE EnterCommand
      <4>1. before' = Inherited /\ table' = [p \in Process |-> Inherited]
        BY <3>2 DEF EnterCommand
      <4>2. QED
        BY <2>3, <4>1
    <3>3. QED
      BY <1>1, <3>1, <3>2
  <2>5. /\ at' \in 1..(Len(list') + 1) /\ at' <= Len(list')
        /\ pc' = "redirect" /\ where' \in Process /\ error' \in BOOLEAN
        /\ opened' \subseteq Fd /\ strayed' \subseteq Process
    <3>1. at' = 1 /\ opened' = {} /\ error' = FALSE /\ pc' = "redirect"
      BY <1>1 DEF EnterBuiltin, EnterCommand, Enter
    <3>2. where' \in Process /\ strayed' = strayed
      BY <1>1 DEF EnterBuiltin, EnterCommand, Enter, Process
    <3>3. strayed' \subseteq Process
      BY <3>2 DEF TypeOK
    <3>4. at' \in 1..(Len(list') + 1) /\ at' <= Len(list')
      BY <2>1, <3>1
    <3>5. QED
      BY <3>1, <3>2, <3>3, <3>4
  <2>6. QED
    BY <2>1, <2>2, <2>4, <2>5 DEF TypeOK
<1>2. ASSUME Making, NEW f \in Free, Copy(f), UNCHANGED <<command, strayed>>
      PROVE  TypeOK'
  BY <1>2, CopyType DEF TypeOK
<1>3. CASE OpenFile
  BY <1>2, <1>3 DEF OpenFile
<1>4. CASE OpenFails
  BY <1>4 DEF OpenFails, Making, GiveUp, TypeOK
<1>5. CASE OpenDoc
  <2>1. CASE \E f \in Free : Copy(f)
    BY <1>2, <1>5, <2>1 DEF OpenDoc
  <2>2. CASE Advance /\ UNCHANGED <<table, group, opened>>
    BY <1>5, <2>2 DEF OpenDoc, Making, Advance, TypeOK
  <2>3. QED
    BY <1>5, <2>1, <2>2 DEF OpenDoc
<1>6. CASE DocFails
  <2>1. at \in Object
    BY <1>6, Constants DEF DocFails, Making, TypeOK
  <2>2. table' \in [Process -> [Fd -> Object]]
    <3>1. ASSUME NEW left,
                 table' = [table EXCEPT ![where] =
                             [d \in Fd |-> IF d \in left THEN at ELSE Table[d]]]
          PROVE  table' \in [Process -> [Fd -> Object]]
      BY <2>1, <3>1 DEF TypeOK, Table
    <3>2. QED
      BY <1>6, <3>1 DEF DocFails, TypeOK
  <2>3. QED
    BY <1>6, <2>2 DEF DocFails, Making, GiveUp, TypeOK
<1>7. CASE TooLarge
  BY <1>7 DEF TooLarge, TypeOK
<1>8. CASE CloseOriginals
  <2>1. table' \in [Process -> [Fd -> Object]]
    <3>1. PICK stray \in {0} \cup 3..(NFds - 1) :
            table' = [table EXCEPT ![where] =
                        [d \in Fd |-> IF d > 2 /\ d \in Originals \cup {stray}
                                      THEN CLOSED ELSE Table[d]]]
      BY <1>8 DEF CloseOriginals
    <3>2. QED
      BY <3>1, Constants DEF TypeOK, Table
  <2>2. strayed' \subseteq Process
    BY <1>8 DEF CloseOriginals, TypeOK
  <2>3. QED
    BY <1>8, <2>1, <2>2 DEF CloseOriginals, TypeOK
<1>9. ASSUME BuiltinReturns \/ BuiltinFails \/ ChildEnds
      PROVE  TypeOK'
  <2>1. PutBack \in [Fd -> Object]
    BY PutBackFacts
  <2>2. table' \in [Process -> [Fd -> Object]]
    <3>1. Unused \in [Fd -> Object]
      BY Constants DEF Unused
    <3>2. [PutBack EXCEPT ![Save]     = CLOSED,
                          ![Save + 1] = IF Table[Save] = CLOSED THEN @ ELSE CLOSED]
            \in [Fd -> Object]
      BY <2>1, Constants
    <3>3. QED
      BY <1>9, <2>1, <3>1, <3>2 DEF BuiltinReturns, BuiltinFails, ChildEnds, TypeOK
  <2>3. list' \in Seq(Redirections) /\ Len(list') = 0 /\ at' = 1
    <3>1. list' = <<>> /\ at' = 1
      BY <1>9 DEF BuiltinReturns, BuiltinFails, ChildEnds, Finish
    <3>2. QED
      BY <3>1
  <2>4. group' \in [0..(Save - 1) -> Fd]
    BY <1>9 DEF BuiltinReturns, BuiltinFails, ChildEnds, Finish, Fd
  <2>5. before' \in [Fd -> Object]
    BY <1>9, <2>2 DEF BuiltinReturns, BuiltinFails, ChildEnds, Finish, Process
  <2>6. /\ pc' = "prompt" /\ where' \in Process /\ error' \in BOOLEAN
        /\ opened' \subseteq Fd /\ strayed' \subseteq Process
    BY <1>9 DEF BuiltinReturns, BuiltinFails, ChildEnds, Finish, TypeOK, Process
  <2>7. QED
    BY <2>2, <2>3, <2>4, <2>5, <2>6 DEF TypeOK
<1>10. CASE UNCHANGED vars
  BY <1>10 DEF vars, TypeOK
<1>11. QED
  BY <1>1, <1>3, <1>4, <1>5, <1>6, <1>7, <1>8, <1>9, <1>10 DEF Next

LEMMA StepKept == TypeOK /\ TypeOK' /\ CopiesKept /\ [Next]_vars => CopiesKept'
<1> SUFFICES ASSUME TypeOK, TypeOK', CopiesKept, [Next]_vars, "shell" \notin strayed'
             PROVE  CopiesKept'
  BY DEF CopiesKept
<1> USE DEF command
<1>1. ASSUME EnterBuiltin \/ EnterCommand
      PROVE  CopiesKept'
  <2>1. Inherited[STDIN] = TERMINAL /\ Inherited[STDOUT] = TERMINAL
    BY <1>1, InheritedFacts, Constants
    DEF EnterBuiltin, EnterCommand, Enter, CopiesKept, TypeOK, Process
  <2>2. Inherited \in [Fd -> Object]
    BY InheritedFacts DEF TypeOK, Process
  <2>3. CASE EnterBuiltin
    <3>1. table'["shell"] = before'
      BY <2>3 DEF EnterBuiltin, TypeOK, Process
    <3>2. before'[Save] = TERMINAL /\ before'[Save + 1] = TERMINAL
      BY <2>1, <2>2, <2>3, Constants DEF EnterBuiltin
    <3>3. \A d \in 0..(Save - 1) : group'[d] = 0
      BY <2>3 DEF EnterBuiltin, Enter
    <3>4. where' = "shell" /\ pc' = "redirect"
      BY <2>3 DEF EnterBuiltin, Enter
    <3>5. QED
      BY <3>1, <3>2, <3>3, <3>4 DEF CopiesKept
  <2>4. CASE EnterCommand
    BY <2>1, <2>4 DEF EnterCommand, Enter, CopiesKept, Process
  <2>5. QED
    BY <1>1, <2>3, <2>4
<1>2. ASSUME Making, NEW f \in Free, Copy(f), UNCHANGED <<command, strayed>>
      PROVE  CopiesKept'
  BY <1>2, CopyKeeps, CopyType DEF CopiesKept, Making
<1>3. CASE OpenFile
  BY <1>2, <1>3 DEF OpenFile
<1>4. CASE OpenFails
  BY <1>4 DEF OpenFails, Making, GiveUp, CopiesKept
<1>5. CASE OpenDoc
  <2>1. CASE \E f \in Free : Copy(f)
    BY <1>2, <1>5, <2>1 DEF OpenDoc
  <2>2. CASE Advance /\ UNCHANGED <<table, group, opened>>
    BY <1>5, <2>2 DEF OpenDoc, Making, Advance, CopiesKept
  <2>3. QED
    BY <1>5, <2>1, <2>2 DEF OpenDoc
<1>6. CASE DocFails
  <2>1. ASSUME NEW left \in SUBSET Free,
               table' = [table EXCEPT ![where] =
                           [d \in Fd |-> IF d \in left THEN at ELSE Table[d]]]
        PROVE  \A d \in Fd : table["shell"][d] # CLOSED
                               => table'["shell"][d] = table["shell"][d]
    BY <2>1 DEF TypeOK, Process, Table, Free
  <2>2. \A d \in Fd : table["shell"][d] # CLOSED
                        => table'["shell"][d] = table["shell"][d]
    <3>1. CASE UNCHANGED table
      BY <3>1
    <3>2. CASE ~UNCHANGED table
      <4>1. PICK r \in Free, w \in Free : \E left \in {{r}, {r, w}} :
              table' = [table EXCEPT ![where] =
                          [d \in Fd |-> IF d \in left THEN at ELSE Table[d]]]
        BY <1>6, <3>2 DEF DocFails
      <4>2. \A left \in {{r}, {r, w}} : left \in SUBSET Free
        OBVIOUS
      <4>3. QED
        BY <2>1, <4>1, <4>2
    <3>3. QED
      BY <3>1, <3>2
  <2>3. QED
    BY <1>6, <2>2, Constants DEF DocFails, Making, GiveUp, CopiesKept
<1>7. CASE TooLarge
  BY <1>7 DEF TooLarge, CopiesKept
<1>8. CASE CloseOriginals
  <2>1. PICK stray \in {0} \cup 3..(NFds - 1) :
          /\ table' = [table EXCEPT ![where] =
                         [d \in Fd |-> IF d > 2 /\ d \in Originals \cup {stray}
                                       THEN CLOSED ELSE Table[d]]]
          /\ strayed' = IF stray = 0 THEN strayed ELSE strayed \cup {where}
    BY <1>8 DEF CloseOriginals
  <2>2. CASE where = "child"
    BY <1>8, <2>1, <2>2 DEF CloseOriginals, CopiesKept, TypeOK, Process
  <2>3. CASE where = "shell"
    <3>1. stray = 0 /\ "shell" \notin strayed
      BY <2>1, <2>3
    <3>2. /\ table["shell"][Save] = TERMINAL /\ table["shell"][Save + 1] = TERMINAL
          /\ Save \notin Originals /\ Save + 1 \notin Originals
      BY <1>8, <2>3, <3>1 DEF CloseOriginals, CopiesKept, Originals
    <3>3. table'["shell"][Save] = TERMINAL /\ table'["shell"][Save + 1] = TERMINAL
      BY <2>1, <2>3, <3>1, <3>2, Constants DEF TypeOK, Process, Table
    <3>4. QED
      BY <1>8, <2>3, <3>1, <3>3 DEF CloseOriginals, CopiesKept
  <2>4. QED
    BY <2>2, <2>3 DEF TypeOK, Process
<1>9. CASE BuiltinReturns
  <2>1. Table[Save] = TERMINAL /\ Table[Save + 1] = TERMINAL
    BY <1>9 DEF BuiltinReturns, CopiesKept, Table
  <2>2. table'["shell"][STDIN] = TERMINAL /\ table'["shell"][STDOUT] = TERMINAL
    <3>1. PutBack[STDIN] = TERMINAL /\ PutBack[STDOUT] = TERMINAL
      BY <2>1, PutBackFacts DEF STDIN, STDOUT
    <3>2. QED
      BY <1>9, <3>1, PutBackFacts, Constants DEF BuiltinReturns, TypeOK, Process
  <2>3. QED
    BY <1>9, <2>2 DEF BuiltinReturns, Finish, CopiesKept
<1>10. CASE BuiltinFails
  <2>1. Table[Save] = TERMINAL /\ Table[Save + 1] = TERMINAL
    BY <1>10 DEF BuiltinFails, CopiesKept, Table
  <2>2. table'["shell"][STDIN] = TERMINAL /\ table'["shell"][STDOUT] = TERMINAL
    <3>1. PutBack[STDIN] = TERMINAL /\ PutBack[STDOUT] = TERMINAL
      BY <2>1, PutBackFacts DEF STDIN, STDOUT
    <3>2. QED
      BY <1>10, <3>1, PutBackFacts, Constants DEF BuiltinFails, TypeOK, Process
  <2>3. QED
    BY <1>10, <2>2 DEF BuiltinFails, Finish, CopiesKept
<1>11. CASE ChildEnds
  BY <1>11 DEF ChildEnds, Finish, CopiesKept, TypeOK, Process
<1>12. CASE UNCHANGED vars
  BY <1>12 DEF vars, CopiesKept
<1>13. QED
  BY <1>1, <1>3, <1>4, <1>5, <1>6, <1>7, <1>8, <1>9, <1>10, <1>11, <1>12 DEF Next
-----------------------------------------------------------------------------
\* Type correctness, and where the copies of the standard descriptors are.
THEOREM Invariant == Spec => [](TypeOK /\ CopiesKept)
<1>1. Init => TypeOK /\ CopiesKept
  BY InitInvariant
<1>2. TypeOK /\ CopiesKept /\ [Next]_vars => (TypeOK /\ CopiesKept)'
  BY StepType, StepKept
<1>3. QED
  BY <1>1, <1>2, PTL DEF Spec

\* The variables of prepare_redirect() and builtin_exec() keep their ranges.
THEOREM TypeCorrect == Spec => []TypeOK
BY Invariant, PTL

\* The shell has its standard input and output back at every prompt, whatever
\* the redirections of its builtins were and however they failed.
THEOREM StandardBack == Spec => []StandardRestored
<1>1. CopiesKept => StandardRestored
  BY DEF CopiesKept, StandardRestored
<1>2. QED
  BY <1>1, Invariant, PTL
-----------------------------------------------------------------------------
(* What every descriptor refers to when the command runs.                  *)

\* The redirections that have been made: a document that is not the last one of
\* its command is read and thrown away.
Made == {k \in 1..(at - 1) :
           list[k].type = "doc" => \A j \in (k + 1)..Len(list) : list[j].type # "doc"}
MadeFor(D) == {k \in Made : list[k].fd \in D}
IsLast(k, K) == k \in K /\ \A j \in K : j <= k
Numbers == 0..(Save - 1)

\* The numbers of the originals.  Each belongs to one descriptor and is open as
\* long as it does; of those that do not belong to one any more at most one is
\* closed, and that is the next number open() returns.
Tidy ==
  /\ opened \cap 0..2 = {}
  /\ \A x \in Numbers : group[x] \in opened \cup {0}
  /\ \A x \in Numbers : group[x] # 0 => Table[group[x]] # CLOSED
  /\ \A x, y \in Numbers : group[x] = group[y] /\ group[x] # 0 => x = y
  /\ \A g \in opened : Table[g] = CLOSED \/ \E x \in Numbers : group[x] = g
  /\ \A g \in opened, f \in Free : (f \notin opened => g < f) /\ (g \in Free => g <= f)

\* What the other numbers, and the original of STDIN, refer to.
Contents ==
  /\ \A d \in Fd \ opened : IF MadeFor({d}) = {} THEN Table[d] = before[d]
                            ELSE IsLast(Table[d], MadeFor({d}))
  /\ group[STDIN] # 0 => IsLast(Table[group[STDIN]], MadeFor({group[STDIN], STDIN}))

Orderly == pc \in {"redirect", "close"} /\ ~error => Tidy /\ Contents

\* Without an error the closing comes behind the last redirection.
Progress == /\ pc = "redirect" => ~error
            /\ pc = "close" /\ ~error => at = Len(list) + 1

\* The three standard descriptors are always open, so that no original is one of them.
LowOpen == \A d \in 0..2 : /\ table["shell"][d] # CLOSED
                           /\ where = "child" => table["child"][d] # CLOSED

AppliedInv == LowOpen /\ Progress /\ Orderly /\ Applied

\* A set of positions that is not empty has a last element.
LEMMA LastOne ==
  ASSUME NEW n \in Nat, NEW S \in SUBSET (1..n), S # {}
  PROVE  \E k \in S : IsLast(k, S)
<1> DEFINE T == {n - k : k \in S}
<1>1. T \subseteq Nat /\ T # {}
  OBVIOUS
<1>2. PICK m \in T : \A j \in T : ~(<<j, m>> \in OpToRel(<, Nat))
  BY <1>1, NatLessThanWellFounded, WFMin, Zenon
<1>3. PICK k \in S : m = n - k
  BY <1>2
<1>4. ASSUME NEW j \in S
      PROVE  j <= k
  <2>1. n - j \in T /\ ~(<<n - j, m>> \in OpToRel(<, Nat))
    BY <1>2
  <2>2. ~(n - j < m)
    BY <2>1, <1>1, <1>2 DEF OpToRel
  <2>3. QED
    BY <2>2, <1>3
<1>5. QED
  BY <1>4 DEF IsLast

LEMMA RediFacts ==
  ASSUME TypeOK, Making
  PROVE  /\ at \in 1..Len(list) /\ at \in Object /\ at # CLOSED
         /\ redi \in Redirections /\ redi.fd \in Numbers /\ redi.fd \in Fd
         /\ Len(list) \in Nat
<1>1. at \in 1..Len(list) /\ at \in 1..MaxRedirects
  BY DEF TypeOK, Making
<1>2. redi \in Redirections
  BY <1>1 DEF TypeOK, redi
<1>3. QED
  BY <1>1, <1>2, Constants DEF Making, Redirections, STDIN, CLOSED, Numbers

\* The next redirection joins those made, if it is not a document read in vain.
LEMMA MadeNext ==
  ASSUME TypeOK, Making, Advance, UNCHANGED command
  PROVE  /\ Made' = IF redi.type = "doc" => is_last_here THEN Made \cup {at} ELSE Made
         /\ \A k \in Made : k < at
<1>1. at \in 1..Len(list) /\ at' = at + 1 /\ list' = list
  BY RediFacts DEF Advance, command
<1>2. 1..(at' - 1) = (1..(at - 1)) \cup {at}
  BY <1>1
<1>3. \A k \in Made : k < at
  BY <1>1 DEF Made
<1>4. at \notin Made
  BY <1>3, <1>1
<1>5. QED
  BY <1>1, <1>2, <1>3 DEF Made, is_last_here, redi
-----------------------------------------------------------------------------
\* What Copy makes of the table: no original is in the way, so close() succeeds.
LEMMA CopyShape ==
  ASSUME TypeOK, Making, Tidy, LowOpen, NEW f \in Free, Copy(f), UNCHANGED command
  PROVE  /\ f \in Fd /\ f \notin 0..2
         /\ \A x \in Numbers : group[x] # f
         /\ group[redi.fd] = 0 \/ group[redi.fd] \in opened
         /\ Advance
         /\ group' = [group EXCEPT ![redi.fd] = f]
         /\ opened' = opened \cup {f}
         /\ \A x \in Fd : Table'[x] = IF x = group[redi.fd] /\ x # 0 THEN CLOSED
                                      ELSE IF x \in {f, redi.fd} THEN at ELSE Table[x]
<1> DEFINE old == group[redi.fd]
           u == [Table EXCEPT ![f] = at, ![redi.fd] = at]
<1>1. f \in Fd /\ Table[f] = CLOSED
  BY DEF Free
<1>2. f \notin 0..2
  BY <1>1 DEF LowOpen, Table, TypeOK, Process
<1>3. 0 \in 0..2 /\ f # 0
  BY <1>2
<1>4. \A x \in Numbers : group[x] # f
  BY <1>1, <1>3 DEF Tidy
<1>5. old = 0 \/ old \in opened
  BY RediFacts DEF Tidy
<1>6. old \in Fd /\ (old > 2 <=> old # 0)
  <2>1. old \in Fd
    BY RediFacts DEF TypeOK, Numbers
  <2>2. old # 0 => old \notin 0..2
    BY <1>5 DEF Tidy
  <2>3. QED
    BY <2>1, <2>2 DEF Fd
<1>7. Table \in [Fd -> Object]
  BY DEF TypeOK, Table
<1>8. \A x \in Fd : u[x] = IF x \in {f, redi.fd} THEN at ELSE Table[x]
  BY <1>1, <1>7, RediFacts
<1>9. old > 2 => u[old] # CLOSED
  <2>1. old > 2 => Table[old] # CLOSED
    BY <1>6, RediFacts DEF Tidy
  <2> HIDE DEF old, u
  <2>2. QED
    BY <2>1, <1>6, <1>8, RediFacts
<1>10. /\ opened' = opened \cup {f} /\ Advance
       /\ group' = [group EXCEPT ![redi.fd] = f]
       /\ \/ old <= 2 /\ table' = [table EXCEPT ![where] = u]
          \/ old > 2 /\ table' = [table EXCEPT ![where] = [u EXCEPT ![old] = CLOSED]]
  BY <1>9 DEF Copy
<1>11. where' = where /\ where \in Process
  BY DEF command, TypeOK
<1>12. \A x \in Fd : Table'[x] = IF x = old /\ x # 0 THEN CLOSED
                                 ELSE IF x \in {f, redi.fd} THEN at ELSE Table[x]
  <2>1. CASE old <= 2
    <3>1. Table' = u /\ old = 0
      BY <2>1, <1>6, <1>10, <1>11 DEF Table, TypeOK, Fd
    <3>2. QED
      BY <3>1, <1>8
  <2>2. CASE old > 2
    <3>1. u \in [Fd -> Object]
      BY <1>1, <1>7, RediFacts
    <3> HIDE DEF old, u
    <3>2. table' = [table EXCEPT ![where] = [u EXCEPT ![old] = CLOSED]] /\ old # 0
      BY <2>2, <1>6, <1>10 DEF Fd
    <3>3. Table' = [u EXCEPT ![old] = CLOSED]
      BY <3>2, <1>11 DEF Table, TypeOK
    <3>4. QED
      BY <3>1, <3>2, <3>3, <1>6, <1>8
  <2>3. QED
    BY <2>1, <2>2, <1>6 DEF Fd
<1>13. QED
  BY <1>1, <1>2, <1>4, <1>5, <1>10, <1>12

\* A number that was opened and is free is the next one open() returns.
LEMMA OnlyHole ==
  ASSUME TypeOK, Tidy, NEW f \in Free, Lowest(f), NEW g \in opened, g \in Free
  PROVE  g = f
<1>1. g <= f /\ f <= g
  BY DEF Tidy, Lowest
<1>2. f \in Int /\ g \in Int
  BY DEF Free, Fd
<1>3. QED
  BY <1>1, <1>2

LEMMA CopyTidy ==
  ASSUME TypeOK, Making, Tidy, LowOpen, NEW f \in Free, Lowest(f), Copy(f),
         UNCHANGED command
  PROVE  Tidy'
<1> DEFINE old == group[redi.fd]
           x0 == redi.fd
<1>1. /\ f \in Fd /\ f \notin 0..2
      /\ \A x \in Numbers : group[x] # f
      /\ old = 0 \/ old \in opened
      /\ group' = [group EXCEPT ![x0] = f]
      /\ opened' = opened \cup {f}
  BY CopyShape
<1>2. \A x \in Fd : Table'[x] = IF x = old /\ x # 0 THEN CLOSED
                                ELSE IF x \in {f, x0} THEN at ELSE Table[x]
  BY CopyShape
<1>3. /\ x0 \in Numbers /\ x0 \in Fd /\ at # CLOSED
      /\ group \in [Numbers -> Fd] /\ opened \subseteq Fd
  BY RediFacts DEF TypeOK, Numbers
<1>4. f # 0 /\ f # old /\ Table[f] = CLOSED /\ old \in Fd
  BY <1>1, <1>3 DEF Free
<1>o. old = group[x0]
  OBVIOUS
<1> HIDE DEF old, x0
<1>5. \A x \in Numbers : group'[x] = IF x = x0 THEN f ELSE group[x]
  BY <1>1, <1>3
<1>6. \A x \in Numbers : x # x0 /\ group[x] # 0 => group[x] # old
  BY <1>3, <1>o DEF Tidy
<1>7. opened' \cap 0..2 = {}
  BY <1>1 DEF Tidy
<1>8. \A x \in Numbers : group'[x] \in opened' \cup {0}
  BY <1>1, <1>5 DEF Tidy
<1>9. \A x \in Numbers : group'[x] # 0 => Table'[group'[x]] # CLOSED
  <2> SUFFICES ASSUME NEW x \in Numbers, group'[x] # 0
               PROVE  Table'[group'[x]] # CLOSED
    OBVIOUS
  <2>1. CASE x = x0
    BY <2>1, <1>1, <1>2, <1>3, <1>4, <1>5
  <2>2. CASE x # x0
    <3>1. group'[x] = group[x] /\ group[x] # old /\ group[x] \in Fd
      BY <2>2, <1>3, <1>5, <1>6
    <3>2. Table[group[x]] # CLOSED
      BY <3>1 DEF Tidy
    <3>3. QED
      BY <3>1, <3>2, <1>2, <1>3
  <2>3. QED
    BY <2>1, <2>2
<1>10. \A x, y \in Numbers : group'[x] = group'[y] /\ group'[x] # 0 => x = y
  BY <1>1, <1>5 DEF Tidy
<1>11. \A g \in opened' : Table'[g] = CLOSED \/ \E x \in Numbers : group'[x] = g
  <2> SUFFICES ASSUME NEW g \in opened'
               PROVE  Table'[g] = CLOSED \/ \E x \in Numbers : group'[x] = g
    OBVIOUS
  <2>1. CASE g = f
    BY <2>1, <1>3, <1>5
  <2>2. CASE g # f /\ g = old
    <3>1. g # 0
      BY <2>2, <1>1 DEF Tidy
    <3>2. QED
      BY <3>1, <2>2, <1>2, <1>4
  <2>3. CASE g # f /\ g # old
    <3>1. g \in opened /\ g \in Fd
      BY <2>3, <1>1, <1>3
    <3>2. Table[g] # CLOSED
      BY <2>3, <3>1, OnlyHole DEF Free
    <3>3. PICK x \in Numbers : group[x] = g
      BY <3>1, <3>2 DEF Tidy
    <3>4. x # x0
      BY <2>3, <3>3, <1>o
    <3>5. QED
      BY <3>3, <3>4, <1>5
  <2>4. QED
    BY <2>1, <2>2, <2>3
<1>12. \A d \in Free' : (d \in Free /\ d # f) \/ (d = old /\ d # 0)
  BY <1>2, <1>3 DEF Free
<1>13. ASSUME NEW g \in opened', NEW d \in Free'
       PROVE  (d \notin opened' => g < d) /\ (g \in Free' => g <= d)
  <2>1. g \in Int /\ d \in Int /\ f \in Int
    <3>1. g \in Fd /\ d \in Fd /\ f \in Fd
      BY <1>1, <1>3 DEF Free
    <3>2. QED
      BY <3>1 DEF Fd
  <2>2. d \notin opened' => g < d
    <3> SUFFICES ASSUME d \notin opened'
                 PROVE  g < d
      OBVIOUS
    <3>1. d \in Free /\ d # f /\ d \notin opened
      BY <1>1, <1>12
    <3>2. CASE g = f
      BY <3>1, <3>2, <2>1 DEF Lowest
    <3>3. CASE g \in opened
      BY <3>1, <3>3 DEF Tidy
    <3>4. QED
      BY <3>2, <3>3, <1>1
  <2>3. ASSUME g \in Free'
        PROVE  g <= d
    <3>1. g = old
      <4>1. CASE g \in Free /\ g # f
        BY <4>1, <1>1, OnlyHole
      <4>2. QED
        BY <4>1, <1>12, <2>3
    <3>2. CASE d = old
      BY <3>1, <3>2, <2>1
    <3>3. CASE d # old
      <4>1. d \in Free /\ d # f
        BY <3>3, <1>12
      <4>2. d \notin opened
        BY <4>1, OnlyHole
      <4>3. g # 0
        BY <1>1 DEF Tidy
      <4>4. g \in opened
        BY <3>1, <4>3, <1>1
      <4>5. g < d
        BY <4>1, <4>2, <4>4 DEF Tidy
      <4>6. QED
        BY <4>5, <2>1
    <3>4. QED
      BY <3>2, <3>3
  <2>4. QED
    BY <2>2, <2>3
<1>14. QED
  BY <1>7, <1>8, <1>9, <1>10, <1>11, <1>13 DEF Tidy

LEMMA CopyContents ==
  ASSUME TypeOK, Making, Tidy, Contents, LowOpen, NEW f \in Free, Copy(f),
         UNCHANGED command, redi.type = "doc" => is_last_here
  PROVE  Contents'
<1> DEFINE old == group[redi.fd]
           x0 == redi.fd
           Now(D) == {k \in Made' : list[k].fd \in D}
<1>1. /\ f \in Fd
      /\ \A x \in Numbers : group[x] # f
      /\ old = 0 \/ old \in opened
      /\ group' = [group EXCEPT ![x0] = f]
      /\ opened' = opened \cup {f}
      /\ Advance
  BY CopyShape
<1>2. \A x \in Fd : Table'[x] = IF x = old /\ x # 0 THEN CLOSED
                                ELSE IF x \in {f, x0} THEN at ELSE Table[x]
  BY CopyShape
<1>3. /\ x0 \in Numbers /\ x0 \in Fd /\ at \in Int
      /\ group \in [Numbers -> Fd] /\ opened \subseteq Fd
  BY RediFacts DEF TypeOK, Numbers
<1>4. Made' = Made \cup {at} /\ \A k \in Made : k < at
  BY <1>1, MadeNext
<1>5. list' = list /\ before' = before /\ list[at].fd = x0 /\ old = group[x0]
  BY DEF command, redi
<1> HIDE DEF old, x0
<1>6. \A D : /\ x0 \in D => Now(D) = MadeFor(D) \cup {at}
             /\ x0 \notin D => Now(D) = MadeFor(D)
  BY <1>4, <1>5 DEF MadeFor
<1> HIDE DEF Now
<1>7. \A D : x0 \in D => IsLast(at, Now(D)) /\ Now(D) # {}
  <2>1. \A D : \A k \in MadeFor(D) : k <= at
    BY <1>3, <1>4 DEF MadeFor, Made
  <2>2. QED
    BY <1>3, <1>6, <2>1 DEF IsLast
<1>8. ASSUME NEW d \in Fd \ opened'
      PROVE  IF Now({d}) = {} THEN Table'[d] = before'[d]
             ELSE IsLast(Table'[d], Now({d}))
  <2>1. d \in Fd /\ d \notin opened /\ d # f
    BY <1>1
  <2>2. Table'[d] = IF d = x0 THEN at ELSE Table[d]
    BY <2>1, <1>1, <1>2
  <2>3. CASE d = x0
    BY <2>2, <2>3, <1>7
  <2>4. CASE d # x0
    <3>1. Now({d}) = MadeFor({d}) /\ Table'[d] = Table[d] /\ before'[d] = before[d]
      BY <2>2, <2>4, <1>5, <1>6
    <3>2. QED
      BY <2>1, <3>1 DEF Contents
  <2>5. QED
    BY <2>3, <2>4
<1>9. ASSUME group'[STDIN] # 0
      PROVE  IsLast(Table'[group'[STDIN]], Now({group'[STDIN], STDIN}))
  <2>1. STDIN \in Numbers
    BY DEF STDIN, Numbers
  <2> DEFINE g == group'[STDIN]
  <2>2. CASE x0 = STDIN
    <3>1. g = f /\ f # old
      <4>1. group[x0] # f
        BY <1>1, <1>3
      <4>2. QED
        BY <2>1, <2>2, <4>1, <1>1, <1>3, <1>5
    <3>2. Table'[g] = at
      BY <3>1, <1>1, <1>2
    <3>3. QED
      BY <2>2, <3>2, <1>7
  <2>3. CASE x0 # STDIN
    <3>1. g = group[STDIN] /\ g \in Fd /\ g # f /\ g # old /\ group[STDIN] # 0
      <4>1. g = group[STDIN]
        BY <2>1, <2>3, <1>1, <1>3
      <4>2. QED
        BY <2>1, <2>3, <4>1, <1>1, <1>3, <1>5, <1>9 DEF Tidy
    <3>2. Table'[g] = IF g = x0 THEN at ELSE Table[g]
      BY <3>1, <1>2
    <3>3. CASE g = x0
      BY <3>2, <3>3, <1>7
    <3>4. CASE g # x0
      <4>1. Now({g, STDIN}) = MadeFor({g, STDIN})
        BY <1>6, <2>3, <3>4
      <4>2. IsLast(Table[g], MadeFor({g, STDIN}))
        BY <3>1 DEF Contents
      <4>3. QED
        BY <3>2, <3>4, <4>1, <4>2
    <3>5. QED
      BY <3>3, <3>4
  <2>4. QED
    BY <2>2, <2>3
<1>10. QED
  <2>1. \A D : {k \in Made' : list'[k].fd \in D} = Now(D)
    BY <1>5 DEF Now
  <2>2. QED
    BY <1>8, <1>9, <2>1 DEF Contents, MadeFor
-----------------------------------------------------------------------------
LEMMA InitApplied == Init => AppliedInv
<1> SUFFICES ASSUME Init
             PROVE  AppliedInv
  OBVIOUS
<1>1. LowOpen
  BY Constants DEF Init, LowOpen, Process, TERMINAL, CLOSED, Fd
<1>2. Progress /\ Orderly /\ Applied
  BY DEF Init, Progress, Orderly, Applied
<1>3. QED
  BY <1>1, <1>2 DEF AppliedInv

LEMMA StepLow == TypeOK /\ LowOpen /\ [Next]_vars => LowOpen'
<1> SUFFICES ASSUME TypeOK, LowOpen, [Next]_vars
             PROVE  LowOpen'
  OBVIOUS
<1> USE DEF command
<1>0. /\ 0..2 \subseteq Fd /\ Save \notin 0..2 /\ Save + 1 \notin 0..2
      /\ table \in [Process -> [Fd -> Object]] /\ where \in Process
      /\ Process = {"shell", "child"}
  BY DEF Fd, TypeOK, Process
<1>1. CASE EnterBuiltin \/ EnterCommand
  <2>1. \A d \in 0..2 : Inherited[d] # CLOSED
    BY <1>0 DEF LowOpen, Inherited, EARLIER, CLOSED
  <2>2. CASE EnterBuiltin
    <3>1. \A d \in 0..2 : before'[d] # CLOSED
      BY <1>0, <2>1, <2>2, InheritedFacts DEF EnterBuiltin
    <3>2. table'["shell"] = before' /\ where' = "shell"
      BY <1>0, <2>2 DEF EnterBuiltin
    <3>3. QED
      BY <3>1, <3>2 DEF LowOpen
  <2>3. CASE EnterCommand
    BY <1>0, <2>1, <2>3 DEF EnterCommand, LowOpen
  <2>4. QED
    BY <1>1, <2>2, <2>3
<1>2. ASSUME Making, NEW f \in Free, Copy(f), UNCHANGED <<command, strayed>>
      PROVE  LowOpen'
  <2> DEFINE u == [Table EXCEPT ![f] = at, ![redi.fd] = at]
             old == group[redi.fd]
  <2>1. f \in Fd /\ redi.fd \in Fd /\ at # CLOSED /\ Table \in [Fd -> Object]
    BY <1>2, RediFacts DEF Free, TypeOK, Table
  <2>2. /\ u \in [Fd -> Object \cup {at}]
        /\ \A d \in 0..2 : Table[d] # CLOSED => u[d] # CLOSED
    BY <1>0, <2>1
  <2> HIDE DEF u, old
  <2>3. \/ table' = [table EXCEPT ![where] = u]
        \/ old > 2 /\ table' = [table EXCEPT ![where] = [u EXCEPT ![old] = CLOSED]]
    BY <1>2 DEF Copy, u, old
  <2>4. \A d \in 0..2 : Table[d] # CLOSED => table'[where][d] # CLOSED
    <3>1. CASE table' = [table EXCEPT ![where] = u]
      BY <1>0, <2>2, <3>1
    <3>2. CASE old > 2 /\ table' = [table EXCEPT ![where] = [u EXCEPT ![old] = CLOSED]]
      <4>1. table'[where] = [u EXCEPT ![old] = CLOSED] /\ old \notin 0..2
        BY <1>0, <3>2
      <4>2. QED
        BY <1>0, <2>2, <4>1
    <3>3. QED
      BY <2>3, <3>1, <3>2
  <2>5. \A p \in Process : p # where => table'[p] = table[p]
    BY <1>0, <2>3
  <2>6. QED
    BY <1>0, <1>2, <2>4, <2>5 DEF LowOpen, Table
<1>3. CASE OpenFile
  BY <1>2, <1>3 DEF OpenFile
<1>4. CASE OpenFails \/ TooLarge
  BY <1>4 DEF OpenFails, TooLarge, LowOpen
<1>5. CASE OpenDoc
  BY <1>2, <1>5 DEF OpenDoc, LowOpen
<1>6. CASE DocFails
  <2>1. at # CLOSED
    BY <1>6, RediFacts DEF DocFails
  <2>2. CASE UNCHANGED table
    BY <1>6, <2>2 DEF DocFails, LowOpen
  <2>3. ASSUME NEW left,
               table' = [table EXCEPT ![where] =
                           [d \in Fd |-> IF d \in left THEN at ELSE Table[d]]]
        PROVE  \A p \in Process, d \in 0..2 : table[p][d] # CLOSED => table'[p][d] # CLOSED
    BY <1>0, <2>1, <2>3 DEF Table
  <2>4. QED
    BY <1>0, <1>6, <2>2, <2>3 DEF DocFails, LowOpen
<1>7. CASE CloseOriginals
  <2>1. PICK stray \in {0} \cup 3..(NFds - 1) :
          table' = [table EXCEPT ![where] =
                      [d \in Fd |-> IF d > 2 /\ d \in Originals \cup {stray}
                                    THEN CLOSED ELSE Table[d]]]
    BY <1>7 DEF CloseOriginals
  <2>2. \A d \in 0..2 : ~(d > 2)
    OBVIOUS
  <2>3. \A p \in Process, d \in 0..2 : table'[p][d] = table[p][d]
    BY <1>0, <2>1, <2>2 DEF Table
  <2>4. QED
    BY <1>0, <1>7, <2>3 DEF CloseOriginals, LowOpen
<1>8. CASE BuiltinReturns \/ BuiltinFails
  <2>1. where = "shell" /\ where' = "shell"
    BY <1>8 DEF BuiltinReturns, BuiltinFails, Finish
  <2>2. PutBack \in [Fd -> Object] /\ \A d \in 0..2 : PutBack[d] # CLOSED
    BY <1>0, <2>1, PutBackFacts DEF PutBack, LowOpen, Table
  <2>3. \A d \in 0..2 : table'["shell"][d] = PutBack[d]
    BY <1>0, <1>8, <2>2 DEF BuiltinReturns, BuiltinFails
  <2>4. QED
    BY <2>1, <2>2, <2>3 DEF LowOpen
<1>9. CASE ChildEnds
  BY <1>0, <1>9 DEF ChildEnds, Finish, LowOpen
<1>10. CASE UNCHANGED vars
  BY <1>10 DEF vars, LowOpen
<1>11. QED
  BY <1>1, <1>3, <1>4, <1>5, <1>6, <1>7, <1>8, <1>9, <1>10 DEF Next

LEMMA StepProgress == TypeOK /\ Progress /\ [Next]_vars => Progress'
<1> SUFFICES ASSUME TypeOK, Progress, [Next]_vars
             PROVE  Progress'
  OBVIOUS
<1> USE DEF command
<1>1. ASSUME Making, Advance \/ GiveUp, UNCHANGED list
      PROVE  Progress'
  BY <1>1, RediFacts DEF Advance, GiveUp, Progress, Making
<1>2. CASE OpenFile
  <2>1. Advance \/ GiveUp
    BY <1>2 DEF OpenFile, Copy
  <2>2. QED
    BY <1>1, <1>2, <2>1 DEF OpenFile
<1>3. CASE OpenDoc
  <2>1. Advance \/ GiveUp
    BY <1>3 DEF OpenDoc, Copy
  <2>2. QED
    BY <1>1, <1>3, <2>1 DEF OpenDoc
<1>4. CASE OpenFails \/ DocFails
  BY <1>1, <1>4 DEF OpenFails, DocFails
<1>5. CASE EnterBuiltin \/ EnterCommand
  BY <1>5 DEF EnterBuiltin, EnterCommand, Enter, Progress
<1>6. CASE TooLarge \/ CloseOriginals
  BY <1>6 DEF TooLarge, CloseOriginals, Progress
<1>7. CASE BuiltinReturns \/ BuiltinFails \/ ChildEnds
  BY <1>7 DEF BuiltinReturns, BuiltinFails, ChildEnds, Finish, Progress
<1>8. CASE UNCHANGED vars
  BY <1>8 DEF vars, Progress
<1>9. QED
  BY <1>2, <1>3, <1>4, <1>5, <1>6, <1>7, <1>8 DEF Next

LEMMA StepOrderly ==
  TypeOK /\ LowOpen /\ Progress /\ Orderly /\ [Next]_vars => Orderly'
<1> SUFFICES ASSUME TypeOK, LowOpen, Progress, Orderly, [Next]_vars,
                    pc' \in {"redirect", "close"}, ~error'
             PROVE  Tidy' /\ Contents'
  BY DEF Orderly
<1>1. CASE EnterBuiltin \/ EnterCommand
  <2>1. /\ opened' = {} /\ at' = 1
        /\ \A x \in Numbers : group'[x] = 0
    BY <1>1 DEF EnterBuiltin, EnterCommand, Enter, Numbers
  <2>2. Table' = before'
    BY <1>1 DEF EnterBuiltin, EnterCommand, Table, TypeOK, Process
  <2>3. Made' = {}
    <3>1. 1..(at' - 1) = {}
      BY <2>1
    <3>2. QED
      BY <3>1 DEF Made
  <2>4. Tidy'
    BY <2>1 DEF Tidy
  <2>5. Contents'
    <3>1. STDIN \in Numbers
      BY DEF STDIN, Numbers
    <3>2. group'[STDIN] = 0
      BY <2>1, <3>1
    <3>3. QED
      BY <2>2, <2>3, <3>2 DEF Contents, MadeFor
  <2>6. QED
    BY <2>4, <2>5
<1>2. ASSUME Making
      PROVE  Tidy /\ Contents
  BY <1>2 DEF Making, Orderly, Progress
<1>3. CASE OpenFile
  <2>1. PICK f \in Free : Lowest(f) /\ Copy(f)
    BY <1>3 DEF OpenFile
  <2>2. Making /\ UNCHANGED command /\ redi.type # "doc"
    BY <1>3 DEF OpenFile
  <2>3. QED
    BY <1>2, <2>1, <2>2, CopyTidy, CopyContents
<1>4. CASE OpenDoc
  <2>1. Making /\ UNCHANGED command /\ redi.type = "doc"
    BY <1>4 DEF OpenDoc
  <2>2. PICK f \in Free : /\ Lowest(f)
                          /\ \/ is_last_here /\ Copy(f)
                             \/ ~is_last_here /\ Advance /\ UNCHANGED <<table, group, opened>>
    BY <1>4 DEF OpenDoc
  <2>3. CASE is_last_here /\ Copy(f)
    BY <1>2, <2>1, <2>2, <2>3, CopyTidy, CopyContents
  <2>4. CASE ~is_last_here /\ Advance /\ UNCHANGED <<table, group, opened>>
    <3>1. Made' = Made /\ UNCHANGED <<table, group, opened, where, list, before>>
      BY <2>1, <2>4, MadeNext DEF command
    <3>2. UNCHANGED <<Table, Free>>
      BY <3>1 DEF Table, Free
    <3>3. Tidy'
      BY <1>2, <2>1, <3>1, <3>2 DEF Tidy
    <3>4. Contents'
      BY <1>2, <2>1, <3>1, <3>2 DEF Contents, MadeFor
    <3>5. QED
      BY <3>3, <3>4
  <2>5. QED
    BY <2>2, <2>3, <2>4
<1>5. CASE OpenFails \/ DocFails \/ TooLarge
  BY <1>5 DEF OpenFails, DocFails, GiveUp, TooLarge
<1>6. CASE CloseOriginals \/ BuiltinReturns \/ BuiltinFails \/ ChildEnds
  BY <1>6 DEF CloseOriginals, BuiltinReturns, BuiltinFails, ChildEnds, Finish
<1>7. CASE UNCHANGED vars
  <2>1. UNCHANGED <<pc, error, where, list, at, table, group, before, opened>>
    BY <1>7 DEF vars
  <2>2. Table' = Table
    BY <2>1 DEF Table
  <2>3. Free' = Free
    BY <2>2 DEF Free
  <2>4. Made' = Made
    BY <2>1, Zenon DEF Made
  <2>5. Tidy /\ Contents
    BY <2>1 DEF Orderly
  <2>6. QED
    BY <2>1, <2>2, <2>3, <2>4, <2>5 DEF Tidy, Contents, MadeFor
<1>8. QED
  BY <1>1, <1>3, <1>4, <1>5, <1>6, <1>7 DEF Next

\* The documents read in vain change nothing: each comes before another one.
LEMMA LastMade ==
  ASSUME TypeOK, at = Len(list) + 1, NEW D
  PROVE  /\ MadeFor(D) = {} => LastFor(D) = 0
         /\ \A k : IsLast(k, MadeFor(D)) => LastFor(D) = k /\ k > 0
<1> DEFINE n == Len(list)
           K == {k \in 1..n : list[k].fd \in D}
           Docs == {k \in 1..n : list[k].type = "doc"}
<1>1. n \in Nat /\ 1..(at - 1) = 1..n
  BY DEF TypeOK
<1>2. \A k \in 1..n : list[k] \in Redirections
  BY DEF TypeOK
<1>3. MadeFor(D) \subseteq K
  BY <1>1 DEF MadeFor, Made
<1>4. ASSUME NEW j \in K
      PROVE  \E m \in MadeFor(D) : j <= m
  <2>1. CASE j \in Made
    BY <2>1 DEF MadeFor
  <2>2. CASE j \notin Made
    <3>1. j \in Docs /\ \E i \in Docs : i > j
      BY <1>1, <2>2 DEF Made
    <3>2. Docs \in SUBSET (1..n) /\ Docs # {}
      BY <3>1
    <3>3. PICK m \in Docs : IsLast(m, Docs)
      BY <1>1, <3>2, LastOne
    <3>4. m \in Made
      BY <1>1, <3>3 DEF Made, IsLast
    <3>5. list[m].fd = STDIN /\ list[j].fd = STDIN
      BY <1>2, <3>1, <3>3 DEF Redirections
    <3>6. m \in MadeFor(D)
      BY <3>4, <3>5 DEF MadeFor
    <3>7. QED
      BY <3>1, <3>3, <3>6 DEF IsLast
  <2>3. QED
    BY <2>1, <2>2
<1>5. LastFor(D) = IF K = {} THEN 0 ELSE CHOOSE k \in K : \A j \in K : j <= k
  BY DEF LastFor
<1>6. ASSUME MadeFor(D) = {}
      PROVE  LastFor(D) = 0
  BY <1>4, <1>5, <1>6
<1>7. ASSUME NEW k, IsLast(k, MadeFor(D))
      PROVE  LastFor(D) = k /\ k > 0
  <2>1. k \in K /\ K \subseteq Nat /\ k > 0
    BY <1>3, <1>7 DEF IsLast
  <2>2. \A j \in K : j <= k
    <3>1. \A m \in MadeFor(D) : m <= k /\ m \in Nat
      BY <1>3, <1>7, <2>1 DEF IsLast
    <3>2. QED
      BY <1>4, <2>1, <3>1
  <2> HIDE DEF K
  <2>3. LastFor(D) \in K /\ \A j \in K : j <= LastFor(D)
    BY <1>5, <2>1, <2>2
  <2>4. LastFor(D) \in Nat /\ k \in Nat /\ LastFor(D) <= k /\ k <= LastFor(D)
    BY <2>1, <2>2, <2>3
  <2>5. QED
    BY <2>1, <2>4
<1>8. QED
  BY <1>6, <1>7

\* Closing the originals takes away what a redirection was copied from, and
\* nothing else.
LEMMA CloseApplied ==
  ASSUME TypeOK, Progress, Orderly, CloseOriginals, ~error, where \notin strayed'
  PROVE  Applied'
<1>1. Tidy /\ Contents /\ at = Len(list) + 1
  BY DEF CloseOriginals, Orderly, Progress
<1>2. UNCHANGED <<where, list, before, group, opened>> /\ where \in Process
  BY DEF CloseOriginals, command, TypeOK
<1>3. PICK stray \in {0} \cup 3..(NFds - 1) :
        /\ table' = [table EXCEPT ![where] =
                       [d \in Fd |-> IF d > 2 /\ d \in Originals \cup {stray}
                                     THEN CLOSED ELSE Table[d]]]
        /\ strayed' = IF stray = 0 THEN strayed ELSE strayed \cup {where}
  BY DEF CloseOriginals
<1>4. stray = 0
  BY <1>3
<1>5. \A d \in Fd : Table'[d] = IF d > 2 /\ d \in Originals THEN CLOSED ELSE Table[d]
  <2>1. Table' = [d \in Fd |-> IF d > 2 /\ d \in Originals \cup {stray}
                               THEN CLOSED ELSE Table[d]]
    BY <1>2, <1>3 DEF Table, TypeOK
  <2>2. QED
    BY <1>4, <2>1
<1>6. Originals \subseteq opened \cup {0} /\ group[STDIN] \notin Originals \ {0}
  BY <1>1 DEF Tidy, Originals, Numbers, STDIN
<1>7. ASSUME NEW d \in Fd
      PROVE  Table'[d] = CASE d \in opened /\ d = group[STDIN] -> LastFor({d, STDIN})
                           [] d \in opened /\ d # group[STDIN] -> CLOSED
                           [] d \notin opened /\ LastFor({d}) > 0 -> LastFor({d})
                           [] d \notin opened /\ LastFor({d}) = 0 -> before[d]
  <2>1. d \in opened => d > 2
    BY <1>1 DEF Tidy, Fd
  <2>2. CASE d \in opened /\ d = group[STDIN]
    <3>1. Table'[d] = Table[d] /\ d # 0
      BY <1>5, <1>6, <2>1, <2>2
    <3>2. LastFor({d, STDIN}) = Table[d]
      BY <1>1, <2>2, <3>1, LastMade DEF Contents
    <3>3. QED
      BY <2>2, <3>1, <3>2
  <2>3. CASE d \in opened /\ d # group[STDIN]
    <3>1. Table[d] = CLOSED \/ d \in Originals
      BY <1>1, <2>3 DEF Tidy, Originals, Numbers, STDIN
    <3>2. QED
      BY <1>5, <2>1, <2>3, <3>1
  <2>4. CASE d \notin opened
    <3>1. Table'[d] = Table[d]
      BY <1>5, <1>6, <2>4
    <3>2. IF MadeFor({d}) = {} THEN Table[d] = before[d]
          ELSE IsLast(Table[d], MadeFor({d}))
      BY <1>1, <2>4 DEF Contents
    <3>3. /\ MadeFor({d}) = {} => LastFor({d}) = 0
          /\ MadeFor({d}) # {} => LastFor({d}) = Table[d] /\ Table[d] > 0
      BY <1>1, <3>2, LastMade
    <3>4. QED
      BY <2>4, <3>1, <3>2, <3>3
  <2>5. QED
    BY <2>2, <2>3, <2>4
<1>8. \A D : LastFor(D)' = LastFor(D)
  BY <1>2 DEF LastFor
<1>9. QED
  BY <1>2, <1>7, <1>8 DEF Applied

LEMMA StepApplied == TypeOK /\ AppliedInv /\ [Next]_vars => AppliedInv'
<1> SUFFICES ASSUME TypeOK, AppliedInv, [Next]_vars
             PROVE  AppliedInv'
  OBVIOUS
<1>1. LowOpen /\ Progress /\ Orderly /\ Applied
  BY DEF AppliedInv
<1>2. LowOpen' /\ Progress' /\ Orderly'
  BY <1>1, StepLow, StepProgress, StepOrderly
<1>3. Applied'
  <2> SUFFICES ASSUME pc' = "run", where' \notin strayed'
               PROVE  Applied'
    BY DEF Applied
  <2>1. CASE CloseOriginals
    <3>1. ~error /\ where \notin strayed'
      BY <2>1 DEF CloseOriginals, command
    <3>2. QED
      BY <1>1, <2>1, <3>1, CloseApplied
  <2>2. CASE UNCHANGED vars
    <3>1. UNCHANGED <<pc, where, list, table, group, before, opened, strayed>>
      BY <2>2 DEF vars
    <3>2. UNCHANGED Table /\ \A D : LastFor(D)' = LastFor(D)
      BY <3>1 DEF Table, LastFor
    <3>3. QED
      BY <1>1, <3>1, <3>2 DEF Applied
  <2>3. QED
    BY <2>1, <2>2
    DEF Next, EnterBuiltin, EnterCommand, Enter, OpenFile, OpenFails, OpenDoc, DocFails,
        Copy, Advance, GiveUp, TooLarge, BuiltinReturns, BuiltinFails, ChildEnds, Finish
<1>4. QED
  BY <1>2, <1>3 DEF AppliedInv

\* When a command runs, every one of its descriptors is what the last redirection
\* that names it has made of it, or what it was before, and the numbers used on
\* the way are closed but for that of STDIN.
THEOREM RedirectionsApplied == Spec => []Applied
<1>1. Init => AppliedInv
  BY InitApplied
<1>2. TypeOK /\ AppliedInv /\ [Next]_vars => AppliedInv'
  BY StepApplied
<1>3. AppliedInv => Applied
  BY DEF AppliedInv
<1>4. QED
  BY <1>1, <1>2, <1>3, TypeCorrect, PTL DEF Spec
=============================================================================
