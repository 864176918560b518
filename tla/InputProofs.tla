---------------------------- MODULE InputProofs ----------------------------
(***************************************************************************)
(* Theorems about what the shell reads.                                    *)
(*                                                                         *)
(* Module HereDoc: documents and pipes of any size and any number of       *)
(* here-documents of a command.                                            *)
(*                                                                         *)
(* Module SyntaxCheck: lines of any length.  ListShape says what every     *)
(* list of the grammar is like, SoundList that what the scan can tell of a *)
(* line is enough to make it one; ScanRight is what the flags of the scan  *)
(* mean, position by position.                                             *)
(***************************************************************************)
EXTENDS HereDoc, SyntaxCheck,
        FiniteSetTheorems, SequenceTheorems, WellFoundedInduction, TLAPS

\* Whoever has the flag up has it from a Ctrl-C that still counts: the shell
\* and the process that makes the redirections from the prompt, the reading
\* child from there or from the document.
FlagsCount ==
  /\ is_ctrlc \in [Process -> BOOLEAN]
  /\ where \in {"shell", "runner"}
  /\ is_ctrlc["shell"] => "prompt" \in interrupted
  /\ pc # "prompt" /\ is_ctrlc[where] => "prompt" \in interrupted
  /\ reader # "none" /\ is_ctrlc["reader"] => interrupted # {}
  /\ pc # "prompt" /\ where = "runner" => ~is_ctrlc["shell"]

\* The lines of the document are in the pipe, but for one the reading child has
\* in its hands, and those it has thrown away after a Ctrl-C.
LinesCount ==
  /\ typed \in Nat /\ buf \in Nat
  /\ reader # "none" <=> pc = "wait"
  /\ reader \in {"none", "forked", "ask", "write", "ended"}
  /\ interrupted = {} =>
       /\ pc = "wait" => typed = IF reader = "write" THEN buf + 1 ELSE buf
       /\ pc = "run" => typed = buf

IInv == FlagsCount /\ LinesCount
-----------------------------------------------------------------------------
LEMMA InitInvariant == Init => IInv
<1> SUFFICES ASSUME Init
             PROVE  IInv
  OBVIOUS
<1>1. FlagsCount
  BY DEF Init, FlagsCount, Process
<1>2. LinesCount
  BY DEF Init, LinesCount
<1>3. QED
  BY <1>1, <1>2 DEF IInv

\* No step raises a flag for which no Ctrl-C counts, and none stops counting
\* before its flag is down.
LEMMA StepFlags == FlagsCount /\ LinesCount /\ [Next]_vars => FlagsCount'
<1> SUFFICES ASSUME FlagsCount, LinesCount, [Next]_vars
             PROVE  FlagsCount'
  OBVIOUS
<1> USE DEF FlagsCount, LinesCount, command, content, Process
<1>1. CASE EnterBuiltin
  BY <1>1 DEF EnterBuiltin, Entered
<1>2. CASE EnterCommand
  BY <1>2 DEF EnterCommand, Entered
<1>3. CASE CtrlCAtPrompt
  BY <1>3 DEF CtrlCAtPrompt
<1>4. CASE heredoc_handler
  BY <1>4 DEF heredoc_handler
<1>5. CASE Open
  BY <1>5 DEF Open
<1>6. CASE OpenFails
  BY <1>6 DEF OpenFails, Over
<1>7. CASE Close
  BY <1>7 DEF Close
<1>8. CASE CommandEnds
  BY <1>8 DEF CommandEnds, Over
<1>9. CASE Ask
  BY <1>9 DEF Ask
<1>10. CASE ReadText
  BY <1>10 DEF ReadText
<1>11. CASE ReadEnd
  BY <1>11 DEF ReadEnd
<1>12. CASE WriteLine
  BY <1>12 DEF WriteLine
<1>13. CASE UNCHANGED vars
  BY <1>13 DEF vars
<1>14. QED
  BY <1>1, <1>2, <1>3, <1>4, <1>5, <1>6, <1>7, <1>8, <1>9, <1>10, <1>11, <1>12,
     <1>13 DEF Next, User, RunnerStep, ReaderStep

\* Every line that is read goes into the pipe before the next one is read.
LEMMA StepLines == IInv /\ [Next]_vars => LinesCount'
<1> SUFFICES ASSUME FlagsCount, LinesCount, [Next]_vars
             PROVE  LinesCount'
  BY DEF IInv
<1> USE DEF LinesCount, command, content
<1>1. CASE EnterBuiltin \/ EnterCommand
  BY <1>1 DEF EnterBuiltin, EnterCommand, Entered
<1>2. CASE CtrlCAtPrompt \/ heredoc_handler
  BY <1>2 DEF CtrlCAtPrompt, heredoc_handler
<1>3. CASE Open
  BY <1>3 DEF Open
<1>4. CASE OpenFails \/ CommandEnds
  BY <1>4 DEF OpenFails, CommandEnds, Over
<1>5. CASE Close
  BY <1>5 DEF Close
<1>6. CASE Ask
  BY <1>6 DEF Ask
<1>7. CASE ReadText
  <2>1. interrupted = {} => reader' = "write"
    BY <1>7 DEF ReadText, FlagsCount
  <2>2. QED
    BY <1>7, <2>1 DEF ReadText
<1>8. CASE ReadEnd
  BY <1>8 DEF ReadEnd
<1>9. CASE WriteLine
  BY <1>9 DEF WriteLine
<1>10. CASE UNCHANGED vars
  BY <1>10 DEF vars
<1>11. QED
  BY <1>1, <1>2, <1>3, <1>4, <1>5, <1>6, <1>7, <1>8, <1>9, <1>10
     DEF Next, User, RunnerStep, ReaderStep
-----------------------------------------------------------------------------
\* As long as a document is to be opened or read, there is one left.
Typed == TypeOK /\ (pc \in {"open", "wait"} => docs >= 1)

LEMMA InitTyped == Init => Typed
BY HereDocAssumption DEF Init, Typed, TypeOK, Process, Inputs

LEMMA StepTyped == Typed /\ [Next]_vars => Typed'
<1> SUFFICES ASSUME Typed, [Next]_vars
             PROVE  Typed'
  OBVIOUS
<1> USE HereDocAssumption DEF Typed, TypeOK, command, content, Process, Inputs
<1>1. CASE EnterBuiltin
  BY <1>1 DEF EnterBuiltin, Entered
<1>2. CASE EnterCommand
  BY <1>2 DEF EnterCommand, Entered
<1>3. CASE CtrlCAtPrompt \/ heredoc_handler
  BY <1>3 DEF CtrlCAtPrompt, heredoc_handler
<1>4. CASE Open
  BY <1>4 DEF Open
<1>5. CASE OpenFails
  <2>1. is_ctrlc' \in [Process -> BOOLEAN]
    BY <1>5, Zenon DEF OpenFails
  <2>2. pc = "open" /\ pc' = "prompt" /\ docs' = 0 /\ UNCHANGED <<reader, where, stdin, upstream, typed, buf>>
    BY <1>5 DEF OpenFails, Over
  <2>3. interrupted' \subseteq {"prompt", "document"}
    BY <1>5 DEF OpenFails, Over
  <2>4. QED
    BY <2>1, <2>2, <2>3
<1>11. CASE CommandEnds
  <2>1. pc = "run" /\ pc' = "prompt" /\ docs' = 0
    BY <1>11 DEF CommandEnds, Over
  <2>2. interrupted' \subseteq {"prompt", "document"}
    BY <1>11 DEF CommandEnds, Over
  <2>3. UNCHANGED <<where, stdin, upstream, is_ctrlc, reader, typed, buf>>
    BY <1>11 DEF CommandEnds
  <2>4. QED
    BY <2>1, <2>2, <2>3
<1>6. CASE Close
  BY <1>6 DEF Close
<1>7. CASE Ask
  BY <1>7 DEF Ask
<1>12. CASE WriteLine
  <2>1. buf' \in 0..Capacity
    BY <1>12 DEF WriteLine
  <2>2. reader = "write" /\ reader' \in {"ended", "ask"}
    BY <1>12 DEF WriteLine
  <2>3. UNCHANGED <<pc, where, stdin, upstream, docs, is_ctrlc, typed, interrupted>>
    BY <1>12 DEF WriteLine
  <2>4. QED
    BY <2>1, <2>2, <2>3
<1>8. CASE ReadText \/ ReadEnd
  <2>1. upstream' \in 0..MaxLines
    BY <1>8 DEF ReadText, ReadEnd, Line
  <2>2. typed' \in 0..MaxLines /\ reader # "none" /\ reader' \in {"ended", "write"}
    BY <1>8 DEF ReadText, ReadEnd
  <2>3. UNCHANGED <<pc, where, stdin, docs, is_ctrlc, buf, interrupted>>
    BY <1>8 DEF ReadText, ReadEnd
  <2>4. QED
    BY <2>1, <2>2, <2>3
<1>9. CASE UNCHANGED vars
  BY <1>9 DEF vars
<1>10. QED
  BY <1>1, <1>2, <1>3, <1>4, <1>5, <1>6, <1>7, <1>8, <1>9,
     <1>11, <1>12 DEF Next, User, RunnerStep, ReaderStep

\* The variables keep their types: the pipe never holds more than it can, and
\* no document is read that was not asked for.
THEOREM HereDocTypeCorrect == Spec => []TypeOK
<1>1. Typed => TypeOK
  BY DEF Typed
<1>2. QED
  BY InitTyped, StepTyped, <1>1, PTL DEF Spec
-----------------------------------------------------------------------------
\* The inductive invariant holds in every state of every run.
THEOREM Invariant == Spec => []IInv
<1>1. Init => IInv
  BY InitInvariant
<1>2. IInv /\ [Next]_vars => IInv'
  BY StepFlags, StepLines DEF IInv
<1>3. QED
  BY <1>1, <1>2, PTL DEF Spec

\* Documents of any length arrive whole where no Ctrl-C counts.
THEOREM Intact == Spec => []DocumentIntact
<1>1. IInv => DocumentIntact
  BY DEF IInv, LinesCount, DocumentIntact
<1>2. QED
  BY <1>1, Invariant, PTL

\* However many here-documents are interrupted, the shell's own flag is up only
\* after a Ctrl-C at its prompt.
THEOREM FlagOfDocument == Spec => []FlagStaysInDocument
<1>1. IInv => FlagStaysInDocument
  BY DEF IInv, FlagsCount, FlagStaysInDocument
<1>2. QED
  BY <1>1, Invariant, PTL
-----------------------------------------------------------------------------
(* What is behind HangsOnlySo: the two processes always have a step to     *)
(* take, but for the two ways it names, and every step is one less.        *)

\* The guards of RunnerStep and ReaderStep.
RunnerCan == pc \in {"open", "run"} \/ (pc = "wait" /\ reader = "ended")
ReaderCan == \/ reader = "forked"
             \/ reader = "ask" /\ (stdin # "pipe" \/ upstream > 0)
             \/ reader = "write" /\ buf < Capacity

NoThirdWay == pc # "prompt" => RunnerCan \/ ReaderCan \/ Overfull \/ OwnWriter

\* The steps the reading child has left at most, those of a document, and those
\* of the command.
ReaderLeft == CASE reader = "forked" -> 2 * MaxLines + 3
                [] reader = "ask"    -> 2 * (MaxLines - typed) + 2
                [] reader = "write"  -> 2 * (MaxLines - typed) + 3
                [] reader = "ended"  -> 1
                [] reader = "none"   -> 0
Document == 2 * MaxLines + 5
Left == CASE pc = "open"   -> docs * Document + 1
          [] pc = "wait"   -> (docs - 1) * Document + ReaderLeft + 1
          [] pc = "run"    -> 1
          [] pc = "prompt" -> 0

Nearer == /\ RunnerStep \/ ReaderStep => Left' < Left
          /\ heredoc_handler => Left' <= Left

\* One document more or less.
LEMMA OneDocument ==
  ASSUME NEW d \in Nat \ {0}
  PROVE  /\ Document \in Nat /\ Document >= 5 /\ Document = 2 * MaxLines + 5
         /\ (d - 1) * Document \in Nat /\ d * Document = (d - 1) * Document + Document
<1>1. Document \in Nat /\ Document >= 5 /\ Document = 2 * MaxLines + 5
  BY HereDocAssumption DEF Document
<1>2. \A k, m \in Nat : k * m \in Nat /\ (k + 1) * m = k * m + m
  OBVIOUS
<1>3. d - 1 \in Nat /\ (d - 1) + 1 = d
  OBVIOUS
<1>4. QED
  BY <1>1, <1>2, <1>3

LEMMA SomeLeft == Typed => Left \in Nat /\ (pc # "prompt" => Left > 0)
<1> SUFFICES ASSUME Typed
             PROVE  Left \in Nat /\ (pc # "prompt" => Left > 0)
  OBVIOUS
<1>1. ReaderLeft \in Nat
  BY HereDocAssumption DEF Typed, TypeOK, ReaderLeft
<1>2. pc \in {"open", "wait"} =>
        (docs - 1) * Document \in Nat /\ docs * Document \in Nat
  <2> HAVE pc \in {"open", "wait"}
  <2>1. docs \in Nat \ {0}
    BY HereDocAssumption DEF Typed, TypeOK
  <2>2. Document \in Nat /\ (docs - 1) * Document \in Nat
        /\ docs * Document = (docs - 1) * Document + Document
    BY <2>1, OneDocument
  <2>3. QED
    BY <2>2
<1>3. QED
  BY <1>1, <1>2 DEF Typed, TypeOK, Left

LEMMA StepNearer == Typed /\ [Next]_vars => Nearer
<1> SUFFICES ASSUME Typed
             PROVE  Nearer
  OBVIOUS
<1>1. /\ docs \in Nat /\ MaxLines \in Nat /\ typed \in 0..MaxLines
      /\ reader # "none" <=> pc = "wait"
      /\ pc \in {"open", "wait"} => docs >= 1
  BY HereDocAssumption DEF Typed, TypeOK
<1>2. docs >= 1 => /\ Document \in Nat /\ Document >= 5 /\ Document = 2 * MaxLines + 5
                   /\ (docs - 1) * Document \in Nat
                   /\ docs * Document = (docs - 1) * Document + Document
  BY <1>1, OneDocument
<1>3. CASE Open
  <2>1. /\ Left = docs * Document + 1
        /\ Left' = (docs - 1) * Document + (2 * MaxLines + 3) + 1
    BY <1>3 DEF Open, Left, ReaderLeft, Document
  <2>2. Left' < Left
    BY <1>1, <1>2, <1>3, <2>1 DEF Open
  <2>3. ~heredoc_handler
    BY <1>1, <1>3 DEF Open, heredoc_handler
  <2>4. QED
    BY <2>2, <2>3 DEF Nearer
<1>4. CASE OpenFails \/ CommandEnds
  <2>1. Left' = 0 /\ pc # "prompt"
    BY <1>4 DEF OpenFails, CommandEnds, Over, Left
  <2>2. Left' < Left /\ Left' <= Left
    BY <2>1, SomeLeft
  <2>3. QED
    BY <2>2 DEF Nearer
<1>5. CASE Close
  <2>1. pc = "wait" /\ reader = "ended" /\ docs' = docs - 1
        /\ pc' = IF docs > 1 THEN "open" ELSE "run"
    BY <1>5 DEF Close
  <2>2. Left = (docs - 1) * Document + 2
    BY <1>1, <1>2, <2>1 DEF Left, ReaderLeft
  <2>3. Left' = IF docs > 1 THEN (docs - 1) * Document + 1 ELSE 1
    BY <2>1 DEF Left, Document
  <2>4. Left' < Left /\ Left' <= Left
    BY <1>1, <1>2, <2>1, <2>2, <2>3
  <2>5. QED
    BY <2>4 DEF Nearer
<1>6. ASSUME ReaderStep \/ heredoc_handler
      PROVE  Nearer
  <2>1. pc = "wait" /\ pc' = "wait" /\ docs' = docs
    BY <1>1, <1>6 DEF ReaderStep, Ask, ReadText, ReadEnd, WriteLine, heredoc_handler
  <2>2. Left = (docs - 1) * Document + ReaderLeft + 1 /\ Left' = (docs - 1) * Document + ReaderLeft' + 1
    BY <2>1 DEF Left, Document
  <2>3. ReaderStep => ReaderLeft' < ReaderLeft
    <3>1. Ask => ReaderLeft' < ReaderLeft
      BY <1>1 DEF Ask, ReaderLeft, content
    <3>2. ReadText => ReaderLeft' < ReaderLeft
      BY <1>1 DEF ReadText, ReaderLeft
    <3>3. ReadEnd => ReaderLeft' < ReaderLeft
      BY <1>1 DEF ReadEnd, ReaderLeft
    <3>4. WriteLine => ReaderLeft' < ReaderLeft
      BY <1>1 DEF WriteLine, ReaderLeft
    <3>5. QED
      BY <3>1, <3>2, <3>3, <3>4 DEF ReaderStep
  <2>4. heredoc_handler => ReaderLeft' <= ReaderLeft
    BY <1>1 DEF heredoc_handler, ReaderLeft, content
  <2>5. ReaderLeft \in Nat /\ ReaderLeft' \in Nat
    <3>1. typed' \in 0..MaxLines
      BY <1>1, <1>6 DEF ReaderStep, Ask, ReadText, ReadEnd, WriteLine, heredoc_handler, content
    <3>2. /\ reader \in {"forked", "ask", "write", "ended", "none"}
          /\ reader' \in {"forked", "ask", "write", "ended", "none"}
      BY <1>6 DEF Typed, TypeOK, ReaderStep, Ask, ReadText, ReadEnd, WriteLine, heredoc_handler
    <3>3. ReaderLeft \in Nat
      BY <1>1, <3>2 DEF ReaderLeft
    <3>4. ReaderLeft' \in Nat
      BY <1>1, <3>1, <3>2 DEF ReaderLeft
    <3>5. QED
      BY <3>3, <3>4
  <2>6. /\ ReaderStep => Left' < Left
        /\ heredoc_handler => Left' <= Left
    <3>1. PICK X \in Nat : Left = X + ReaderLeft + 1 /\ Left' = X + ReaderLeft' + 1
      <4>1. (docs - 1) * Document \in Nat
        BY <1>1, <1>2, <2>1
      <4>2. QED
        BY <2>2, <4>1
    <3>2. \A k, m \in Nat : k <= m => X + k + 1 <= X + m + 1
      OBVIOUS
    <3>3. \A k, m \in Nat : k < m => X + k + 1 < X + m + 1
      OBVIOUS
    <3>4. ReaderStep => Left' < Left
      BY <2>3, <2>5, <3>1, <3>3
    <3>5. heredoc_handler => Left' <= Left
      BY <2>4, <2>5, <3>1, <3>2
    <3>6. QED
      BY <3>4, <3>5
  <2>7. ~RunnerStep
    BY <1>1, <1>6, <2>1 DEF RunnerStep, Open, OpenFails, Close, CommandEnds
  <2>8. QED
    BY <2>6, <2>7 DEF Nearer
<1>7. QED
  BY <1>3, <1>4, <1>5, <1>6 DEF Nearer, RunnerStep

\* A here-document waits for ever only for the end of a pipe it could write to,
\* or for a pipe to be read that is full: otherwise one of the two processes
\* can take a step.
THEOREM NoOtherHang == Spec => []NoThirdWay
<1>1. Typed => NoThirdWay
  BY HereDocAssumption DEF Typed, TypeOK, Inputs, NoThirdWay, RunnerCan, ReaderCan, Overfull, OwnWriter
<1>2. QED
  BY InitTyped, StepTyped, <1>1, PTL DEF Spec

\* Such a step leaves fewer to take before the next prompt, and a Ctrl-C no
\* more: a command with here-documents takes at most Left steps, a natural number.
THEOREM EveryStepIsNearer == Spec => [](Left \in Nat) /\ [][Nearer]_vars
<1>1. Typed => Left \in Nat
  BY SomeLeft
<1>2. Typed /\ [Next]_vars => [Nearer]_vars
  BY StepNearer
<1>3. QED
  BY InitTyped, StepTyped, <1>1, <1>2, PTL DEF Spec
-----------------------------------------------------------------------------
(***************************************************************************)
(* The syntax check.  Induction, and functions that are defined by it: the *)
(* three that make up the grammar are recursive functions on the readings, *)
(* and a text is longer than its parts.                                    *)
(***************************************************************************)

\* A set of numbers that holds 0 and what follows each of its members is all there is.
LEMMA Induction ==
  ASSUME NEW S \in SUBSET Nat, 0 \in S, \A n \in S : n + 1 \in S
  PROVE  S = Nat
<1> DEFINE T == Nat \ S
<1>1. ASSUME T # {}
      PROVE  FALSE
  <2>1. PICK m \in T : \A j \in T : ~(<<j, m>> \in OpToRel(<, Nat))
    BY <1>1, NatLessThanWellFounded, WFMin, Zenon
  <2>2. m # 0 /\ m - 1 \in Nat /\ m - 1 < m /\ (m - 1) + 1 = m
    OBVIOUS
  <2>3. m - 1 \notin T
    BY <2>1, <2>2 DEF OpToRel
  <2>4. QED
    BY <2>2, <2>3
<1>2. QED
  BY <1>1

\* A set of numbers that holds each one whose predecessors it holds is all there is.
LEMMA StrongInduction ==
  ASSUME NEW S \in SUBSET Nat, \A n \in Nat : (\A m \in 0..(n - 1) : m \in S) => n \in S
  PROVE  S = Nat
<1> DEFINE T == {n \in Nat : \A m \in 0..n : m \in S}
<1>1. 0 \in T
  OBVIOUS
<1>2. ASSUME NEW n \in T
      PROVE  n + 1 \in T
  <2>1. n + 1 \in S
    OBVIOUS
  <2>2. \A m \in 0..(n + 1) : m \in 0..n \/ m = n + 1
    OBVIOUS
  <2>3. QED
    BY <2>1, <2>2
<1> HIDE DEF T
<1>3. T \in SUBSET Nat
  BY DEF T
<1>4. T = Nat
  BY <1>1, <1>2, <1>3, Induction
<1>5. \A n \in Nat : n \in S
  <2>1. \A n \in Nat : n \in T /\ n \in 0..n
    BY <1>4
  <2>2. QED
    BY <2>1 DEF T
<1>6. QED
  BY <1>5

\* A set of numbers that is not empty has a least one.
LEMMA LeastOf ==
  ASSUME NEW S \in SUBSET Nat, S # {}
  PROVE  \E m \in S : \A n \in S : m <= n
<1> DEFINE T == Nat \ S
<1> SUFFICES ASSUME \A m \in S : \E n \in S : n < m
             PROVE  FALSE
  OBVIOUS
<1>1. \A n \in Nat : (\A m \in 0..(n - 1) : m \in T) => n \in T
  OBVIOUS
<1>2. T = Nat
  <2> HIDE DEF T
  <2>1. T \in SUBSET Nat
    BY DEF T
  <2>2. QED
    BY <1>1, <2>1, StrongInduction
<1>3. QED
  BY <1>2
-----------------------------------------------------------------------------
(* Recursive functions.                                                    *)

\* A rule that gives the value at a place from those at smaller ones ...
Descends(D, V, size, F) ==
  /\ V # {} /\ size \in [D -> Nat] /\ F \in [[D -> V] -> [D -> V]]
  /\ \A f, g \in [D -> V] : \A s \in D :
       (\A t \in D : size[t] < size[s] => f[t] = g[t]) => F[f][s] = F[g][s]

\* ... has a function that obeys it.
LEMMA FixedPoint ==
  ASSUME NEW D, NEW V, NEW size, NEW F, Descends(D, V, size, F)
  PROVE  \E f \in [D -> V] : f = F[f]
<1> USE DEF Descends
<1> DEFINE Upto(n) == {f \in [D -> V] : \A s \in D : size[s] < n => f[s] = F[f][s]}
<1>1. ASSUME NEW n \in Nat
      PROVE  Upto(n) # {}
  <2> DEFINE S == {m \in Nat : Upto(m) # {}}
  <2>1. 0 \in S
    <3>1. PICK v \in V : TRUE
      OBVIOUS
    <3>2. [s \in D |-> v] \in Upto(0)
      OBVIOUS
    <3>3. QED
      BY <3>2
  <2>2. ASSUME NEW m \in S
        PROVE  m + 1 \in S
    <3>1. PICK f \in [D -> V] : \A s \in D : size[s] < m => f[s] = F[f][s]
      OBVIOUS
    <3> DEFINE g == F[f]
    <3>2. g \in [D -> V]
      OBVIOUS
    <3>3. ASSUME NEW s \in D, size[s] < m + 1
          PROVE  g[s] = F[g][s]
      <4>1. \A t \in D : size[t] < size[s] => size[t] < m
        BY <3>3
      <4>2. \A t \in D : size[t] < size[s] => f[t] = g[t]
        BY <3>1, <4>1
      <4> HIDE DEF g
      <4>3. F[f][s] = F[g][s]
        BY <3>2, <4>2
      <4>4. QED
        BY <4>3 DEF g
    <3> HIDE DEF g
    <3>4. g \in Upto(m + 1)
      BY <3>2, <3>3
    <3>5. QED
      BY <3>4
  <2> HIDE DEF S
  <2>3. S = Nat
    <3>1. S \in SUBSET Nat
      BY DEF S
    <3>2. QED
      BY <2>1, <2>2, <3>1, Induction
  <2>4. QED
    BY <2>3 DEF S
<1>2. ASSUME NEW n \in Nat, NEW m \in Nat, NEW f \in Upto(n), NEW g \in Upto(m), NEW s \in D,
             size[s] < n, size[s] < m
      PROVE  f[s] = g[s]
  <2> DEFINE S == {k \in Nat : \A t \in D : size[t] = k /\ k < n /\ k < m => f[t] = g[t]}
  <2>1. ASSUME NEW k \in Nat, \A j \in 0..(k - 1) : j \in S
        PROVE  k \in S
    <3> SUFFICES ASSUME NEW t \in D, size[t] = k, k < n, k < m
                 PROVE  f[t] = g[t]
      OBVIOUS
    <3>1. \A u \in D : size[u] < k => size[u] \in 0..(k - 1) /\ size[u] < n /\ size[u] < m
      OBVIOUS
    <3>2. \A u \in D : size[u] < size[t] => f[u] = g[u]
      BY <2>1, <3>1
    <3>3. F[f][t] = F[g][t]
      BY <3>2
    <3>4. QED
      BY <3>3
  <2> HIDE DEF S
  <2>2. S = Nat
    <3>1. S \in SUBSET Nat
      BY DEF S
    <3>2. QED
      BY <2>1, <3>1, StrongInduction
  <2>3. QED
    BY <1>2, <2>2 DEF S
<1> DEFINE pick == [n \in Nat |-> CHOOSE f \in Upto(n) : TRUE]
           h    == [s \in D |-> pick[size[s] + 1][s]]
<1>3. \A n \in Nat : pick[n] \in Upto(n)
  BY <1>1
<1> HIDE DEF pick
<1>4. h \in [D -> V]
  BY <1>3
<1>5. ASSUME NEW s \in D
      PROVE  h[s] = F[h][s]
  <2> DEFINE f == pick[size[s] + 1]
  <2>1. f \in Upto(size[s] + 1) /\ h[s] = f[s] /\ size[s] + 1 \in Nat
    BY <1>3
  <2>2. ASSUME NEW t \in D, size[t] < size[s]
        PROVE  h[t] = f[t]
    <3>1. pick[size[t] + 1] \in Upto(size[t] + 1) /\ h[t] = pick[size[t] + 1][t]
      BY <1>3
    <3>2. size[t] < size[t] + 1 /\ size[t] < size[s] + 1 /\ size[t] + 1 \in Nat
      BY <2>2
    <3> HIDE DEF Upto, h, f
    <3>3. QED
      BY <1>2, <2>1, <3>1, <3>2
  <2>3. f \in [D -> V] /\ f[s] = F[f][s]
    BY <2>1
  <2> HIDE DEF f, h
  <2>4. F[h][s] = F[f][s]
    BY <1>4, <2>2, <2>3
  <2>5. QED
    BY <2>1, <2>3, <2>4
<1> HIDE DEF h
<1>6. F[h] \in [D -> V]
  BY <1>4
<1>7. QED
  BY <1>4, <1>5, <1>6
-----------------------------------------------------------------------------
(* The recursive functions of the grammar.                                 *)

\* What AfterRedir takes off the front of a text.
LEMMA AfterRedirFacts ==
  ASSUME NEW s \in Readings
  PROVE  AfterRedir(s) # <<"none">> =>
           /\ AfterRedir(s) \in Readings /\ Len(AfterRedir(s)) < Len(s)
           /\ \/ /\ Len(s) >= 2 /\ s[1] = "<" /\ s[2] \in {"w", "3"}
                 /\ AfterRedir(s) = From(s, 3)
              \/ /\ Len(s) >= 3 /\ s[1] = "3" /\ s[2] = "<" /\ s[3] \in {"w", "3"}
                 /\ AfterRedir(s) = From(s, 4)
<1>1. CASE Len(s) >= 2 /\ s[1] = "<" /\ s[2] \in {"w", "3"}
  <2>1. AfterRedir(s) = From(s, 3)
    BY <1>1 DEF AfterRedir
  <2>2. QED
    BY <1>1, <2>1 DEF From, Readings
<1>2. CASE Len(s) >= 3 /\ s[1] = "3" /\ s[2] = "<" /\ s[3] \in {"w", "3"}
  <2>1. AfterRedir(s) = From(s, 4)
    BY <1>2 DEF AfterRedir
  <2>2. QED
    BY <1>2, <2>1 DEF From, Readings
<1>3. QED
  BY <1>1, <1>2 DEF AfterRedir

\* The two ways a redirection begins a text, and what is left behind it.
LEMMA AfterRedirValue ==
  ASSUME NEW s \in Readings
  PROVE  /\ Len(s) >= 2 /\ s[1] = "<" /\ s[2] \in {"w", "3"} =>
              AfterRedir(s) = From(s, 3) /\ From(s, 3) \in Readings
         /\ Len(s) >= 3 /\ s[1] = "3" /\ s[2] = "<" /\ s[3] \in {"w", "3"} =>
              AfterRedir(s) = From(s, 4) /\ From(s, 4) \in Readings
         /\ \A t \in Readings : t # <<"none">>
<1>1. \A t \in Readings : t # <<"none">>
  <2> SUFFICES ASSUME <<"none">> \in Readings
               PROVE  FALSE
    OBVIOUS
  <2> DEFINE t == <<"none">>
  <2>1. Len(t) = 1 /\ t[1] = "none"
    OBVIOUS
  <2>2. t[1] \in Operators \cup {"w", "3", "<", "(", ")"}
    <3> HIDE DEF t
    <3>1. QED
      BY <2>1 DEF Readings, t
  <2>3. QED
    BY <2>1, <2>2 DEF Operators
<1>2. QED
  BY <1>1 DEF AfterRedir, From, Readings

\* The definition of IsRedirs, unfolded.
LEMMA RedirsUnfold ==
  \A s \in Readings :
    /\ IsRedirs[s] \in BOOLEAN
    /\ IsRedirs[s] <=> s = <<>> \/ (AfterRedir(s) # <<"none">> /\ IsRedirs[AfterRedir(s)])
<1> DEFINE Body(f, s) == s = <<>> \/ (AfterRedir(s) # <<"none">> /\ f[AfterRedir(s)])
           F == [f \in [Readings -> BOOLEAN] |-> [s \in Readings |-> Body(f, s)]]
           size == [s \in Readings |-> Len(s)]
<1>1. size \in [Readings -> Nat]
  BY DEF Readings
<1>2. F \in [[Readings -> BOOLEAN] -> [Readings -> BOOLEAN]]
  OBVIOUS
<1>3. \A f, g \in [Readings -> BOOLEAN] : \A s \in Readings :
        (\A t \in Readings : size[t] < size[s] => f[t] = g[t]) => F[f][s] = F[g][s]
  BY AfterRedirFacts
<1>4. \E f \in [Readings -> BOOLEAN] : f = F[f]
  <2>1. Descends(Readings, BOOLEAN, size, F)
    <3> HIDE DEF F, size
    <3>1. QED
      BY <1>1, <1>2, <1>3 DEF Descends
  <2> HIDE DEF F, size
  <2>2. QED
    BY <2>1, FixedPoint
<1>5. PICK f \in [Readings -> BOOLEAN] : f = [s \in Readings |-> Body(f, s)]
  BY <1>4
<1>6. IsRedirs = [s \in Readings |-> Body(IsRedirs, s)]
  <2>1. IsRedirs = CHOOSE g : g = [s \in Readings |-> Body(g, s)]
    BY DEF IsRedirs
  <2> HIDE DEF Body
  <2>2. QED
    BY <1>5, <2>1
<1>7. QED
  BY <1>6

\* The definition of IsItems, unfolded.
LEMMA ItemsUnfold ==
  \A s \in Readings :
    /\ IsItems[s] \in BOOLEAN
    /\ IsItems[s] <=> \/ s = <<>>
                      \/ s[1] = "w" /\ IsItems[Tail(s)]
                      \/ AfterRedir(s) # <<"none">> /\ IsItems[AfterRedir(s)]
<1> DEFINE Body(f, s) == \/ s = <<>>
                         \/ s[1] = "w" /\ f[Tail(s)]
                         \/ AfterRedir(s) # <<"none">> /\ f[AfterRedir(s)]
           F == [f \in [Readings -> BOOLEAN] |-> [s \in Readings |-> Body(f, s)]]
           size == [s \in Readings |-> Len(s)]
<1>1. size \in [Readings -> Nat]
  BY DEF Readings
<1>2. F \in [[Readings -> BOOLEAN] -> [Readings -> BOOLEAN]]
  OBVIOUS
<1>3. ASSUME NEW f \in [Readings -> BOOLEAN], NEW g \in [Readings -> BOOLEAN], NEW s \in Readings,
             \A t \in Readings : size[t] < size[s] => f[t] = g[t]
      PROVE  Body(f, s) = Body(g, s)
  <2>1. s # <<>> => Tail(s) \in Readings /\ Len(Tail(s)) < Len(s)
    BY DEF Readings
  <2>2. s # <<>> => f[Tail(s)] = g[Tail(s)]
    BY <1>3, <2>1
  <2>3. AfterRedir(s) # <<"none">> => f[AfterRedir(s)] = g[AfterRedir(s)]
    BY <1>3, AfterRedirFacts
  <2>4. QED
    BY <2>2, <2>3
<1>4. \E f \in [Readings -> BOOLEAN] : f = F[f]
  <2>1. \A f, g \in [Readings -> BOOLEAN] : \A s \in Readings :
          (\A t \in Readings : size[t] < size[s] => f[t] = g[t]) => F[f][s] = F[g][s]
    <3> HIDE DEF Body, size
    <3>1. QED
      BY <1>3
  <2>2. Descends(Readings, BOOLEAN, size, F)
    <3> HIDE DEF F, size
    <3>1. QED
      BY <1>1, <1>2, <2>1 DEF Descends
  <2> HIDE DEF F, size
  <2>3. QED
    BY <2>2, FixedPoint
<1>5. PICK f \in [Readings -> BOOLEAN] : f = [s \in Readings |-> Body(f, s)]
  BY <1>4
<1>6. IsItems = [s \in Readings |-> Body(IsItems, s)]
  <2>1. IsItems = CHOOSE g : g = [s \in Readings |-> Body(g, s)]
    BY DEF IsItems
  <2> HIDE DEF Body
  <2>2. QED
    BY <1>5, <2>1
<1>7. QED
  BY <1>6

\* A command, and a list, once it is known which shorter texts are lists.
IsCommandBy(f, c) ==
  /\ c # <<>>
  /\ \/ IsItems[c]
     \/ /\ c[1] = "("
        /\ \E k \in 2..Len(c) : /\ c[k] = ")"
                                /\ f[SubSeq(c, 2, k - 1)]
                                /\ IsRedirs[From(c, k + 1)]
IsListBy(f, s) ==
  \/ IsCommandBy(f, s)
  \/ \E k \in 1..Len(s) : /\ s[k] \in Operators
                          /\ IsCommandBy(f, SubSeq(s, 1, k - 1))
                          /\ f[From(s, k + 1)]

\* Parts of a text.
LEMMA PartFacts ==
  ASSUME NEW s \in Readings, NEW a \in 1..(Len(s) + 1), NEW b \in 0..Len(s), a <= b + 1
  PROVE  /\ SubSeq(s, a, b) \in Readings
         /\ Len(SubSeq(s, a, b)) = b - a + 1
         /\ \A j \in 1..(b - a + 1) : SubSeq(s, a, b)[j] = s[a + j - 1]
BY DEF Readings

\* The end of a text.
LEMMA FromFacts ==
  ASSUME NEW s \in Readings, NEW a \in 1..(Len(s) + 1)
  PROVE  /\ From(s, a) \in Readings
         /\ Len(From(s, a)) = Len(s) - a + 1
         /\ \A j \in 1..(Len(s) - a + 1) : From(s, a)[j] = s[a + j - 1]
BY DEF Readings, From

\* The definition of IsList, unfolded.
LEMMA ListUnfold ==
  \A s \in Readings :
    /\ IsList[s] \in BOOLEAN
    /\ IsList[s] <=> IsListBy(IsList, s)
<1> DEFINE F == [f \in [Readings -> BOOLEAN] |-> [s \in Readings |-> IsListBy(f, s)]]
           size == [s \in Readings |-> Len(s)]
<1>1. size \in [Readings -> Nat]
  BY DEF Readings
<1>2. F \in [[Readings -> BOOLEAN] -> [Readings -> BOOLEAN]]
  BY DEF IsListBy
<1>3. ASSUME NEW f \in [Readings -> BOOLEAN], NEW g \in [Readings -> BOOLEAN], NEW s \in Readings,
             \A t \in Readings : Len(t) < Len(s) => f[t] = g[t]
      PROVE  IsListBy(f, s) = IsListBy(g, s)
  <2>0. Len(s) \in Nat
    BY DEF Readings
  <2>1. ASSUME NEW c \in Readings, Len(c) <= Len(s)
        PROVE  IsCommandBy(f, c) <=> IsCommandBy(g, c)
    <3>1. ASSUME NEW k \in 2..Len(c)
          PROVE  f[SubSeq(c, 2, k - 1)] = g[SubSeq(c, 2, k - 1)]
      <4>1. Len(c) \in Nat
        BY DEF Readings
      <4>2. SubSeq(c, 2, k - 1) \in Readings /\ Len(SubSeq(c, 2, k - 1)) < Len(s)
        BY <2>0, <2>1, <4>1, PartFacts
      <4>3. QED
        BY <1>3, <4>2
    <3>2. QED
      BY <3>1 DEF IsCommandBy
  <2>2. ASSUME NEW k \in 1..Len(s)
        PROVE  /\ IsCommandBy(f, SubSeq(s, 1, k - 1)) <=> IsCommandBy(g, SubSeq(s, 1, k - 1))
               /\ f[From(s, k + 1)] = g[From(s, k + 1)]
    <3>1. SubSeq(s, 1, k - 1) \in Readings /\ Len(SubSeq(s, 1, k - 1)) <= Len(s)
      BY <2>0, PartFacts
    <3>2. From(s, k + 1) \in Readings /\ Len(From(s, k + 1)) < Len(s)
      BY <2>0, FromFacts
    <3>3. QED
      BY <1>3, <2>1, <3>1, <3>2
  <2>3. IsCommandBy(f, s) <=> IsCommandBy(g, s)
    BY <2>0, <2>1
  <2>4. QED
    BY <2>2, <2>3 DEF IsListBy
<1>4. \E f \in [Readings -> BOOLEAN] : f = F[f]
  <2>1. \A f, g \in [Readings -> BOOLEAN] : \A s \in Readings :
          (\A t \in Readings : size[t] < size[s] => f[t] = g[t]) => F[f][s] = F[g][s]
    BY <1>3
  <2>2. Descends(Readings, BOOLEAN, size, F)
    <3> HIDE DEF F, size
    <3>1. QED
      BY <1>1, <1>2, <2>1 DEF Descends
  <2> HIDE DEF F, size
  <2>3. QED
    BY <2>2, FixedPoint
<1>5. PICK f \in [Readings -> BOOLEAN] : f = [s \in Readings |-> IsListBy(f, s)]
  BY <1>4
<1>6. IsList = [s \in Readings |-> IsListBy(IsList, s)]
  <2>1. IsList = CHOOSE g : g = [s \in Readings |-> IsListBy(g, s)]
    BY DEF IsList, IsListBy, IsCommandBy
  <2>2. QED
    BY <1>5, <2>1
<1>7. QED
  BY <1>6 DEF IsListBy

\* The definition of Quote, unfolded.
LEMMA QuoteUnfold ==
  ASSUME NEW s \in Seq(AllTokens)
  PROVE  /\ Quote(s) \in [0..Len(s) -> Quotes \cup {"none"}]
         /\ Quote(s)[0] = "none"
         /\ \A i \in 1..Len(s) :
              Quote(s)[i] = IF Quote(s)[i - 1] = "none"
                            THEN IF s[i] \in Quotes THEN s[i] ELSE "none"
                            ELSE IF s[i] = Quote(s)[i - 1] THEN "none" ELSE Quote(s)[i - 1]
<1> DEFINE D == 0..Len(s)
           V == Quotes \cup {"none"}
           Body(q, i) == IF i = 0 THEN "none"
                         ELSE IF q[i - 1] = "none"
                              THEN IF s[i] \in Quotes THEN s[i] ELSE "none"
                              ELSE IF s[i] = q[i - 1] THEN "none" ELSE q[i - 1]
           F == [q \in [D -> V] |-> [i \in D |-> Body(q, i)]]
           size == [i \in D |-> i]
<1>1. V # {} /\ size \in [D -> Nat]
  OBVIOUS
<1>2. \A q \in [D -> V], i \in D : Body(q, i) \in V
  OBVIOUS
<1>3. ASSUME NEW f \in [D -> V], NEW g \in [D -> V], NEW i \in D,
             \A t \in D : size[t] < size[i] => f[t] = g[t]
      PROVE  Body(f, i) = Body(g, i)
  <2>1. CASE i = 0
    BY <2>1
  <2>2. CASE i # 0
    <3>1. i - 1 \in D /\ size[i - 1] < size[i]
      BY <2>2
    <3>2. f[i - 1] = g[i - 1]
      BY <1>3, <3>1
    <3>3. QED
      BY <3>2
  <2>3. QED
    BY <2>1, <2>2
<1>4. \E f \in [D -> V] : f = F[f]
  <2> HIDE DEF Body, V, D, size
  <2>1. \A f, g \in [D -> V] : \A i \in D :
          (\A t \in D : size[t] < size[i] => f[t] = g[t]) => F[f][i] = F[g][i]
    BY <1>3
  <2>2. F \in [[D -> V] -> [D -> V]]
    BY <1>2
  <2>3. Descends(D, V, size, F)
    <3> HIDE DEF F
    <3>1. QED
      BY <1>1, <2>1, <2>2 DEF Descends
  <2> HIDE DEF F
  <2>4. QED
    BY <2>3, FixedPoint
<1>5. PICK f \in [D -> V] : f = [i \in D |-> Body(f, i)]
  <2> HIDE DEF Body, V, D
  <2>1. QED
    BY <1>4
<1>6. Quote(s) = [i \in D |-> Body(Quote(s), i)]
  <2>1. Quote(s) = CHOOSE g : g = [i \in D |-> Body(g, i)]
    BY DEF Quote
  <2> HIDE DEF Body, D
  <2>2. QED
    BY <1>5, <2>1
<1>7. Quote(s) \in [D -> V]
  <2>1. \A i \in D : Body(Quote(s), i) \in V
    <3> DEFINE P == {i \in Nat : i \in D => Quote(s)[i] \in V}
    <3>1. 0 \in P
      BY <1>6
    <3>2. ASSUME NEW i \in P
          PROVE  i + 1 \in P
      <4>1. CASE i + 1 \in D
        <5>1. i \in D /\ Quote(s)[i] \in V /\ i + 1 # 0 /\ (i + 1) - 1 = i
          BY <4>1
        <5>2. Quote(s)[i + 1] = Body(Quote(s), i + 1)
          BY <1>6, <4>1
        <5>3. QED
          BY <5>1, <5>2
      <4>2. QED
        BY <4>1
    <3> HIDE DEF P
    <3>3. P = Nat
      <4>1. P \in SUBSET Nat
        BY DEF P
      <4>2. QED
        BY <3>1, <3>2, <4>1, Induction
    <3>4. \A i \in D : Quote(s)[i] \in V
      BY <3>3 DEF P
    <3> HIDE DEF Body, V
    <3>5. QED
      BY <1>6, <3>4
  <2> HIDE DEF Body, V, D
  <2>2. QED
    BY <1>6, <2>1
<1>8. QED
  BY <1>6, <1>7

\* The four kinds of positions.
LEMMA PieceValue ==
  ASSUME NEW s \in Seq(AllTokens), NEW i \in 1..Len(s)
  PROVE  /\ InWord(s, i) /\ i > 1 /\ InWord(s, i - 1) => Piece(s, i) = <<>>
         /\ InWord(s, i) /\ (i > 1 => ~InWord(s, i - 1)) =>
              Piece(s, i) = IF Number(s, i) THEN <<"3">> ELSE <<"w">>
         /\ ~InWord(s, i) /\ s[i] = "sp" => Piece(s, i) = <<>>
         /\ ~InWord(s, i) /\ s[i] # "sp" =>
              /\ Piece(s, i) = <<s[i]>>
              /\ s[i] \in Operators \cup {"<", "(", ")"}
         /\ ~InWord(s, i) => i \in Plain(s)
<1>1. s[i] \in AllTokens
  OBVIOUS
<1>2. ~InWord(s, i) => i \in Plain(s) /\ s[i] \in AllTokens \ (Quotes \cup Escaped \cup {"w", "3"})
  BY <1>1 DEF InWord, Plain
<1>3. ~InWord(s, i) /\ s[i] # "sp" => s[i] \in Operators \cup {"<", "(", ")"}
  BY <1>2 DEF AllTokens
<1>4. QED
  BY <1>2, <1>3 DEF Piece

\* A position adds a reading, of one token or none.
LEMMA PieceType ==
  ASSUME NEW s \in Seq(AllTokens), NEW i \in 1..Len(s)
  PROVE  Piece(s, i) \in Readings
<1>1. <<>> \in Readings /\ <<"w">> \in Readings /\ <<"3">> \in Readings
  BY DEF Readings
<1>2. \A x \in Operators \cup {"<", "(", ")"} : <<x>> \in Readings
  BY DEF Readings
<1>3. QED
  BY <1>1, <1>2, PieceValue

\* The definition of Read, unfolded.
LEMMA ReadUnfold ==
  ASSUME NEW s \in Seq(AllTokens)
  PROVE  /\ \A i \in 0..Len(s) : Read(s)[i] \in Readings
         /\ Read(s)[0] = <<>>
         /\ \A i \in 1..Len(s) : Read(s)[i] = Read(s)[i - 1] \o Piece(s, i)
<1> DEFINE D == 0..Len(s)
           V == Readings
           Body(q, i) == IF i = 0 THEN <<>> ELSE q[i - 1] \o Piece(s, i)
           F == [q \in [D -> V] |-> [i \in D |-> Body(q, i)]]
           size == [i \in D |-> i]
<1>0. <<>> \in V /\ \A q \in V, i \in 1..Len(s) : q \o Piece(s, i) \in V
  BY PieceType DEF Readings
<1>1. V # {} /\ size \in [D -> Nat]
  BY <1>0
<1>2. \A q \in [D -> V], i \in D : Body(q, i) \in V
  <2> HIDE DEF V
  <2>1. QED
    BY <1>0
<1>3. ASSUME NEW f \in [D -> V], NEW g \in [D -> V], NEW i \in D,
             \A t \in D : size[t] < size[i] => f[t] = g[t]
      PROVE  Body(f, i) = Body(g, i)
  <2>1. CASE i = 0
    BY <2>1
  <2>2. CASE i # 0
    <3>1. i - 1 \in D /\ size[i - 1] < size[i]
      BY <2>2
    <3>2. f[i - 1] = g[i - 1]
      BY <1>3, <3>1
    <3>3. QED
      BY <3>2
  <2>3. QED
    BY <2>1, <2>2
<1>4. \E f \in [D -> V] : f = F[f]
  <2> HIDE DEF Body, V, D, size
  <2>1. \A f, g \in [D -> V] : \A i \in D :
          (\A t \in D : size[t] < size[i] => f[t] = g[t]) => F[f][i] = F[g][i]
    BY <1>3
  <2>2. F \in [[D -> V] -> [D -> V]]
    BY <1>2
  <2>3. Descends(D, V, size, F)
    <3> HIDE DEF F
    <3>1. QED
      BY <1>1, <2>1, <2>2 DEF Descends
  <2> HIDE DEF F
  <2>4. QED
    BY <2>3, FixedPoint
<1>5. PICK f \in [D -> V] : f = [i \in D |-> Body(f, i)]
  <2> HIDE DEF Body, V, D
  <2>1. QED
    BY <1>4
<1>6. Read(s) = [i \in D |-> Body(Read(s), i)]
  <2>1. Read(s) = CHOOSE g : g = [i \in D |-> Body(g, i)]
    BY DEF Read
  <2> HIDE DEF Body, D
  <2>2. QED
    BY <1>5, <2>1
<1>7. \A i \in D : Read(s)[i] \in V
  <2> DEFINE P == {i \in Nat : i \in D => Read(s)[i] \in V}
  <2> HIDE DEF V
  <2>1. 0 \in P
    BY <1>0, <1>6
  <2>2. ASSUME NEW i \in P
        PROVE  i + 1 \in P
    <3>1. CASE i + 1 \in D
      <4>1. i \in D /\ Read(s)[i] \in V /\ i + 1 # 0 /\ (i + 1) - 1 = i /\ i + 1 \in 1..Len(s)
        BY <3>1
      <4>2. Read(s)[i + 1] = Body(Read(s), i + 1)
        BY <1>6, <3>1
      <4>3. Body(Read(s), i + 1) = Read(s)[i] \o Piece(s, i + 1)
        BY <4>1
      <4>4. Read(s)[i + 1] \in V
        BY <1>0, <4>1, <4>2, <4>3
      <4>5. QED
        BY <4>4
    <3>2. QED
      BY <3>1
  <2> HIDE DEF P
  <2>3. P = Nat
    <3>1. P \in SUBSET Nat
      BY DEF P
    <3>2. QED
      BY <2>1, <2>2, <3>1, Induction
  <2>4. QED
    BY <2>3 DEF P
<1>8. \A i \in D : Read(s)[i] = Body(Read(s), i)
  <2> HIDE DEF Body, D
  <2>1. QED
    BY <1>6
<1>9. Read(s)[0] = <<>>
  <2>1. 0 \in D
    OBVIOUS
  <2>2. QED
    BY <1>8, <2>1
<1>10. ASSUME NEW i \in 1..Len(s)
       PROVE  Read(s)[i] = Read(s)[i - 1] \o Piece(s, i)
  <2>1. i \in D /\ i # 0
    OBVIOUS
  <2>2. Read(s)[i] = Body(Read(s), i)
    BY <1>8, <2>1
  <2>3. QED
    BY <2>1, <2>2
<1>11. QED
  BY <1>7, <1>9, <1>10
-----------------------------------------------------------------------------
(* Brackets.                                                               *)

Places(s, k, x) == {i \in 1..k : s[i] = x}

\* The brackets that are open behind the first k tokens.
Depth(s, k) == Cardinality(Places(s, k, "(")) - Cardinality(Places(s, k, ")"))

\* A token stands at finitely many places.
LEMMA PlacesFinite ==
  ASSUME NEW s, NEW k \in Nat, NEW x
  PROVE  IsFiniteSet(Places(s, k, x)) /\ Cardinality(Places(s, k, x)) \in Nat
<1>1. IsFiniteSet(1..k)
  BY FS_Interval
<1>2. Places(s, k, x) \subseteq 1..k
  BY DEF Places
<1>3. IsFiniteSet(Places(s, k, x))
  BY <1>1, <1>2, FS_Subset
<1>4. QED
  BY <1>3, FS_CardinalityType

\* ... one more with every place that has it.
LEMMA PlacesStep ==
  ASSUME NEW s, NEW k \in Nat, NEW x
  PROVE  Cardinality(Places(s, k + 1, x)) =
           Cardinality(Places(s, k, x)) + IF s[k + 1] = x THEN 1 ELSE 0
<1>1. CASE s[k + 1] = x
  <2>1. Places(s, k + 1, x) = Places(s, k, x) \cup {k + 1} /\ k + 1 \notin Places(s, k, x)
    BY <1>1 DEF Places
  <2>2. QED
    BY <1>1, <2>1, PlacesFinite, FS_AddElement
<1>2. CASE s[k + 1] # x
  <2>1. Places(s, k + 1, x) = Places(s, k, x)
    BY <1>2 DEF Places
  <2>2. QED
    BY <1>2, <2>1, PlacesFinite
<1>3. QED
  BY <1>1, <1>2

\* The brackets that are open, one token further.
LEMMA DepthStep ==
  /\ \A s : Depth(s, 0) = 0
  /\ \A s : \A k \in Nat :
       /\ Depth(s, k) \in Int
       /\ s[k + 1] = "(" => Depth(s, k + 1) = Depth(s, k) + 1
       /\ s[k + 1] = ")" => Depth(s, k + 1) = Depth(s, k) - 1
       /\ s[k + 1] \notin {"(", ")"} => Depth(s, k + 1) = Depth(s, k)
<1>1. ASSUME NEW s
      PROVE  Depth(s, 0) = 0
  <2>1. Places(s, 0, "(") = {} /\ Places(s, 0, ")") = {}
    BY DEF Places
  <2>2. QED
    BY <2>1, FS_EmptySet DEF Depth
<1>2. ASSUME NEW s, NEW k \in Nat
      PROVE  /\ Depth(s, k) \in Int
             /\ s[k + 1] = "(" => Depth(s, k + 1) = Depth(s, k) + 1
             /\ s[k + 1] = ")" => Depth(s, k + 1) = Depth(s, k) - 1
             /\ s[k + 1] \notin {"(", ")"} => Depth(s, k + 1) = Depth(s, k)
  <2>1. /\ Cardinality(Places(s, k, "(")) \in Nat
        /\ Cardinality(Places(s, k, ")")) \in Nat
    BY PlacesFinite
  <2>2. /\ Cardinality(Places(s, k + 1, "(")) =
             Cardinality(Places(s, k, "(")) + IF s[k + 1] = "(" THEN 1 ELSE 0
        /\ Cardinality(Places(s, k + 1, ")")) =
             Cardinality(Places(s, k, ")")) + IF s[k + 1] = ")" THEN 1 ELSE 0
    BY PlacesStep
  <2>3. QED
    BY <2>1, <2>2 DEF Depth
<1>3. QED
  BY <1>1, <1>2

\* ... and one token back.
LEMMA DepthBack ==
  \A s : \A k \in Nat \ {0} :
    /\ Depth(s, k) \in Int /\ Depth(s, k - 1) \in Int
    /\ s[k] = "(" => Depth(s, k) = Depth(s, k - 1) + 1
    /\ s[k] = ")" => Depth(s, k) = Depth(s, k - 1) - 1
    /\ s[k] \notin {"(", ")"} => Depth(s, k) = Depth(s, k - 1)
<1> TAKE s
<1> TAKE k \in Nat \ {0}
<1> DEFINE n == k - 1
<1>1. n \in Nat /\ n + 1 = k
  OBVIOUS
<1> HIDE DEF n
<1>2. /\ Depth(s, n + 1) \in Int /\ Depth(s, n) \in Int
      /\ s[n + 1] = "(" => Depth(s, n + 1) = Depth(s, n) + 1
      /\ s[n + 1] = ")" => Depth(s, n + 1) = Depth(s, n) - 1
      /\ s[n + 1] \notin {"(", ")"} => Depth(s, n + 1) = Depth(s, n)
  BY <1>1, DepthStep
<1>3. QED
  BY <1>1, <1>2 DEF n

\* The n tokens t begins with are those behind position a of s, and what follows
\* from that for the depth.
Copied(t, s, a, n)  == \A j \in 1..n : t[j] = s[a + j]
Shifted(t, s, a, n) == \A j \in 0..n : Depth(t, j) = Depth(s, a + j) - Depth(s, a)

\* The depth in a part is the depth in the whole, less that in front of the part.
LEMMA DepthAlong ==
  ASSUME NEW s, NEW t, NEW a \in Nat, NEW n \in Nat, Copied(t, s, a, n)
  PROVE  Shifted(t, s, a, n)
<1>0. \A j \in 1..n : t[j] = s[a + j]
  BY DEF Copied
<1> DEFINE P == {j \in Nat : j <= n => Depth(t, j) = Depth(s, a + j) - Depth(s, a)}
<1>1. 0 \in P
  BY DepthStep
<1>2. ASSUME NEW j \in P
      PROVE  j + 1 \in P
  <2>1. CASE j + 1 <= n
    <3>1. Depth(t, j) = Depth(s, a + j) - Depth(s, a) /\ j \in Nat /\ a + j \in Nat
      BY <2>1
    <3>2. t[j + 1] = s[(a + j) + 1] /\ a + (j + 1) = (a + j) + 1
      BY <1>0, <2>1
    <3>3. Depth(t, j) \in Int /\ Depth(s, a + j) \in Int /\ Depth(s, a) \in Int
      BY <3>1, DepthStep
    <3>4. Depth(t, j + 1) - Depth(t, j) = Depth(s, (a + j) + 1) - Depth(s, a + j)
      <4>1. CASE t[j + 1] = "("
        <5>1. Depth(t, j + 1) = Depth(t, j) + 1
          BY <3>1, <4>1, DepthStep
        <5>2. Depth(s, (a + j) + 1) = Depth(s, a + j) + 1
          BY <3>1, <3>2, <4>1, DepthStep
        <5>3. QED
          BY <3>3, <5>1, <5>2
      <4>2. CASE t[j + 1] = ")"
        <5>1. Depth(t, j + 1) = Depth(t, j) - 1
          BY <3>1, <4>2, DepthStep
        <5>2. Depth(s, (a + j) + 1) = Depth(s, a + j) - 1
          BY <3>1, <3>2, <4>2, DepthStep
        <5>3. QED
          BY <3>3, <5>1, <5>2
      <4>3. CASE t[j + 1] \notin {"(", ")"}
        BY <3>1, <3>2, <3>3, <4>3, DepthStep
      <4>4. QED
        BY <4>1, <4>2, <4>3
    <3>5. (a + j) + 1 \in Nat /\ j + 1 \in Nat
      BY <3>1
    <3>6. Depth(t, j + 1) \in Int /\ Depth(s, (a + j) + 1) \in Int
      BY <3>5, DepthStep
    <3>7. Depth(t, j + 1) = Depth(s, a + (j + 1)) - Depth(s, a)
      BY <3>1, <3>2, <3>3, <3>4, <3>6
    <3>8. QED
      BY <3>5, <3>7
  <2>2. QED
    BY <2>1
<1>3. P = Nat
  <2> HIDE DEF P
  <2>1. P \in SUBSET Nat
    BY DEF P
  <2>2. QED
    BY <1>1, <1>2, <2>1, Induction
<1>4. QED
  BY <1>3 DEF Shifted

\* Texts that begin alike have the same brackets open there.
LEMMA SameDepth ==
  ASSUME NEW s, NEW t, NEW n \in Nat, \A j \in 1..n : t[j] = s[j]
  PROVE  \A j \in 0..n : Depth(t, j) = Depth(s, j)
<1> DEFINE a == 0
<1>1. a \in Nat /\ \A j \in 1..n : t[j] = s[a + j]
  OBVIOUS
<1>2. \A j \in 0..n : a + j = j /\ Depth(s, a) = 0 /\ Depth(s, j) \in Int
  BY DepthStep
<1> HIDE DEF a
<1>3. \A j \in 0..n : Depth(t, j) = Depth(s, a + j) - Depth(s, a)
  <2>1. Copied(t, s, a, n)
    BY <1>1 DEF Copied
  <2>2. Shifted(t, s, a, n)
    BY <1>1, <2>1, DepthAlong
  <2>3. QED
    BY <2>2 DEF Shifted
<1>4. QED
  BY <1>2, <1>3

\* Without brackets the depth stays as it is.
LEMMA DepthFlat ==
  ASSUME NEW s, NEW a \in Nat, NEW b \in Nat, \A j \in (a + 1)..b : s[j] \notin {"(", ")"}
  PROVE  \A k \in a..b : Depth(s, k) = Depth(s, a)
<1> DEFINE P == {n \in Nat : a + n <= b => Depth(s, a + n) = Depth(s, a)}
<1>1. 0 \in P
  OBVIOUS
<1>2. ASSUME NEW n \in P
      PROVE  n + 1 \in P
  <2>1. CASE a + (n + 1) <= b
    <3>1. Depth(s, a + n) = Depth(s, a) /\ a + n \in Nat /\ a + (n + 1) = (a + n) + 1
      BY <2>1
    <3>2. s[(a + n) + 1] \notin {"(", ")"}
      BY <2>1
    <3>3. Depth(s, (a + n) + 1) = Depth(s, a + n)
      BY <3>1, <3>2, DepthStep
    <3>4. QED
      BY <3>1, <3>3
  <2>2. QED
    BY <2>1
<1>3. P = Nat
  <2> HIDE DEF P
  <2>1. P \in SUBSET Nat
    BY DEF P
  <2>2. QED
    BY <1>1, <1>2, <2>1, Induction
<1>4. ASSUME NEW k \in a..b
      PROVE  Depth(s, k) = Depth(s, a)
  <2>1. k - a \in Nat /\ a + (k - a) = k /\ k <= b
    OBVIOUS
  <2>2. k - a \in P
    BY <1>3, <2>1
  <2>3. QED
    BY <2>1, <2>2
<1>5. QED
  BY <1>4
-----------------------------------------------------------------------------
(* What every list looks like.                                             *)

Texts  == {"w", "3", "<"}
Begins == {"w", "3", "<", "("}
Ends   == {"w", "3", ")"}

\* y may stand behind x.
Follows(x, y) == /\ x = "<" => y \in {"w", "3"}
                 /\ x \in Operators \cup {"("} => y \in Begins
                 /\ x = ")" => y # "w"

Shape(s) == /\ s # <<>> /\ s[1] \in Begins /\ s[Len(s)] \in Ends
            /\ \A j \in 1..(Len(s) - 1) : Follows(s[j], s[j + 1])

\* No bracket is closed that was not opened, and none is left open.
Level(s) == Depth(s, Len(s)) = 0 /\ \A k \in 0..Len(s) : Depth(s, k) >= 0

\* The length and the tokens of a reading.
LEMMA ReadingFacts ==
  ASSUME NEW s \in Readings
  PROVE  /\ Len(s) \in Nat /\ (s = <<>> <=> Len(s) = 0)
         /\ \A j \in 1..Len(s) : s[j] \in Operators \cup {"w", "3", "<", "(", ")"}
BY DEF Readings

\* What stands behind position n.
LEMMA BehindFacts ==
  ASSUME NEW s \in Readings, NEW n \in 0..Len(s)
  PROVE  /\ From(s, n + 1) \in Readings
         /\ Len(From(s, n + 1)) = Len(s) - n /\ Len(s) - n \in Nat
         /\ \A j \in 1..(Len(s) - n) : From(s, n + 1)[j] = s[n + j]
         /\ \A j \in (n + 1)..Len(s) : j - n \in 1..(Len(s) - n) /\ From(s, n + 1)[j - n] = s[j]
<1>1. Len(s) \in Nat /\ n + 1 \in 1..(Len(s) + 1)
  BY ReadingFacts
<1>2. /\ From(s, n + 1) \in Readings
      /\ Len(From(s, n + 1)) = Len(s) - (n + 1) + 1
      /\ \A j \in 1..(Len(s) - (n + 1) + 1) : From(s, n + 1)[j] = s[(n + 1) + j - 1]
  BY <1>1, FromFacts
<1>3. Len(s) - (n + 1) + 1 = Len(s) - n /\ \A j \in Nat : (n + 1) + j - 1 = n + j
  BY <1>1
<1>4. \A j \in 1..(Len(s) - n) : From(s, n + 1)[j] = s[n + j]
  BY <1>1, <1>2, <1>3
<1>5. \A j \in (n + 1)..Len(s) : j - n \in 1..(Len(s) - n) /\ n + (j - n) = j
  BY <1>1
<1>6. QED
  BY <1>1, <1>2, <1>3, <1>4, <1>5

\* Two texts in shape, one behind the other.
LEMMA ShapeJoin ==
  ASSUME NEW s \in Readings, NEW n \in 1..Len(s), s[1] \in Begins,
         \A j \in 1..(n - 1) : Follows(s[j], s[j + 1]),
         n = Len(s) => s[n] \in Ends,
         n < Len(s) => Shape(From(s, n + 1)) /\ Follows(s[n], s[n + 1])
  PROVE  Shape(s)
<1>1. CASE n = Len(s)
  BY <1>1, ReadingFacts DEF Shape
<1>2. CASE n < Len(s)
  <2> DEFINE u == From(s, n + 1)
  <2>1. /\ Len(u) = Len(s) - n /\ Len(s) \in Nat /\ Len(s) - n \in Nat \ {0}
        /\ \A j \in 1..(Len(s) - n) : u[j] = s[n + j]
        /\ \A j \in (n + 1)..Len(s) : j - n \in 1..(Len(s) - n) /\ u[j - n] = s[j]
    <3>1. n \in 0..Len(s) /\ Len(s) \in Nat
      BY ReadingFacts
    <3>2. Len(s) - n # 0
      BY <1>2, <3>1
    <3>3. /\ Len(u) = Len(s) - n /\ Len(s) - n \in Nat
          /\ \A j \in 1..(Len(s) - n) : u[j] = s[n + j]
          /\ \A j \in (n + 1)..Len(s) : j - n \in 1..(Len(s) - n) /\ u[j - n] = s[j]
      BY <3>1, BehindFacts
    <3>4. QED
      BY <3>1, <3>2, <3>3
  <2>2. u[Len(u)] \in Ends /\ \A j \in 1..(Len(u) - 1) : Follows(u[j], u[j + 1])
    BY <1>2 DEF Shape
  <2> HIDE DEF u
  <2>3. s[Len(s)] \in Ends
    <3>1. Len(s) \in (n + 1)..Len(s)
      BY <1>2, <2>1
    <3>2. QED
      BY <2>1, <2>2, <3>1
  <2>4. ASSUME NEW j \in 1..(Len(s) - 1)
        PROVE  Follows(s[j], s[j + 1])
    <3>1. CASE j < n
      BY <3>1
    <3>2. CASE j = n
      BY <1>2, <3>2
    <3>3. CASE j > n
      <4>1. j \in (n + 1)..Len(s) /\ j + 1 \in (n + 1)..Len(s) /\ (j + 1) - n = (j - n) + 1
        BY <2>1, <3>3
      <4>2. u[j - n] = s[j] /\ u[(j - n) + 1] = s[j + 1]
        BY <2>1, <4>1
      <4>3. j - n \in 1..(Len(u) - 1)
        BY <2>1, <3>3
      <4>4. QED
        BY <2>2, <4>2, <4>3
    <3>4. QED
      BY <3>1, <3>2, <3>3
  <2>5. QED
    BY <2>3, <2>4, ReadingFacts DEF Shape
<1>3. QED
  BY <1>1, <1>2, ReadingFacts

\* Redirections are in shape and have no word in front.
LEMMA RedirsShape ==
  \A s \in Readings : IsRedirs[s] =>
    /\ \A j \in 1..Len(s) : s[j] \in Texts
    /\ s # <<>> => Shape(s) /\ s[1] # "w"
<1> DEFINE Claim(s) == IsRedirs[s] =>
             /\ \A j \in 1..Len(s) : s[j] \in Texts
             /\ s # <<>> => Shape(s) /\ s[1] # "w"
           S == {n \in Nat : \A s \in Readings : Len(s) = n => Claim(s)}
<1>1. ASSUME NEW n \in Nat, \A m \in 0..(n - 1) : m \in S
      PROVE  n \in S
  <2> SUFFICES ASSUME NEW s \in Readings, Len(s) = n, IsRedirs[s], s # <<>>
               PROVE  (\A j \in 1..Len(s) : s[j] \in Texts) /\ Shape(s) /\ s[1] # "w"
    BY ReadingFacts
  <2> DEFINE u == AfterRedir(s)
  <2>1. u # <<"none">> /\ IsRedirs[u]
    BY RedirsUnfold
  <2>2. u \in Readings /\ Len(u) < Len(s)
    BY <2>1, AfterRedirFacts
  <2>3. Claim(u)
    <3>1. Len(u) \in 0..(n - 1)
      BY <2>2, ReadingFacts
    <3>2. Len(u) \in S
      BY <1>1, <3>1
    <3> HIDE DEF u, Claim
    <3>3. QED
      BY <2>2, <3>2
  <2>4. (\A j \in 1..Len(u) : u[j] \in Texts) /\ (u # <<>> => Shape(u) /\ u[1] # "w")
    BY <2>1, <2>3
  <2>5. u # <<>> => u[1] \in Begins
    BY <2>4 DEF Shape
  <2>6. PICK k \in 2..3 :
          /\ k <= Len(s) /\ u = From(s, k + 1)
          /\ s[1] \in {"3", "<"} /\ s[k] \in {"w", "3"}
          /\ \A j \in 1..(k - 1) : Follows(s[j], s[j + 1]) /\ s[j] \in Texts
    <3>1. CASE /\ Len(s) >= 2 /\ s[1] = "<" /\ s[2] \in {"w", "3"}
               /\ u = From(s, 3)
      <4>1. \A j \in 1..1 : Follows(s[j], s[j + 1]) /\ s[j] \in Texts
        BY <3>1 DEF Follows, Texts, Operators
      <4>2. QED
        BY <3>1, <4>1
    <3>2. CASE /\ Len(s) >= 3 /\ s[1] = "3" /\ s[2] = "<" /\ s[3] \in {"w", "3"}
               /\ u = From(s, 4)
      <4>1. \A j \in 1..2 : Follows(s[j], s[j + 1]) /\ s[j] \in Texts
        BY <3>2 DEF Follows, Texts, Operators
      <4>2. QED
        BY <3>2, <4>1
    <3>3. QED
      BY <2>1, <3>1, <3>2, AfterRedirFacts
  <2> HIDE DEF u
  <2>7. /\ Len(u) = Len(s) - k /\ k \in 1..Len(s)
        /\ \A j \in 1..(Len(s) - k) : u[j] = s[k + j]
        /\ \A j \in (k + 1)..Len(s) : j - k \in 1..(Len(s) - k) /\ u[j - k] = s[j]
    <3>1. k \in 0..Len(s) /\ k \in 1..Len(s)
      BY <2>6, ReadingFacts
    <3>2. QED
      BY <2>6, <3>1, BehindFacts
  <2>8. \A j \in 1..Len(s) : s[j] \in Texts
    <3> TAKE j \in 1..Len(s)
    <3>1. CASE j < k
      BY <2>6, <3>1
    <3>2. CASE j = k
      BY <2>6, <3>2 DEF Texts
    <3>3. CASE j > k
      <4>1. j \in (k + 1)..Len(s)
        BY <2>7, <3>3, ReadingFacts
      <4>2. j - k \in 1..Len(u) /\ u[j - k] = s[j]
        BY <2>7, <4>1
      <4>3. QED
        BY <2>4, <4>2
    <3>4. QED
      BY <3>1, <3>2, <3>3
  <2>9. Shape(s)
    <3>1. k < Len(s) => u # <<>> /\ u[1] = s[k + 1]
      BY <2>2, <2>7, ReadingFacts
    <3>2. k < Len(s) => Shape(From(s, k + 1)) /\ Follows(s[k], s[k + 1])
      BY <2>4, <2>6, <3>1 DEF Follows, Operators
    <3>3. s[1] \in Begins /\ s[k] \in Ends
      BY <2>6 DEF Begins, Ends
    <3>4. QED
      BY <2>6, <2>7, <3>2, <3>3, ShapeJoin
  <2>10. QED
    BY <2>6, <2>8, <2>9
<1> HIDE DEF Claim
<1>2. S = Nat
  <2> HIDE DEF S
  <2>1. S \in SUBSET Nat
    BY DEF S
  <2>2. QED
    BY <1>1, <2>1, StrongInduction
<1>3. \A s \in Readings : Claim(s)
  BY <1>2, ReadingFacts
<1>4. QED
  BY <1>3 DEF Claim

\* The words and redirections of a command are in shape.
LEMMA ItemsShape ==
  \A s \in Readings : IsItems[s] =>
    /\ \A j \in 1..Len(s) : s[j] \in Texts
    /\ s # <<>> => Shape(s)
<1> DEFINE Claim(s) == IsItems[s] =>
             /\ \A j \in 1..Len(s) : s[j] \in Texts
             /\ s # <<>> => Shape(s)
           S == {n \in Nat : \A s \in Readings : Len(s) = n => Claim(s)}
<1>1. ASSUME NEW n \in Nat, \A m \in 0..(n - 1) : m \in S
      PROVE  n \in S
  <2> SUFFICES ASSUME NEW s \in Readings, Len(s) = n, IsItems[s], s # <<>>
               PROVE  (\A j \in 1..Len(s) : s[j] \in Texts) /\ Shape(s)
    BY ReadingFacts
  <2> DEFINE Good(u, k) ==
          /\ IsItems[u] /\ u \in Readings /\ k <= Len(s) /\ u = From(s, k + 1)
          /\ s[1] \in Texts /\ s[k] \in {"w", "3"}
          /\ \A j \in 1..(k - 1) : Follows(s[j], s[j + 1]) /\ s[j] \in Texts
  <2>0. \E u, k : k \in 1..3 /\ Good(u, k)
    <3>1. CASE s[1] = "w" /\ IsItems[Tail(s)]
      <4>1. Tail(s) = From(s, 2) /\ Tail(s) \in Readings /\ 1 <= Len(s)
        BY DEF From, Readings
      <4>2. Good(Tail(s), 1)
        BY <3>1, <4>1 DEF Texts
      <4> HIDE DEF Good
      <4>3. QED
        BY <4>2
    <3> DEFINE u == AfterRedir(s)
    <3>2. CASE u # <<"none">> /\ IsItems[u]
      <4>0. u \in Readings
        BY <3>2, AfterRedirFacts
      <4>1. CASE /\ Len(s) >= 2 /\ s[1] = "<" /\ s[2] \in {"w", "3"}
                 /\ u = From(s, 3)
        <5> HIDE DEF u
        <5>1. \A j \in 1..1 : Follows(s[j], s[j + 1]) /\ s[j] \in Texts
          BY <4>1 DEF Follows, Texts, Operators
        <5>2. Good(u, 2)
          BY <3>2, <4>0, <4>1, <5>1 DEF Texts
        <5> HIDE DEF Good
        <5>3. QED
          BY <5>2
      <4>2. CASE /\ Len(s) >= 3 /\ s[1] = "3" /\ s[2] = "<" /\ s[3] \in {"w", "3"}
                 /\ u = From(s, 4)
        <5> HIDE DEF u
        <5>1. \A j \in 1..2 : Follows(s[j], s[j + 1]) /\ s[j] \in Texts
          BY <4>2 DEF Follows, Texts, Operators
        <5>2. Good(u, 3)
          BY <3>2, <4>0, <4>2, <5>1 DEF Texts
        <5> HIDE DEF Good
        <5>3. QED
          BY <5>2
      <4>3. QED
        BY <3>2, <4>1, <4>2, AfterRedirFacts
    <3> HIDE DEF Good
    <3>3. QED
      BY <3>1, <3>2, ItemsUnfold
  <2>1. PICK u, k : k \in 1..3 /\ Good(u, k)
    <3> HIDE DEF Good
    <3>1. QED
      BY <2>0
  <2>2. u \in Readings /\ Len(u) < Len(s)
    <3>1. k \in 0..Len(s) /\ k >= 1 /\ Len(s) \in Nat
      BY <2>1, ReadingFacts
    <3>2. Len(From(s, k + 1)) = Len(s) - k
      BY <3>1, BehindFacts
    <3>3. QED
      BY <2>1, <3>1, <3>2
  <2>3. Claim(u)
    <3>1. Len(u) \in 0..(n - 1)
      BY <2>2, ReadingFacts
    <3>2. Len(u) \in S
      BY <1>1, <3>1
    <3> HIDE DEF Claim
    <3>3. QED
      BY <2>2, <3>2
  <2>4. (\A j \in 1..Len(u) : u[j] \in Texts) /\ (u # <<>> => Shape(u))
    BY <2>1, <2>3
  <2>5. u # <<>> => u[1] \in Begins
    BY <2>4 DEF Shape
  <2>7. /\ Len(u) = Len(s) - k /\ k \in 1..Len(s)
        /\ \A j \in 1..(Len(s) - k) : u[j] = s[k + j]
        /\ \A j \in (k + 1)..Len(s) : j - k \in 1..(Len(s) - k) /\ u[j - k] = s[j]
    <3>1. k \in 0..Len(s) /\ k \in 1..Len(s)
      BY <2>1, ReadingFacts
    <3>2. QED
      BY <2>1, <3>1, BehindFacts
  <2>8. \A j \in 1..Len(s) : s[j] \in Texts
    <3> TAKE j \in 1..Len(s)
    <3>1. CASE j < k
      BY <2>1, <3>1
    <3>2. CASE j = k
      BY <2>1, <3>2 DEF Texts
    <3>3. CASE j > k
      <4>1. j \in (k + 1)..Len(s)
        BY <2>7, <3>3, ReadingFacts
      <4>2. j - k \in 1..Len(u) /\ u[j - k] = s[j]
        BY <2>7, <4>1
      <4>3. QED
        BY <2>4, <4>2
    <3>4. QED
      BY <2>1, <3>1, <3>2, <3>3
  <2>9. Shape(s)
    <3>1. k < Len(s) => u # <<>> /\ u[1] = s[k + 1]
      BY <2>2, <2>7, ReadingFacts
    <3>2. k < Len(s) => Shape(From(s, k + 1)) /\ Follows(s[k], s[k + 1])
      BY <2>4, <2>1, <3>1 DEF Follows, Operators
    <3>3. s[1] \in Begins /\ s[k] \in Ends
      BY <2>1 DEF Begins, Ends, Texts
    <3>4. QED
      BY <2>1, <2>7, <3>2, <3>3, ShapeJoin
  <2>10. QED
    BY <2>1, <2>8, <2>9
<1> HIDE DEF Claim
<1>2. S = Nat
  <2> HIDE DEF S
  <2>1. S \in SUBSET Nat
    BY DEF S
  <2>2. QED
    BY <1>1, <2>1, StrongInduction
<1>3. \A s \in Readings : Claim(s)
  BY <1>2, ReadingFacts
<1>4. QED
  BY <1>3 DEF Claim

\* The first n tokens.
LEMMA FrontFacts ==
  ASSUME NEW s \in Readings, NEW n \in 0..Len(s)
  PROVE  /\ SubSeq(s, 1, n) \in Readings /\ Len(SubSeq(s, 1, n)) = n
         /\ \A j \in 1..n : SubSeq(s, 1, n)[j] = s[j]
BY DEF Readings

\* What stands between the first token and position k.
LEMMA MiddleFacts ==
  ASSUME NEW s \in Readings, NEW k \in 2..Len(s)
  PROVE  /\ SubSeq(s, 2, k - 1) \in Readings
         /\ Len(SubSeq(s, 2, k - 1)) = k - 2 /\ k - 2 \in Nat
         /\ \A j \in 1..(k - 2) : SubSeq(s, 2, k - 1)[j] = s[1 + j]
         /\ \A j \in 2..(k - 1) : j - 1 \in 1..(k - 2) /\ SubSeq(s, 2, k - 1)[j - 1] = s[j]
<1>1. Len(s) \in Nat
  BY ReadingFacts
<1>2. /\ SubSeq(s, 2, k - 1) \in Readings
      /\ Len(SubSeq(s, 2, k - 1)) = k - 2 /\ k - 2 \in Nat
      /\ \A j \in 1..(k - 2) : SubSeq(s, 2, k - 1)[j] = s[1 + j]
  BY DEF Readings
<1>3. \A j \in 2..(k - 1) : j - 1 \in 1..(k - 2) /\ 1 + (j - 1) = j
  BY <1>1
<1>4. QED
  BY <1>2, <1>3

\* A subshell with its redirections.
LEMMA SubshellShape ==
  ASSUME NEW c \in Readings, NEW k \in 2..Len(c), c[1] = "(", c[k] = ")",
         Shape(SubSeq(c, 2, k - 1)), Level(SubSeq(c, 2, k - 1)), IsRedirs[From(c, k + 1)]
  PROVE  Shape(c) /\ Level(c)
<1> DEFINE t == SubSeq(c, 2, k - 1)
           u == From(c, k + 1)
<1>1. /\ t \in Readings /\ Len(t) = k - 2 /\ k - 2 \in Nat \ {0} /\ Len(c) \in Nat
      /\ \A j \in 1..(k - 2) : t[j] = c[1 + j]
      /\ \A j \in 2..(k - 1) : j - 1 \in 1..(k - 2) /\ t[j - 1] = c[j]
  <2>1. /\ t \in Readings /\ Len(t) = k - 2 /\ k - 2 \in Nat
        /\ \A j \in 1..(k - 2) : t[j] = c[1 + j]
        /\ \A j \in 2..(k - 1) : j - 1 \in 1..(k - 2) /\ t[j - 1] = c[j]
    BY MiddleFacts
  <2>2. Len(t) # 0
    BY <2>1, ReadingFacts DEF Shape
  <2> HIDE DEF t
  <2>3. QED
    BY <2>1, <2>2, ReadingFacts
<1>2. /\ u \in Readings /\ Len(u) = Len(c) - k /\ Len(c) - k \in Nat
      /\ \A j \in 1..(Len(c) - k) : u[j] = c[k + j]
      /\ \A j \in (k + 1)..Len(c) : j - k \in 1..(Len(c) - k) /\ u[j - k] = c[j]
  <2>1. k \in 0..Len(c)
    BY ReadingFacts
  <2>2. QED
    BY <2>1, BehindFacts
<1>3. /\ t[1] \in Begins /\ t[k - 2] \in Ends
      /\ \A j \in 1..(k - 3) : Follows(t[j], t[j + 1])
  <2>1. k - 3 = Len(t) - 1
    BY <1>1
  <2>2. QED
    BY <1>1, <2>1 DEF Shape
<1>4. Level(t)
  OBVIOUS
<1>5. /\ \A j \in 1..Len(u) : u[j] \in Texts
      /\ u # <<>> => Shape(u) /\ u[1] # "w"
  BY <1>2, RedirsShape
<1> HIDE DEF t
<1>6. Shape(c)
  <2>1. ASSUME NEW j \in 1..(k - 1)
        PROVE  Follows(c[j], c[j + 1])
    <3>1. CASE j = 1
      <4>1. c[1 + 1] \in Begins
        BY <1>1, <1>3
      <4>2. QED
        BY <3>1, <4>1 DEF Follows, Operators
    <3>2. CASE j = k - 1 /\ j # 1
      <4>1. j \in 2..(k - 1) /\ j - 1 = k - 2 /\ j + 1 = k
        BY <3>2
      <4>2. c[j] \in Ends
        BY <1>1, <1>3, <4>1
      <4>3. QED
        BY <4>1, <4>2 DEF Follows, Ends, Operators
    <3>3. CASE j # 1 /\ j # k - 1
      <4>1. j \in 2..(k - 1) /\ j + 1 \in 2..(k - 1) /\ j - 1 \in 1..(k - 3) /\ (j + 1) - 1 = (j - 1) + 1
        BY <3>3
      <4>2. c[j] = t[j - 1] /\ c[j + 1] = t[(j - 1) + 1]
        BY <1>1, <4>1
      <4>3. QED
        BY <1>3, <4>1, <4>2
    <3>4. QED
      BY <3>1, <3>2, <3>3
  <2>2. k < Len(c) => Shape(u) /\ Follows(c[k], c[k + 1])
    <3>1. k < Len(c) => u # <<>> /\ u[1] = c[k + 1]
      BY <1>2, ReadingFacts
    <3>2. QED
      BY <1>5, <3>1 DEF Follows, Operators
  <2>3. c[1] \in Begins /\ c[k] \in Ends /\ k \in 1..Len(c)
    BY DEF Begins, Ends
  <2>4. QED
    BY <2>1, <2>2, <2>3, ShapeJoin
<1>7. Level(c)
  <2>1. Depth(c, 1) = 1
    <3>1. Depth(c, 1) = Depth(c, 1 - 1) + 1
      BY DepthBack
    <3>2. QED
      BY <3>1, DepthStep
  <2>2. \A j \in 0..(k - 2) : Depth(t, j) = Depth(c, 1 + j) - 1
    <3>1. \A j \in 0..(k - 2) : Depth(t, j) = Depth(c, 1 + j) - Depth(c, 1)
      <4> DEFINE n == k - 2
                 a == 1
      <4>1. n \in Nat /\ a \in Nat /\ \A j \in 1..n : t[j] = c[a + j]
        BY <1>1
      <4> HIDE DEF n, a
      <4>2. \A j \in 0..n : Depth(t, j) = Depth(c, a + j) - Depth(c, a)
        <5>1. Copied(t, c, a, n)
          BY <4>1 DEF Copied
        <5>2. Shifted(t, c, a, n)
          BY <4>1, <5>1, DepthAlong
        <5>3. QED
          BY <5>2 DEF Shifted
      <4>3. QED
        BY <4>2 DEF n, a
    <3>2. QED
      BY <2>1, <3>1
  <2>3. \A j \in 0..(k - 2) : Depth(c, 1 + j) >= 1
    <3> TAKE j \in 0..(k - 2)
    <3>1. Depth(t, j) >= 0 /\ Depth(c, 1 + j) \in Int
      BY <1>1, <1>4, DepthStep DEF Level
    <3>2. QED
      BY <2>2, <3>1
  <2>4. Depth(c, k - 1) = 1
    <3>1. k - 2 \in 0..(k - 2) /\ 1 + (k - 2) = k - 1 /\ Depth(t, k - 2) = 0 /\ k - 1 \in Nat
      BY <1>1, <1>4 DEF Level
    <3>2. Depth(c, k - 1) \in Int /\ 0 = Depth(c, k - 1) - 1
      BY <2>2, <3>1, DepthStep
    <3>3. QED
      BY <3>2
  <2>5. Depth(c, k) = 0
    <3>1. k \in Nat \ {0}
      BY <1>1
    <3>2. Depth(c, k) = Depth(c, k - 1) - 1
      BY <3>1, DepthBack
    <3>3. QED
      BY <2>4, <3>2
  <2>6. \A j \in k..Len(c) : Depth(c, j) = 0
    <3>1. \A j \in (k + 1)..Len(c) : c[j] \notin {"(", ")"}
      BY <1>2, <1>5 DEF Texts
    <3>2. k \in Nat /\ Len(c) \in Nat
      BY <1>1
    <3>3. QED
      BY <2>5, <3>1, <3>2, DepthFlat
  <2>7. \A j \in 0..Len(c) : Depth(c, j) >= 0
    <3> TAKE j \in 0..Len(c)
    <3>1. CASE j = 0
      BY <3>1, DepthStep
    <3>2. CASE j \in 1..(k - 1)
      <4>1. j - 1 \in 0..(k - 2) /\ 1 + (j - 1) = j
        BY <3>2
      <4>2. Depth(c, j) >= 1 /\ Depth(c, j) \in Int
        BY <2>3, <4>1, DepthStep
      <4>3. QED
        BY <4>2
    <3>3. CASE j \in k..Len(c)
      BY <2>6, <3>3
    <3>4. QED
      BY <1>1, <3>1, <3>2, <3>3
  <2>8. QED
    BY <1>1, <2>6, <2>7 DEF Level
<1>8. QED
  BY <1>6, <1>7

\* A command, an operator and what stands behind it.
LEMMA ChainShape ==
  ASSUME NEW s \in Readings, NEW k \in 1..Len(s), s[k] \in Operators,
         Shape(SubSeq(s, 1, k - 1)), Level(SubSeq(s, 1, k - 1)),
         Shape(From(s, k + 1)), Level(From(s, k + 1))
  PROVE  Shape(s) /\ Level(s)
<1> DEFINE c == SubSeq(s, 1, k - 1)
           u == From(s, k + 1)
<1>1. c \in Readings /\ Len(c) = k - 1 /\ \A j \in 1..(k - 1) : c[j] = s[j]
  <2>1. k - 1 \in 0..Len(s)
    BY ReadingFacts
  <2>2. QED
    BY <2>1, FrontFacts
<1>2. /\ u \in Readings /\ Len(u) = Len(s) - k /\ Len(s) - k \in Nat /\ Len(s) \in Nat
      /\ \A j \in 1..(Len(s) - k) : u[j] = s[k + j]
      /\ \A j \in (k + 1)..Len(s) : j - k \in 1..(Len(s) - k) /\ u[j - k] = s[j]
  <2>1. k \in 0..Len(s)
    BY ReadingFacts
  <2>2. QED
    BY <2>1, BehindFacts, ReadingFacts
<1>3. Shape(c) /\ Level(c) /\ Shape(u) /\ Level(u)
  OBVIOUS
<1> HIDE DEF c
<1>4. k - 1 \in Nat \ {0} /\ k - 2 = (k - 1) - 1
  BY <1>1, <1>3, ReadingFacts DEF Shape
<1>5. u # <<>> /\ u[1] = s[k + 1] /\ k < Len(s)
  <2>1. u # <<>>
    BY <1>3 DEF Shape
  <2>2. k < Len(s)
    BY <1>2, <2>1, ReadingFacts
  <2>3. QED
    BY <1>2, <2>1, <2>2
<1>6. Shape(s)
  <2>1. /\ s[1] \in Begins /\ s[k - 1] \in Ends
        /\ \A j \in 1..(k - 2) : Follows(s[j], s[j + 1])
    <3>1. c[1] \in Begins /\ c[k - 1] \in Ends /\ \A j \in 1..(k - 2) : Follows(c[j], c[j + 1])
      BY <1>1, <1>3, <1>4 DEF Shape
    <3>2. QED
      BY <1>1, <1>4, <3>1
  <2>2. Follows(s[k - 1], s[k])
    BY <2>1 DEF Follows, Ends, Operators
  <2>3. \A j \in 1..(k - 1) : Follows(s[j], s[j + 1])
    <3> TAKE j \in 1..(k - 1)
    <3>1. CASE j = k - 1
      <4>1. j + 1 = k
        BY <3>1
      <4>2. QED
        BY <2>2, <3>1, <4>1
    <3>2. CASE j # k - 1
      BY <2>1, <3>2
    <3>3. QED
      BY <3>1, <3>2
  <2>4. u[1] \in Begins
    BY <1>3 DEF Shape
  <2>5. Follows(s[k], s[k + 1])
    BY <1>5, <2>4 DEF Follows, Operators
  <2>6. k # Len(s)
    BY <1>2, <1>5
  <2>7. QED
    BY <1>3, <2>1, <2>3, <2>5, <2>6, ShapeJoin
<1>7. Level(s)
  <2>1. \A j \in 0..(k - 1) : Depth(c, j) = Depth(s, j)
    <3> DEFINE a == 0
               n == k - 1
    <3>1. a \in Nat /\ n \in Nat /\ \A j \in 1..n : c[j] = s[a + j]
      BY <1>1, <1>4
    <3> HIDE DEF a, n
    <3>2. \A j \in 0..n : Depth(c, j) = Depth(s, a + j) - Depth(s, a)
      <4>1. Copied(c, s, a, n)
        BY <3>1 DEF Copied
      <4>2. Shifted(c, s, a, n)
        BY <3>1, <4>1, DepthAlong
      <4>3. QED
        BY <4>2 DEF Shifted
    <3>3. \A j \in 0..n : a + j = j /\ Depth(s, j) \in Int /\ Depth(s, a) = 0
      BY DepthStep DEF a, n
    <3>4. QED
      BY <3>2, <3>3 DEF n
  <2>2. Depth(s, k - 1) = 0 /\ \A j \in 0..(k - 1) : Depth(s, j) >= 0
    BY <1>1, <1>3, <1>4, <2>1 DEF Level
  <2>3. Depth(s, k) = 0
    BY <2>2, DepthBack DEF Operators
  <2>4. \A j \in 0..(Len(s) - k) : Depth(u, j) = Depth(s, k + j)
    <3> DEFINE n == Len(s) - k
    <3>1. k \in Nat /\ n \in Nat /\ \A j \in 1..n : u[j] = s[k + j]
      BY <1>2
    <3> HIDE DEF n, u
    <3>2. \A j \in 0..n : Depth(u, j) = Depth(s, k + j) - Depth(s, k)
      <4>1. Copied(u, s, k, n)
        BY <3>1 DEF Copied
      <4>2. Shifted(u, s, k, n)
        BY <3>1, <4>1, DepthAlong
      <4>3. QED
        BY <4>2 DEF Shifted
    <3>3. \A j \in 0..n : Depth(s, k + j) \in Int
      BY <3>1, DepthStep
    <3>4. QED
      BY <2>3, <3>2, <3>3 DEF n
  <2>5. ASSUME NEW j \in 0..Len(s)
        PROVE  Depth(s, j) >= 0 /\ (j = Len(s) => Depth(s, j) = 0)
    <3>1. CASE j < k
      <4>1. j \in 0..(k - 1) /\ j # Len(s)
        BY <1>2, <3>1
      <4>2. QED
        BY <2>2, <4>1
    <3>2. CASE j >= k
      <4>1. j - k \in 0..(Len(s) - k) /\ k + (j - k) = j /\ (j = Len(s) => j - k = Len(u))
        BY <1>2, <3>2
      <4>2. Depth(u, j - k) = Depth(s, j)
        BY <2>4, <4>1
      <4>3. QED
        BY <1>2, <1>3, <4>1, <4>2 DEF Level
    <3>3. QED
      BY <3>1, <3>2
  <2>6. Len(s) \in 0..Len(s)
    BY <1>2
  <2> HIDE DEF u
  <2>7. QED
    BY <2>5, <2>6 DEF Level
<1>8. QED
  BY <1>6, <1>7

\* Every list has that look.
LEMMA ListShape ==
  \A s \in Readings : IsList[s] => Shape(s) /\ Level(s)
<1> DEFINE Claim(s) == IsList[s] => Shape(s) /\ Level(s)
           S == {n \in Nat : \A s \in Readings : Len(s) = n => Claim(s)}
<1>1. ASSUME NEW n \in Nat, \A m \in 0..(n - 1) : m \in S
      PROVE  n \in S
  <2>1. ASSUME NEW c \in Readings, Len(c) < n
        PROVE  Claim(c)
    <3>1. Len(c) \in 0..(n - 1)
      BY <2>1, ReadingFacts
    <3>2. Len(c) \in S
      BY <1>1, <3>1
    <3> HIDE DEF Claim
    <3>3. QED
      BY <3>2
  <2>2. ASSUME NEW c \in Readings, Len(c) <= n, IsCommandBy(IsList, c)
        PROVE  Shape(c) /\ Level(c)
    <3>0. Len(c) \in Nat
      BY ReadingFacts
    <3>1. CASE IsItems[c]
      <4>1. Shape(c) /\ \A j \in 1..Len(c) : c[j] \in Texts
        BY <2>2, <3>1, ItemsShape DEF IsCommandBy
      <4>2. \A j \in 0..Len(c) : Depth(c, j) = 0
        <5> DEFINE a == 0
        <5>1. a \in Nat /\ \A j \in (a + 1)..Len(c) : c[j] \notin {"(", ")"}
          BY <4>1 DEF Texts
        <5> HIDE DEF a
        <5>2. \A j \in a..Len(c) : Depth(c, j) = Depth(c, a)
          BY <3>0, <5>1, DepthFlat
        <5>3. QED
          BY <5>2, DepthStep DEF a
      <4>3. QED
        BY <3>0, <4>1, <4>2 DEF Level
    <3>2. CASE ~IsItems[c]
      <4>1. PICK k \in 2..Len(c) : /\ c[1] = "(" /\ c[k] = ")"
                                   /\ IsList[SubSeq(c, 2, k - 1)]
                                   /\ IsRedirs[From(c, k + 1)]
        BY <2>2, <3>2 DEF IsCommandBy
      <4>2. SubSeq(c, 2, k - 1) \in Readings /\ Len(SubSeq(c, 2, k - 1)) < n
        BY <2>2, <3>0, MiddleFacts
      <4>3. Shape(SubSeq(c, 2, k - 1)) /\ Level(SubSeq(c, 2, k - 1))
        BY <2>1, <4>1, <4>2
      <4>4. QED
        BY <4>1, <4>3, SubshellShape
    <3>3. QED
      BY <3>1, <3>2
  <2>3. ASSUME NEW s \in Readings, Len(s) = n, IsList[s]
        PROVE  Shape(s) /\ Level(s)
    <3>1. IsListBy(IsList, s)
      BY <2>3, ListUnfold
    <3>2. CASE IsCommandBy(IsList, s)
      BY <2>2, <2>3, <3>2
    <3>3. CASE ~IsCommandBy(IsList, s)
      <4>1. PICK k \in 1..Len(s) : /\ s[k] \in Operators
                                   /\ IsCommandBy(IsList, SubSeq(s, 1, k - 1))
                                   /\ IsList[From(s, k + 1)]
        BY <3>1, <3>3 DEF IsListBy
      <4>2. k - 1 \in 0..Len(s) /\ k \in 0..Len(s) /\ k >= 1 /\ k <= n
        BY <2>3
      <4>3. SubSeq(s, 1, k - 1) \in Readings /\ Len(SubSeq(s, 1, k - 1)) <= n
        <5>1. SubSeq(s, 1, k - 1) \in Readings /\ Len(SubSeq(s, 1, k - 1)) = k - 1
          BY <4>2, FrontFacts
        <5>2. QED
          BY <4>2, <5>1
      <4>4. Shape(SubSeq(s, 1, k - 1)) /\ Level(SubSeq(s, 1, k - 1))
        BY <2>2, <4>1, <4>3
      <4>5. From(s, k + 1) \in Readings /\ Len(From(s, k + 1)) = n - k
        BY <2>3, <4>2, BehindFacts
      <4>6. Shape(From(s, k + 1)) /\ Level(From(s, k + 1))
        BY <2>1, <4>1, <4>2, <4>5
      <4>7. QED
        BY <4>1, <4>4, <4>6, ChainShape
    <3>4. QED
      BY <3>2, <3>3
  <2>4. QED
    BY <2>3
<1> HIDE DEF Claim
<1>2. S = Nat
  <2> HIDE DEF S
  <2>1. S \in SUBSET Nat
    BY DEF S
  <2>2. QED
    BY <1>1, <2>1, StrongInduction
<1>3. \A s \in Readings : Claim(s)
  BY <1>2, ReadingFacts
<1>4. QED
  BY <1>3 DEF Claim
-----------------------------------------------------------------------------
(* What looks like a list is one.                                          *)

\* y may stand behind x in the reading of a line, the four kinds of lines that
\* module SyntaxCheck leaves aside apart.
Meets(x, y) == /\ x = "<" => y \in {"w", "3"}
               /\ x \in Operators \cup {"("} => y \in Begins
               /\ x = ")" => y \notin {"w", "("}
               /\ x = "w" => y # "("
               /\ x = "3" => y = "<"

Sound(s) == /\ s # <<>> /\ s[1] \notin Operators /\ s[Len(s)] \in {"w", ")"}
            /\ \A j \in 1..(Len(s) - 1) : Meets(s[j], s[j + 1])
            /\ Level(s)
            /\ ~WordBehindSubshell(s)

\* The n tokens behind position a.
LEMMA PieceFacts ==
  ASSUME NEW s \in Readings, NEW a \in Nat, NEW n \in Nat, a + n <= Len(s)
  PROVE  /\ SubSeq(s, a + 1, a + n) \in Readings /\ Len(SubSeq(s, a + 1, a + n)) = n
         /\ \A j \in 1..n : SubSeq(s, a + 1, a + n)[j] = s[a + j]
BY DEF Readings

IsPiece(t, s, a, n) == t \in Readings /\ Len(t) = n /\ Copied(t, s, a, n)

LEMMA PieceIs ==
  ASSUME NEW s \in Readings, NEW a \in Nat, NEW n \in Nat, a + n <= Len(s),
         NEW t, t = SubSeq(s, a + 1, a + n)
  PROVE  IsPiece(t, s, a, n)
BY PieceFacts DEF IsPiece, Copied

\* The brackets that are open in a part.
LEMMA PieceDepth ==
  ASSUME NEW s \in Readings, NEW a \in Nat, NEW n \in Nat, a + n <= Len(s)
  PROVE  \A j \in 0..n : Depth(SubSeq(s, a + 1, a + n), j) = Depth(s, a + j) - Depth(s, a)
<1> DEFINE t == SubSeq(s, a + 1, a + n)
<1>1. \A j \in 1..n : t[j] = s[a + j]
  BY PieceFacts
<1> HIDE DEF t
<1>2. \A j \in 0..n : Depth(t, j) = Depth(s, a + j) - Depth(s, a)
  <2>1. Copied(t, s, a, n)
    BY <1>1 DEF Copied
  <2>2. Shifted(t, s, a, n)
    BY <1>1, <2>1, DepthAlong
  <2>3. QED
    BY <2>2 DEF Shifted
<1>3. QED
  BY <1>2 DEF t

\* A part of a part.
PartsAgree(t, s, a, i, k) == SubSeq(t, i + 1, k) = SubSeq(s, a + i + 1, a + k)

LEMMA SamePart ==
  ASSUME NEW s \in Readings, NEW t \in Readings, NEW a \in Nat, NEW i \in Nat, NEW k \in Nat,
         Copied(t, s, a, Len(t)), a + Len(t) <= Len(s), i <= k, k <= Len(t)
  PROVE  PartsAgree(t, s, a, i, k)
<1> DEFINE p == SubSeq(t, i + 1, k)
           q == SubSeq(s, a + i + 1, a + k)
           n == k - i
<1>0. n \in Nat /\ k = i + n /\ a + k = (a + i) + n /\ a + i \in Nat /\ Len(s) \in Nat /\ Len(t) \in Nat
  BY ReadingFacts
<1>1. p \in Readings /\ Len(p) = n /\ \A j \in 1..n : p[j] = t[i + j]
  <2>1. p = SubSeq(t, i + 1, i + n) /\ i + n <= Len(t)
    BY <1>0
  <2> HIDE DEF n, p
  <2>2. IsPiece(p, t, i, n)
    BY <1>0, <2>1, PieceIs
  <2>3. QED
    BY <2>2 DEF IsPiece, Copied
<1>2. q \in Readings /\ Len(q) = n /\ \A j \in 1..n : q[j] = s[(a + i) + j]
  <2> DEFINE b == a + i
  <2>1. b \in Nat /\ b + n <= Len(s) /\ q = SubSeq(s, b + 1, b + n)
    BY <1>0
  <2> HIDE DEF n, b, q
  <2>2. IsPiece(q, s, b, n)
    BY <1>0, <2>1, PieceIs
  <2>3. q \in Readings /\ Len(q) = n /\ \A j \in 1..n : q[j] = s[b + j]
    BY <2>2 DEF IsPiece, Copied
  <2>4. QED
    BY <2>3 DEF b
<1>3. \A j \in 1..n : p[j] = q[j]
  <2> HIDE DEF p, q
  <2> TAKE j \in 1..n
  <2>1. i + j \in 1..Len(t) /\ a + (i + j) = (a + i) + j
    BY <1>0
  <2>2. t[i + j] = s[a + (i + j)]
    BY <2>1 DEF Copied
  <2>3. QED
    BY <1>1, <1>2, <2>1, <2>2
<1>4. p = q
  <2> HIDE DEF p, q, n
  <2>1. QED
    BY <1>1, <1>2, <1>3 DEF Readings
<1>5. QED
  BY <1>4 DEF PartsAgree

\* A part of a sound text is sound, between places of one depth.
LEMMA SoundPart ==
  ASSUME NEW s \in Readings, Sound(s), NEW a \in Nat, NEW n \in Nat \ {0}, a + n <= Len(s),
         s[a + 1] \notin Operators, s[a + n] \in {"w", ")"},
         Depth(s, a + n) = Depth(s, a), \A j \in a..(a + n) : Depth(s, j) >= Depth(s, a)
  PROVE  Sound(SubSeq(s, a + 1, a + n))
<1> DEFINE t == SubSeq(s, a + 1, a + n)
<1>1. t \in Readings /\ Len(t) = n /\ \A j \in 1..n : t[j] = s[a + j]
  BY PieceFacts
<1>0. Len(s) \in Nat
  BY ReadingFacts
<1> HIDE DEF t
<1>2. t # <<>> /\ t[1] \notin Operators /\ t[Len(t)] \in {"w", ")"}
  <2>1. t[1] = s[a + 1] /\ t[n] = s[a + n]
    BY <1>1
  <2>2. QED
    BY <1>1, <2>1, ReadingFacts
<1>3. ASSUME NEW j \in 1..(Len(t) - 1)
      PROVE  Meets(t[j], t[j + 1])
  <2>1. a + j \in 1..(Len(s) - 1) /\ (a + j) + 1 = a + (j + 1) /\ j \in 1..n /\ j + 1 \in 1..n
    BY <1>0, <1>1
  <2>2. Meets(s[a + j], s[(a + j) + 1])
    BY <2>1 DEF Sound
  <2>3. QED
    BY <1>1, <2>1, <2>2
<1>4. Level(t)
  <2>1. \A j \in 0..n : Depth(t, j) = Depth(s, a + j) - Depth(s, a)
    BY PieceDepth DEF t
  <2>2. \A j \in 0..n : a + j \in a..(a + n) /\ Depth(s, a + j) \in Int /\ Depth(s, a) \in Int
    BY DepthStep
  <2>3. \A j \in 0..n : Depth(t, j) >= 0
    BY <2>1, <2>2
  <2>4. Depth(t, n) = 0
    BY <2>1, <2>2
  <2>5. QED
    BY <1>1, <2>3, <2>4 DEF Level
<1>5. ~WordBehindSubshell(t)
  <2> SUFFICES ASSUME NEW i \in 1..Len(t), NEW k \in 1..Len(t), i + 1 < k,
                      t[i] = ")", t[k] = "w", IsRedirs[SubSeq(t, i + 1, k - 1)]
               PROVE  WordBehindSubshell(s)
    BY DEF WordBehindSubshell, Sound
  <2>1. SubSeq(t, i + 1, k - 1) = SubSeq(s, a + i + 1, a + (k - 1))
    <3> DEFINE m == k - 1
    <3>1. m \in Nat /\ i <= m /\ m <= Len(t) /\ a + Len(t) <= Len(s) /\ i \in Nat
      BY <1>1
    <3> HIDE DEF m
    <3>2. SubSeq(t, i + 1, m) = SubSeq(s, a + i + 1, a + m)
      <4>1. Copied(t, s, a, Len(t))
        BY <1>1, <3>1 DEF Copied
      <4>2. PartsAgree(t, s, a, i, m)
        BY <1>1, <3>1, <4>1, SamePart
      <4>3. QED
        BY <4>2 DEF PartsAgree
    <3>3. QED
      BY <3>2 DEF m
  <2>2. a + (k - 1) = (a + k) - 1
    OBVIOUS
  <2>3. /\ a + i \in 1..Len(s) /\ a + k \in 1..Len(s) /\ (a + i) + 1 < a + k
        /\ s[a + i] = ")" /\ s[a + k] = "w"
    BY <1>0, <1>1
  <2>4. QED
    BY <2>1, <2>2, <2>3 DEF WordBehindSubshell
<1>6. QED
  BY <1>2, <1>3, <1>4, <1>5 DEF Sound, t

\* A text of words and redirections, the last of them complete.
Text(t) == /\ \A j \in 1..Len(t) : t[j] \in Texts
           /\ \A j \in 1..(Len(t) - 1) : Meets(t[j], t[j + 1])
           /\ t # <<>> => t[Len(t)] = "w"

\* A redirection at the front of a text, and the text behind it.
LEMMA FirstRedir ==
  ASSUME NEW t \in Readings, Text(t), t # <<>>, t[1] # "w"
  PROVE  \E k \in 2..3 : /\ k <= Len(t)
                         /\ \A v \in Readings : Len(v) >= k /\ (\A i \in 1..k : v[i] = t[i]) =>
                              AfterRedir(v) = From(v, k + 1) /\ AfterRedir(v) # <<"none">>
<1>1. Len(t) \in Nat \ {0} /\ t[Len(t)] = "w"
  BY ReadingFacts DEF Text
<1>2. 2 <= Len(t)
  <2>1. Len(t) # 1
    BY <1>1
  <2>2. QED
    BY <1>1, <2>1
<1>3. Meets(t[1], t[1 + 1])
  BY <1>2 DEF Text
<1>4. CASE t[1] = "<"
  <2>1. t[2] \in {"w", "3"}
    BY <1>3, <1>4 DEF Meets
  <2>2. ASSUME NEW v \in Readings, Len(v) >= 2, \A i \in 1..2 : v[i] = t[i]
        PROVE  AfterRedir(v) = From(v, 2 + 1) /\ AfterRedir(v) # <<"none">>
    <3>1. Len(v) >= 2 /\ v[1] = "<" /\ v[2] \in {"w", "3"}
      BY <1>4, <2>1, <2>2
    <3>2. QED
      BY <3>1, AfterRedirValue
  <2>3. QED
    BY <1>2, <2>2
<1>5. CASE t[1] = "3"
  <2>1. t[2] = "<"
    BY <1>3, <1>5 DEF Meets
  <2>2. 3 <= Len(t)
    <3>1. Len(t) # 2
      BY <1>1, <2>1
    <3>2. QED
      BY <1>1, <1>2, <3>1
  <2>3. Meets(t[2], t[2 + 1])
    BY <2>2 DEF Text
  <2>4. t[3] \in {"w", "3"}
    BY <2>1, <2>3 DEF Meets
  <2>5. ASSUME NEW v \in Readings, Len(v) >= 3, \A i \in 1..3 : v[i] = t[i]
        PROVE  AfterRedir(v) = From(v, 3 + 1) /\ AfterRedir(v) # <<"none">>
    <3>1. Len(v) >= 3 /\ v[1] = "3" /\ v[2] = "<" /\ v[3] \in {"w", "3"}
      BY <1>5, <2>1, <2>4, <2>5
    <3>2. QED
      BY <3>1, AfterRedirValue
  <2>6. QED
    BY <2>2, <2>5
<1>6. t[1] \in Texts
  BY <1>1 DEF Text
<1>7. QED
  BY <1>4, <1>5, <1>6 DEF Texts

\* What stands behind position k of a text is a text.
LEMMA TextBehind ==
  ASSUME NEW t \in Readings, Text(t), NEW k \in 1..Len(t)
  PROVE  /\ From(t, k + 1) \in Readings /\ Text(From(t, k + 1))
         /\ Len(From(t, k + 1)) = Len(t) - k /\ Len(From(t, k + 1)) < Len(t)
         /\ \A j \in 1..(Len(t) - k) : From(t, k + 1)[j] = t[k + j]
<1> DEFINE u == From(t, k + 1)
<1>1. /\ u \in Readings /\ Len(u) = Len(t) - k /\ Len(t) - k \in Nat /\ Len(t) \in Nat
      /\ \A j \in 1..(Len(t) - k) : u[j] = t[k + j]
  <2>1. k \in 0..Len(t) /\ Len(t) \in Nat
    BY ReadingFacts
  <2>2. QED
    BY <2>1, BehindFacts
<1> HIDE DEF u
<1>2. \A j \in 1..Len(u) : u[j] \in Texts
  <2> TAKE j \in 1..Len(u)
  <2>1. k + j \in 1..Len(t)
    BY <1>1
  <2>2. QED
    BY <1>1, <2>1 DEF Text
<1>3. \A j \in 1..(Len(u) - 1) : Meets(u[j], u[j + 1])
  <2> TAKE j \in 1..(Len(u) - 1)
  <2>1. k + j \in 1..(Len(t) - 1) /\ (k + j) + 1 = k + (j + 1) /\ j \in 1..Len(u) /\ j + 1 \in 1..Len(u)
    BY <1>1
  <2>2. Meets(t[k + j], t[(k + j) + 1])
    BY <2>1 DEF Text
  <2>3. QED
    BY <1>1, <2>1, <2>2
<1>4. u # <<>> => u[Len(u)] = "w"
  <2>1. CASE Len(u) # 0
    <3>1. Len(u) \in 1..Len(u) /\ k + Len(u) = Len(t) /\ t # <<>>
      BY <1>1, <2>1, ReadingFacts
    <3>2. u[Len(u)] = t[k + Len(u)]
      BY <1>1, <3>1
    <3>3. QED
      BY <3>1, <3>2 DEF Text
  <2>2. QED
    BY <1>1, <2>1, ReadingFacts
<1>5. Text(u)
  BY <1>2, <1>3, <1>4 DEF Text
<1>6. QED
  BY <1>1, <1>5 DEF u

\* Redirections up to where a word stands behind them.
LEMMA TextRedirs ==
  \A t \in Readings :
    Text(t) /\ (\A j \in 1..Len(t) : IsRedirs[SubSeq(t, 1, j - 1)] => t[j] # "w") => IsRedirs[t]
<1> DEFINE Free(t) == \A j \in 1..Len(t) : IsRedirs[SubSeq(t, 1, j - 1)] => t[j] # "w"
           Claim(t) == Text(t) /\ Free(t) => IsRedirs[t]
           S == {n \in Nat : \A t \in Readings : Len(t) = n => Claim(t)}
<1>1. ASSUME NEW n \in Nat, \A m \in 0..(n - 1) : m \in S
      PROVE  n \in S
  <2> SUFFICES ASSUME NEW t \in Readings, Len(t) = n, Text(t), Free(t)
               PROVE  IsRedirs[t]
    OBVIOUS
  <2>1. CASE t = <<>>
    BY <2>1, RedirsUnfold
  <2>2. CASE t # <<>>
    <3>0. Len(t) \in Nat \ {0} /\ <<>> \in Readings
      BY <2>2, ReadingFacts DEF Readings
    <3>1. t[1] # "w"
      <4>1. SubSeq(t, 1, 1 - 1) = <<>>
        BY DEF Readings
      <4>2. IsRedirs[<<>>]
        BY <3>0, RedirsUnfold
      <4>3. 1 \in 1..Len(t)
        BY <3>0
      <4>4. \A j \in 1..Len(t) : IsRedirs[SubSeq(t, 1, j - 1)] => t[j] # "w"
        OBVIOUS
      <4>5. IsRedirs[SubSeq(t, 1, 1 - 1)] => t[1] # "w"
        BY <4>3, <4>4
      <4> HIDE DEF Free
      <4>6. QED
        BY <4>1, <4>2, <4>5, Zenon
    <3>2. PICK k \in 2..3 :
            /\ k <= Len(t)
            /\ \A v \in Readings : Len(v) >= k /\ (\A i \in 1..k : v[i] = t[i]) =>
                 AfterRedir(v) = From(v, k + 1) /\ AfterRedir(v) # <<"none">>
      BY <2>2, <3>1, FirstRedir
    <3> DEFINE u == From(t, k + 1)
    <3>3. /\ u \in Readings /\ Text(u) /\ Len(u) = Len(t) - k /\ Len(u) < Len(t)
          /\ \A j \in 1..(Len(t) - k) : u[j] = t[k + j]
      <4>1. k \in 1..Len(t)
        BY <3>0, <3>2
      <4>2. QED
        BY <4>1, TextBehind
    <3>4. AfterRedir(t) = u /\ u # <<"none">>
      BY <3>0, <3>2
    <3>5. Free(u)
      <4> SUFFICES ASSUME NEW j \in 1..Len(u), IsRedirs[SubSeq(u, 1, j - 1)]
                   PROVE  u[j] # "w"
        OBVIOUS
      <4> DEFINE v == SubSeq(t, 1, k + j - 1)
      <4>1. k + j - 1 \in 0..Len(t) /\ k + j \in 1..Len(t) /\ k + j - 1 >= k
        BY <3>0, <3>3
      <4>2. v \in Readings /\ Len(v) = k + j - 1 /\ \A i \in 1..(k + j - 1) : v[i] = t[i]
        BY <4>1, FrontFacts
      <4>3. AfterRedir(v) = From(v, k + 1) /\ AfterRedir(v) # <<"none">>
        <5> HIDE DEF v
        <5>1. \A i \in 1..k : v[i] = t[i]
          BY <4>1, <4>2
        <5>2. QED
          BY <3>2, <4>1, <4>2, <5>1
      <4>4. From(v, k + 1) = SubSeq(u, 1, j - 1)
        <5> DEFINE x == From(v, k + 1)
                   y == SubSeq(u, 1, j - 1)
        <5>1. /\ x \in Readings /\ Len(x) = j - 1
              /\ \A i \in 1..(j - 1) : x[i] = v[k + i]
          <6> HIDE DEF v
          <6>1. k \in 0..Len(v) /\ Len(v) - k = j - 1
            BY <4>1, <4>2
          <6>2. /\ x \in Readings /\ Len(x) = Len(v) - k
                /\ \A i \in 1..(Len(v) - k) : x[i] = v[k + i]
            BY <4>2, <6>1, BehindFacts
          <6> HIDE DEF x
          <6>3. QED
            BY <6>1, <6>2
        <5>2. y \in Readings /\ Len(y) = j - 1 /\ \A i \in 1..(j - 1) : y[i] = u[i]
          <6>1. j - 1 \in 0..Len(u)
            BY <3>3
          <6> HIDE DEF u
          <6>2. QED
            BY <3>3, <6>1, FrontFacts
        <5>3. \A i \in 1..(j - 1) : x[i] = y[i]
          <6> TAKE i \in 1..(j - 1)
          <6>1. k + i \in 1..(k + j - 1) /\ i \in 1..(Len(t) - k)
            BY <3>3, <4>1
          <6> HIDE DEF u, v, x, y
          <6>2. QED
            BY <3>3, <4>2, <5>1, <5>2, <6>1
        <5> HIDE DEF x, y
        <5>4. x = y
          BY <5>1, <5>2, <5>3 DEF Readings
        <5>5. QED
          BY <5>4 DEF x, y
      <4>5. IsRedirs[v]
        <5> HIDE DEF v, u, Free
        <5>1. IsRedirs[AfterRedir(v)]
          BY <4>3, <4>4
        <5>2. QED
          BY <4>2, <4>3, <5>1, RedirsUnfold
      <4>6. t[k + j] # "w"
        <5>1. IsRedirs[SubSeq(t, 1, (k + j) - 1)]
          BY <4>5
        <5>2. QED
          BY <4>1, <5>1
      <4>7. QED
        BY <3>3, <4>6
    <3>6. IsRedirs[u]
      <4>1. Len(u) \in 0..(n - 1)
        BY <3>3, ReadingFacts
      <4>2. Len(u) \in S
        BY <1>1, <4>1
      <4> HIDE DEF u, Free
      <4>3. QED
        BY <3>3, <3>5, <4>2
    <3>7. QED
      BY <3>4, <3>6, RedirsUnfold
  <2>3. QED
    BY <2>1, <2>2
<1> HIDE DEF Claim
<1>2. S = Nat
  <2> HIDE DEF S
  <2>1. S \in SUBSET Nat
    BY DEF S
  <2>2. QED
    BY <1>1, <2>1, StrongInduction
<1>3. \A t \in Readings : Claim(t)
  BY <1>2, ReadingFacts
<1>4. QED
  BY <1>3 DEF Claim

\* Words and redirections.
LEMMA TextItems ==
  \A t \in Readings : Text(t) => IsItems[t]
<1> DEFINE Claim(t) == Text(t) => IsItems[t]
           S == {n \in Nat : \A t \in Readings : Len(t) = n => Claim(t)}
<1>1. ASSUME NEW n \in Nat, \A m \in 0..(n - 1) : m \in S
      PROVE  n \in S
  <2> SUFFICES ASSUME NEW t \in Readings, Len(t) = n, Text(t)
               PROVE  IsItems[t]
    OBVIOUS
  <2>0. ASSUME NEW u \in Readings, Text(u), Len(u) < n
        PROVE  IsItems[u]
    <3>1. Len(u) \in 0..(n - 1)
      BY <2>0, ReadingFacts
    <3>2. Len(u) \in S
      BY <1>1, <3>1
    <3>3. QED
      BY <2>0, <3>2
  <2>1. CASE t = <<>>
    BY <2>1, ItemsUnfold
  <2>2. CASE t # <<>> /\ t[1] = "w"
    <3>1. Tail(t) = From(t, 1 + 1) /\ Len(t) \in Nat \ {0}
      BY <2>2 DEF From, Readings
    <3>2. Tail(t) \in Readings /\ Text(Tail(t)) /\ Len(Tail(t)) < n
      <4> DEFINE k == 1
      <4>1. k \in 1..Len(t) /\ Tail(t) = From(t, k + 1)
        BY <3>1
      <4> HIDE DEF k
      <4>2. QED
        BY <4>1, TextBehind
    <3>3. QED
      BY <2>0, <2>2, <3>2, ItemsUnfold
  <2>3. CASE t # <<>> /\ t[1] # "w"
    <3>0. Len(t) \in Nat \ {0}
      BY <2>3, ReadingFacts
    <3>1. PICK k \in 2..3 :
            /\ k <= Len(t)
            /\ \A v \in Readings : Len(v) >= k /\ (\A i \in 1..k : v[i] = t[i]) =>
                 AfterRedir(v) = From(v, k + 1) /\ AfterRedir(v) # <<"none">>
      BY <2>3, FirstRedir
    <3>2. AfterRedir(t) = From(t, k + 1) /\ AfterRedir(t) # <<"none">>
      BY <3>0, <3>1
    <3>3. From(t, k + 1) \in Readings /\ Text(From(t, k + 1)) /\ Len(From(t, k + 1)) < n
      <4>1. k \in 1..Len(t)
        BY <3>0, <3>1
      <4>2. QED
        BY <4>1, TextBehind
    <3>4. QED
      BY <2>0, <3>2, <3>3, ItemsUnfold
  <2>4. QED
    BY <2>1, <2>2, <2>3
<1> HIDE DEF Claim
<1>2. S = Nat
  <2> HIDE DEF S
  <2>1. S \in SUBSET Nat
    BY DEF S
  <2>2. QED
    BY <1>1, <2>1, StrongInduction
<1>3. \A t \in Readings : Claim(t)
  BY <1>2, ReadingFacts
<1>4. QED
  BY <1>3 DEF Claim

\* No operator stands outside the brackets.
NoOperator(s) == \A k \in 1..Len(s) : s[k] \in Operators => Depth(s, k) # 0

\* Behind a place outside the brackets there are words and redirections only.
LEMMA FlatBehind ==
  ASSUME NEW s \in Readings, Sound(s), NoOperator(s), NEW n \in 0..Len(s), Depth(s, n) = 0,
         IF n = 0 THEN s[1] # "(" ELSE s[n] = ")"
  PROVE  \A j \in (n + 1)..Len(s) : s[j] \in Texts
<1> DEFINE P == {m \in Nat : n + m <= Len(s) =>
                    Depth(s, n + m) = 0 /\ \A j \in (n + 1)..(n + m) : s[j] \in Texts}
<1>0. Len(s) \in Nat
  BY ReadingFacts
<1>1. 0 \in P
  BY <1>0
<1>2. ASSUME NEW m \in P
      PROVE  m + 1 \in P
  <2> SUFFICES ASSUME n + (m + 1) <= Len(s)
               PROVE  /\ Depth(s, n + (m + 1)) = 0
                      /\ \A j \in (n + 1)..(n + (m + 1)) : s[j] \in Texts
    OBVIOUS
  <2> DEFINE i == n + m + 1
  <2>1. /\ m \in Nat /\ i \in 1..Len(s) /\ i - 1 = n + m /\ n + (m + 1) = i /\ i \in Nat \ {0}
        /\ Depth(s, i - 1) = 0 /\ \A j \in (n + 1)..(i - 1) : s[j] \in Texts
    BY <1>0
  <2> HIDE DEF P, i
  <2>2. s[i] \in Operators \cup {"w", "3", "<", "(", ")"}
    BY <2>1, ReadingFacts
  <2>3. s[i] # ")"
    <3> SUFFICES ASSUME s[i] = ")"
                 PROVE  FALSE
      OBVIOUS
    <3>1. Depth(s, i) = Depth(s, i - 1) - 1
      BY <2>1, DepthBack
    <3>2. Depth(s, i) >= 0
      BY <2>1 DEF Sound, Level
    <3>3. QED
      BY <2>1, <3>1, <3>2
  <2>4. s[i] \notin Operators
    <3> SUFFICES ASSUME s[i] \in Operators
                 PROVE  FALSE
      OBVIOUS
    <3>1. s[i] \notin {"(", ")"}
      BY DEF Operators
    <3>2. Depth(s, i) = 0
      BY <2>1, <3>1, DepthBack
    <3>3. QED
      BY <2>1, <3>2 DEF NoOperator
  <2>5. s[i] # "("
    <3>1. CASE i = 1
      <4>1. n = 0
        BY <2>1, <3>1
      <4>2. QED
        BY <3>1, <4>1
    <3>2. CASE i # 1
      <4>1. i - 1 \in 1..(Len(s) - 1) /\ (i - 1) + 1 = i
        BY <1>0, <2>1, <3>2
      <4>2. Meets(s[i - 1], s[(i - 1) + 1])
        BY <4>1 DEF Sound
      <4>3. s[i - 1] \in Texts \cup {")"}
        <5>1. CASE i - 1 = n
          BY <4>1, <5>1
        <5>2. CASE i - 1 # n
          <6>1. i - 1 \in (n + 1)..(i - 1)
            BY <2>1, <5>2
          <6>2. QED
            BY <2>1, <6>1
        <5>3. QED
          BY <5>1, <5>2
      <4>4. QED
        BY <4>1, <4>2, <4>3 DEF Meets, Texts
    <3>3. QED
      BY <3>1, <3>2
  <2>6. s[i] \in Texts
    BY <2>2, <2>3, <2>4, <2>5 DEF Texts
  <2>7. Depth(s, i) = 0
    BY <2>1, <2>3, <2>5, DepthBack
  <2>8. \A j \in (n + 1)..i : j \in (n + 1)..(i - 1) \/ j = i
    BY <2>1
  <2>9. QED
    BY <2>1, <2>6, <2>7, <2>8
<1>3. P = Nat
  <2> HIDE DEF P
  <2>1. P \in SUBSET Nat
    BY DEF P
  <2>2. QED
    BY <1>1, <1>2, <2>1, Induction
<1>4. Len(s) - n \in P /\ n + (Len(s) - n) = Len(s)
  <2>1. Len(s) - n \in Nat /\ n + (Len(s) - n) = Len(s)
    BY <1>0
  <2>2. QED
    BY <1>3, <2>1
<1>5. QED
  BY <1>4

\* The end of a sound text is a text.
LEMMA FlatText ==
  ASSUME NEW s \in Readings, Sound(s), NEW n \in 0..Len(s),
         \A j \in (n + 1)..Len(s) : s[j] \in Texts
  PROVE  From(s, n + 1) \in Readings /\ Text(From(s, n + 1))
<1> DEFINE u == From(s, n + 1)
<1>0. Len(s) \in Nat
  BY ReadingFacts
<1>1. /\ u \in Readings /\ Len(u) = Len(s) - n /\ Len(s) - n \in Nat
      /\ \A j \in 1..(Len(s) - n) : u[j] = s[n + j]
  BY BehindFacts
<1> HIDE DEF u
<1>2. \A j \in 1..Len(u) : u[j] \in Texts
  <2> TAKE j \in 1..Len(u)
  <2>1. n + j \in (n + 1)..Len(s)
    BY <1>0, <1>1
  <2>2. QED
    BY <1>1, <2>1
<1>3. \A j \in 1..(Len(u) - 1) : Meets(u[j], u[j + 1])
  <2> TAKE j \in 1..(Len(u) - 1)
  <2>1. n + j \in 1..(Len(s) - 1) /\ (n + j) + 1 = n + (j + 1) /\ j \in 1..Len(u) /\ j + 1 \in 1..Len(u)
    BY <1>0, <1>1
  <2>2. Meets(s[n + j], s[(n + j) + 1])
    BY <2>1 DEF Sound
  <2>3. QED
    BY <1>1, <2>1, <2>2
<1>4. u # <<>> => u[Len(u)] = "w"
  <2>1. CASE Len(u) # 0
    <3>1. Len(u) \in 1..Len(u) /\ n + Len(u) = Len(s)
      BY <1>1, <2>1
    <3>2. u[Len(u)] = s[Len(s)] /\ u[Len(u)] \in Texts
      BY <1>1, <1>2, <3>1
    <3>3. s[Len(s)] \in {"w", ")"}
      BY DEF Sound
    <3>4. QED
      BY <3>2, <3>3 DEF Texts
  <2>2. QED
    BY <1>1, <2>1, ReadingFacts
<1>5. QED
  BY <1>1, <1>2, <1>3, <1>4 DEF Text, u

\* What may stand in front of an operator or a closing bracket.
LEMMA MeetsClose ==
  ASSUME NEW x \in Operators \cup {"w", "3", "<", "(", ")"}, NEW y \in Operators \cup {")"}, Meets(x, y)
  PROVE  x \in {"w", ")"}
BY DEF Meets, Operators, Begins

\* A sound text without an operator outside the brackets is a command.
LEMMA SoundCommand ==
  ASSUME NEW c \in Readings, Sound(c), NoOperator(c),
         \A t \in Readings : Sound(t) /\ Len(t) < Len(c) => IsList[t]
  PROVE  IsCommandBy(IsList, c)
<1>0. Len(c) \in Nat \ {0} /\ c # <<>>
  BY ReadingFacts DEF Sound
<1>1. CASE c[1] # "("
  <2> DEFINE n == 0
  <2>1. n \in 0..Len(c) /\ Depth(c, n) = 0 /\ (IF n = 0 THEN c[1] # "(" ELSE c[n] = ")")
    BY <1>0, <1>1, DepthStep
  <2>2. c = From(c, n + 1)
    BY <1>0 DEF From, Readings
  <2> HIDE DEF n
  <2>3. \A j \in (n + 1)..Len(c) : c[j] \in Texts
    BY <2>1, FlatBehind
  <2>4. Text(c)
    BY <2>1, <2>2, <2>3, FlatText
  <2>5. QED
    BY <1>0, <2>4, TextItems DEF IsCommandBy
<1>2. CASE c[1] = "("
  <2>1. Depth(c, 1) = 1
    <3>1. Depth(c, 1) = Depth(c, 1 - 1) + 1
      BY <1>2, DepthBack
    <3>2. QED
      BY <3>1, DepthStep
  <2>2. Depth(c, Len(c)) = 0 /\ \A j \in 0..Len(c) : Depth(c, j) >= 0
    BY DEF Sound, Level
  <2>3. Len(c) >= 2
    BY <1>0, <2>1, <2>2
  <2> DEFINE K == {k \in Nat : k >= 2 /\ k <= Len(c) /\ Depth(c, k) = 0}
  <2>4. PICK k \in K : \A m \in K : k <= m
    <3>1. K \in SUBSET Nat /\ Len(c) \in K
      BY <1>0, <2>2, <2>3
    <3>2. K # {}
      BY <3>1
    <3> HIDE DEF K
    <3>3. QED
      BY <3>1, <3>2, LeastOf
  <2>5. k \in 2..Len(c) /\ Depth(c, k) = 0
    OBVIOUS
  <2>6. \A j \in 1..(k - 1) : Depth(c, j) >= 1
    <3> TAKE j \in 1..(k - 1)
    <3>1. CASE j = 1
      BY <2>1, <3>1
    <3>2. CASE j # 1
      <4>1. j \in Nat /\ j >= 2 /\ j <= Len(c) /\ j \in 0..Len(c)
        BY <3>2
      <4>2. j \notin K
        BY <2>4
      <4>3. Depth(c, j) # 0 /\ Depth(c, j) >= 0 /\ Depth(c, j) \in Int
        BY <2>2, <4>1, <4>2, DepthStep
      <4>4. QED
        BY <4>3
    <3>3. QED
      BY <3>1, <3>2
  <2> HIDE DEF K
  <2>7. c[k] = ")" /\ Depth(c, k - 1) = 1
    <3>1. k \in Nat \ {0} /\ k - 1 \in 1..(k - 1)
      BY <2>5
    <3>2. Depth(c, k - 1) >= 1 /\ Depth(c, k - 1) \in Int
      BY <2>6, <3>1, DepthBack
    <3>3. c[k] = ")"
      BY <2>5, <3>1, <3>2, DepthBack
    <3>4. Depth(c, k) = Depth(c, k - 1) - 1
      BY <3>1, <3>3, DepthBack
    <3>5. QED
      BY <2>5, <3>2, <3>3, <3>4
  <2>8. \A j \in 1..(Len(c) - 1) : Meets(c[j], c[j + 1])
    BY DEF Sound
  <2>9. c[2] \in Begins
    <3>1. Meets(c[1], c[1 + 1])
      BY <2>3, <2>8
    <3>2. QED
      BY <1>2, <3>1 DEF Meets
  <2>10. k # 2
    BY <2>7, <2>9 DEF Begins
  <2>11. c[k - 1] \in {"w", ")"}
    <3>1. k - 1 \in 1..(Len(c) - 1) /\ (k - 1) + 1 = k /\ k - 1 \in 1..Len(c)
      BY <2>5
    <3>2. Meets(c[k - 1], c[k])
      BY <2>8, <3>1
    <3>3. QED
      BY <2>7, <3>1, <3>2, MeetsClose, ReadingFacts
  <2>12. IsList[SubSeq(c, 2, k - 1)]
    <3> DEFINE a == 1
               n == k - 2
    <3>1. /\ a \in Nat /\ n \in Nat \ {0} /\ a + n <= Len(c) /\ a + n = k - 1 /\ n < Len(c)
          /\ SubSeq(c, 2, k - 1) = SubSeq(c, a + 1, a + n)
      BY <1>0, <2>5, <2>10
    <3>2. /\ c[a + 1] \notin Operators /\ c[a + n] \in {"w", ")"}
          /\ Depth(c, a + n) = Depth(c, a)
      <4>1. a + 1 = 2 /\ a = 1
        OBVIOUS
      <4>2. c[2] \notin Operators
        BY <2>9 DEF Begins, Operators
      <4> HIDE DEF a, n
      <4>3. QED
        BY <2>1, <2>7, <2>11, <3>1, <4>1, <4>2
    <3>3. \A j \in a..(a + n) : Depth(c, j) >= Depth(c, a)
      BY <2>1, <2>6, <3>1
    <3> HIDE DEF a, n
    <3>4. Sound(SubSeq(c, a + 1, a + n))
      BY <3>1, <3>2, <3>3, SoundPart
    <3>5. SubSeq(c, a + 1, a + n) \in Readings /\ Len(SubSeq(c, a + 1, a + n)) = n
      BY <3>1, PieceFacts
    <3>6. QED
      BY <3>1, <3>4, <3>5
  <2>13. IsRedirs[From(c, k + 1)]
    <3> DEFINE u == From(c, k + 1)
    <3>0. k \in 0..Len(c) /\ k # 0 /\ k \in Nat
      BY <2>5
    <3>1. \A j \in (k + 1)..Len(c) : c[j] \in Texts
      BY <2>5, <2>7, <3>0, FlatBehind
    <3>2. u \in Readings /\ Text(u)
      BY <3>0, <3>1, FlatText
    <3>3. Len(u) = Len(c) - k /\ \A j \in 1..(Len(c) - k) : u[j] = c[k + j]
      BY <3>0, BehindFacts
    <3> HIDE DEF u
    <3>4. ASSUME NEW j \in 1..Len(u), IsRedirs[SubSeq(u, 1, j - 1)]
          PROVE  u[j] # "w"
      <4>1. CASE j = 1
        <5>1. k \in 1..(Len(c) - 1)
          BY <1>0, <3>0, <3>3
        <5>2. Meets(c[k], c[k + 1])
          BY <2>8, <5>1
        <5>3. u[1] = c[k + 1]
          BY <3>3, <5>1
        <5>4. QED
          BY <2>7, <4>1, <5>2, <5>3 DEF Meets
      <4>2. CASE j # 1
        <5>1. SubSeq(u, 1, j - 1) = SubSeq(c, k + 1, (k + j) - 1)
          <6> DEFINE i == 0
                     m == j - 1
          <6>1. /\ i \in Nat /\ m \in Nat /\ i <= m /\ m <= Len(u) /\ k + Len(u) <= Len(c)
                /\ \A l \in 1..Len(u) : u[l] = c[k + l]
            BY <1>0, <3>0, <3>3
          <6>2. i + 1 = 1 /\ k + i + 1 = k + 1 /\ k + m = (k + j) - 1
            BY <3>0
          <6> HIDE DEF i, m
          <6>3. SubSeq(u, i + 1, m) = SubSeq(c, k + i + 1, k + m)
            <7>1. Copied(u, c, k, Len(u))
              BY <3>0, <3>2, <6>1 DEF Copied
            <7>2. PartsAgree(u, c, k, i, m)
              BY <3>0, <3>2, <6>1, <7>1, SamePart
            <7>3. QED
              BY <7>2 DEF PartsAgree
          <6>4. QED
            BY <6>2, <6>3 DEF m
        <5>2. k \in 1..Len(c) /\ k + j \in 1..Len(c) /\ k + 1 < k + j
          BY <1>0, <3>0, <3>3, <4>2
        <5>3. ~WordBehindSubshell(c)
          BY DEF Sound
        <5>4. c[k + j] # "w"
          BY <2>7, <3>4, <5>1, <5>2, <5>3 DEF WordBehindSubshell
        <5>5. QED
          BY <3>3, <5>4
      <4>3. QED
        BY <4>1, <4>2
    <3>5. IsRedirs[u]
      BY <3>2, <3>4, TextRedirs
    <3>6. QED
      BY <3>5 DEF u
  <2>14. QED
    BY <1>0, <1>2, <2>5, <2>7, <2>12, <2>13 DEF IsCommandBy
<1>3. QED
  BY <1>1, <1>2

\* A sound text is a list.
LEMMA SoundList ==
  \A s \in Readings : Sound(s) => IsList[s]
<1> DEFINE Claim(s) == Sound(s) => IsList[s]
           S == {n \in Nat : \A s \in Readings : Len(s) = n => Claim(s)}
<1>1. ASSUME NEW n \in Nat, \A m \in 0..(n - 1) : m \in S
      PROVE  n \in S
  <2> SUFFICES ASSUME NEW s \in Readings, Len(s) = n, Sound(s)
               PROVE  IsList[s]
    OBVIOUS
  <2>0. Len(s) \in Nat \ {0} /\ s # <<>>
    BY ReadingFacts DEF Sound
  <2>1. \A t \in Readings : Sound(t) /\ Len(t) < Len(s) => IsList[t]
    <3> SUFFICES ASSUME NEW t \in Readings, Sound(t), Len(t) < Len(s)
                 PROVE  IsList[t]
      OBVIOUS
    <3>1. Len(t) \in 0..(n - 1)
      BY ReadingFacts
    <3>2. Len(t) \in S
      BY <1>1, <3>1
    <3>3. QED
      BY <3>2
  <2>2. CASE NoOperator(s)
    <3>1. IsCommandBy(IsList, s)
      BY <2>1, <2>2, SoundCommand
    <3>2. QED
      BY <3>1, ListUnfold DEF IsListBy
  <2>3. CASE ~NoOperator(s)
    <3> DEFINE K == {k \in Nat : k \in 1..Len(s) /\ s[k] \in Operators /\ Depth(s, k) = 0}
    <3>1. PICK k \in K : \A m \in K : k <= m
      <4>1. K \in SUBSET Nat /\ K # {}
        BY <2>3 DEF NoOperator
      <4> HIDE DEF K
      <4>2. QED
        BY <4>1, LeastOf
    <3>2. k \in 1..Len(s) /\ s[k] \in Operators /\ Depth(s, k) = 0 /\ k \in Nat
      OBVIOUS
    <3>3. \A j \in 1..(k - 1) : s[j] \in Operators => Depth(s, j) # 0
      <4> TAKE j \in 1..(k - 1)
      <4>1. j \notin K /\ j \in Nat /\ j \in 1..Len(s)
        BY <3>1
      <4>2. QED
        BY <4>1
    <3> HIDE DEF K
    <3>4. \A j \in 1..(Len(s) - 1) : Meets(s[j], s[j + 1])
      BY DEF Sound
    <3>5. Depth(s, Len(s)) = 0 /\ \A j \in 0..Len(s) : Depth(s, j) >= 0
      BY DEF Sound, Level
    <3>6. k > 1 /\ k < Len(s)
      <4>1. k # 1
        BY <3>2 DEF Sound
      <4>2. k # Len(s)
        BY <3>2 DEF Sound, Operators
      <4>3. QED
        BY <2>0, <3>2, <4>1, <4>2
    <3>7. Depth(s, k - 1) = 0
      <4>1. s[k] \notin {"(", ")"} /\ k \in Nat \ {0}
        BY <3>2 DEF Operators
      <4>2. QED
        BY <3>2, <4>1, DepthBack
    <3>8. s[k - 1] \in {"w", ")"}
      <4>1. k - 1 \in 1..(Len(s) - 1) /\ (k - 1) + 1 = k /\ k - 1 \in 1..Len(s)
        BY <2>0, <3>2, <3>6
      <4>2. Meets(s[k - 1], s[k])
        BY <3>4, <4>1
      <4>3. QED
        BY <3>2, <4>1, <4>2, MeetsClose, ReadingFacts
    <3>9. IsCommandBy(IsList, SubSeq(s, 1, k - 1))
      <4> DEFINE a == 0
                 m == k - 1
                 c == SubSeq(s, a + 1, a + m)
      <4>1. /\ a \in Nat /\ m \in Nat \ {0} /\ m \in Nat /\ a + m <= Len(s) /\ a + m = k - 1 /\ m < Len(s)
            /\ a + 1 = 1 /\ a = 0 /\ m = k - 1 /\ c = SubSeq(s, 1, k - 1)
        BY <2>0, <3>2, <3>6
      <4> HIDE DEF a, m, c
      <4>2. /\ s[a + 1] \notin Operators /\ s[a + m] \in {"w", ")"}
            /\ Depth(s, a + m) = Depth(s, a)
        BY <3>7, <3>8, <4>1, DepthStep DEF Sound
      <4>3. \A j \in a..(a + m) : Depth(s, j) >= Depth(s, a)
        BY <2>0, <3>2, <3>5, <4>1, DepthStep
      <4>4. Sound(c)
        BY <4>1, <4>2, <4>3, SoundPart DEF c
      <4>5. c \in Readings /\ Len(c) = m /\ \A j \in 1..m : c[j] = s[a + j]
        BY <4>1, PieceFacts DEF c
      <4>6. \A j \in 0..m : Depth(c, j) = Depth(s, a + j) - Depth(s, a)
        BY <4>1, PieceDepth DEF c
      <4>7. NoOperator(c)
        <5> SUFFICES ASSUME NEW j \in 1..m, c[j] \in Operators
                     PROVE  Depth(c, j) # 0
          BY <4>5 DEF NoOperator
        <5>1. j \in 0..m /\ a + j = j /\ j \in 1..(k - 1) /\ j \in Nat
          BY <4>1
        <5>2. s[j] \in Operators /\ Depth(c, j) = Depth(s, j) - 0 /\ Depth(s, j) \in Int
          BY <4>1, <4>5, <4>6, <5>1, DepthStep
        <5>3. QED
          BY <3>3, <5>1, <5>2
      <4>8. \A t \in Readings : Sound(t) /\ Len(t) < Len(c) => IsList[t]
        <5> SUFFICES ASSUME NEW t \in Readings, Sound(t), Len(t) < Len(c)
                     PROVE  IsList[t]
          OBVIOUS
        <5>1. Len(t) < Len(s)
          BY <2>0, <4>1, <4>5, ReadingFacts
        <5>2. QED
          BY <2>1, <5>1
      <4>9. QED
        BY <4>1, <4>4, <4>5, <4>7, <4>8, SoundCommand
    <3>10. IsList[From(s, k + 1)]
      <4> DEFINE m == Len(s) - k
                 u == SubSeq(s, k + 1, k + m)
      <4>1. /\ m \in Nat \ {0} /\ m \in Nat /\ k + m <= Len(s) /\ k + m = Len(s) /\ m < Len(s)
            /\ u = From(s, k + 1)
        BY <2>0, <3>2, <3>6 DEF From
      <4> HIDE DEF m, u
      <4>2. s[k + 1] \notin Operators
        <5>1. k \in 1..(Len(s) - 1)
          BY <2>0, <3>2, <3>6
        <5>2. Meets(s[k], s[k + 1])
          BY <3>4, <5>1
        <5>3. QED
          BY <3>2, <5>2 DEF Meets, Begins, Operators
      <4>3. s[k + m] \in {"w", ")"} /\ Depth(s, k + m) = Depth(s, k)
        BY <3>2, <3>5, <4>1 DEF Sound
      <4>4. \A j \in k..(k + m) : Depth(s, j) >= Depth(s, k)
        BY <2>0, <3>2, <3>5, <4>1
      <4>5. Sound(u)
        BY <3>2, <4>1, <4>2, <4>3, <4>4, SoundPart DEF u
      <4>6. u \in Readings /\ Len(u) = m
        BY <3>2, <4>1, PieceFacts DEF u
      <4>7. QED
        BY <2>1, <4>1, <4>5, <4>6
    <3>11. IsListBy(IsList, s)
      BY <3>2, <3>9, <3>10 DEF IsListBy
    <3>12. QED
      BY <3>11, ListUnfold
  <2>4. QED
    BY <2>2, <2>3
<1> HIDE DEF Claim
<1>2. S = Nat
  <2> HIDE DEF S
  <2>1. S \in SUBSET Nat
    BY DEF S
  <2>2. QED
    BY <1>1, <2>1, StrongInduction
<1>3. \A s \in Readings : Claim(s)
  BY <1>2, ReadingFacts
<1>4. QED
  BY <1>3 DEF Claim
-----------------------------------------------------------------------------
(* Quotes and the reading of a line, position by position.                 *)

\* The positions that are plain, and those behind which a quote is open.
LEMMA PlainFacts ==
  ASSUME NEW s \in Seq(AllTokens), NEW i \in 1..Len(s)
  PROVE  /\ i \in Plain(s) <=> Quote(s)[i - 1] = "none" /\ s[i] \notin Quotes
         /\ i \in Plain(s) => Quote(s)[i] = "none"
         /\ Quote(s)[i] # "none" => InWord(s, i)
<1>1. i \in Plain(s) <=> Quote(s)[i - 1] = "none" /\ s[i] \notin Quotes
  BY DEF Plain
<1>2. i \in Plain(s) => Quote(s)[i] = "none"
  BY <1>1, QuoteUnfold
<1>3. QED
  BY <1>1, <1>2 DEF InWord

\* Without quotes what stands behind a plain position is plain.
LEMMA PlainRun ==
  ASSUME NEW s \in Seq(AllTokens), NEW a \in Plain(s), NEW b \in 1..Len(s),
         \A j \in (a + 1)..b : s[j] \notin Quotes
  PROVE  \A j \in a..b : j \in Plain(s)
<1> DEFINE P == {n \in Nat : a + n <= b => a + n \in Plain(s)}
<1>0. a \in 1..Len(s) /\ Len(s) \in Nat
  BY DEF Plain
<1>1. 0 \in P
  BY <1>0
<1>2. ASSUME NEW n \in P
      PROVE  n + 1 \in P
  <2> SUFFICES ASSUME a + (n + 1) <= b
               PROVE  a + (n + 1) \in Plain(s)
    OBVIOUS
  <2> DEFINE i == a + (n + 1)
  <2>1. i - 1 \in Plain(s) /\ i - 1 \in 1..Len(s) /\ i \in 1..Len(s) /\ i \in (a + 1)..b
    <3>1. n \in Nat /\ i - 1 = a + n /\ a + n <= b
      BY <1>0
    <3>2. a + n \in Plain(s)
      BY <3>1
    <3>3. QED
      BY <1>0, <3>1, <3>2
  <2> HIDE DEF i, P
  <2>2. Quote(s)[i - 1] = "none"
    BY <2>1, PlainFacts
  <2>3. QED
    BY <2>1, <2>2, PlainFacts DEF i
<1>3. P = Nat
  <2> HIDE DEF P
  <2>1. P \in SUBSET Nat
    BY DEF P
  <2>2. QED
    BY <1>1, <1>2, <2>1, Induction
<1>4. ASSUME NEW j \in a..b
      PROVE  j \in Plain(s)
  <2>1. j - a \in Nat /\ a + (j - a) = j /\ j <= b
    BY <1>0
  <2>2. j - a \in P
    BY <1>3, <2>1
  <2>3. QED
    BY <2>1, <2>2
<1>5. QED
  BY <1>4

\* What has been read at a position is the beginning of the reading.
LEMMA ReadPrefix ==
  ASSUME NEW s \in Seq(AllTokens), NEW n \in 0..Len(s)
  PROVE  /\ Read(s)[n] \in Readings /\ Reading(s) \in Readings
         /\ Len(Read(s)[n]) <= Len(Reading(s))
         /\ \A j \in 1..Len(Read(s)[n]) : Reading(s)[j] = Read(s)[n][j]
<1> DEFINE r(k) == Read(s)[k]
           P == {m \in Nat : n + m <= Len(s) =>
                    /\ Len(r(n)) <= Len(r(n + m))
                    /\ \A j \in 1..Len(r(n)) : r(n + m)[j] = r(n)[j]}
<1>0. Len(s) \in Nat /\ \A k \in 0..Len(s) : r(k) \in Readings /\ Len(r(k)) \in Nat
  BY ReadUnfold, ReadingFacts
<1> HIDE DEF r
<1>1. 0 \in P
  BY <1>0
<1>2. ASSUME NEW m \in P
      PROVE  m + 1 \in P
  <2> SUFFICES ASSUME n + (m + 1) <= Len(s)
               PROVE  /\ Len(r(n)) <= Len(r(n + (m + 1)))
                      /\ \A j \in 1..Len(r(n)) : r(n + (m + 1))[j] = r(n)[j]
    OBVIOUS
  <2>1. /\ m \in Nat /\ n + m \in 0..Len(s) /\ n + m + 1 \in 1..Len(s)
        /\ (n + m + 1) - 1 = n + m /\ n + (m + 1) = n + m + 1
        /\ Len(r(n)) <= Len(r(n + m))
        /\ \A j \in 1..Len(r(n)) : r(n + m)[j] = r(n)[j]
    BY <1>0
  <2> HIDE DEF P
  <2>2. r(n + m + 1) = r(n + m) \o Piece(s, n + m + 1) /\ Piece(s, n + m + 1) \in Readings
    BY <2>1, ReadUnfold, PieceType DEF r
  <2>3. /\ Len(r(n + m)) <= Len(r(n + m + 1))
        /\ \A j \in 1..Len(r(n + m)) : r(n + m + 1)[j] = r(n + m)[j]
    <3>1. r(n + m) \in Readings
      BY <1>0, <2>1
    <3>2. QED
      BY <2>2, <3>1 DEF Readings
  <2>4. Len(r(n)) \in Nat /\ Len(r(n + m)) \in Nat /\ Len(r(n + m + 1)) \in Nat
    BY <1>0, <2>1
  <2>5. QED
    BY <2>1, <2>3, <2>4
<1>3. P = Nat
  <2> HIDE DEF P
  <2>1. P \in SUBSET Nat
    BY DEF P
  <2>2. QED
    BY <1>1, <1>2, <2>1, Induction
<1>4. Len(s) - n \in Nat /\ n + (Len(s) - n) = Len(s)
  BY <1>0
<1>5. Len(s) - n \in P
  BY <1>3, <1>4
<1>6. Len(r(n)) <= Len(r(Len(s))) /\ \A j \in 1..Len(r(n)) : r(Len(s))[j] = r(n)[j]
  BY <1>4, <1>5
<1>7. QED
  BY <1>0, <1>6 DEF r, Reading
-----------------------------------------------------------------------------
(* A token more.                                                           *)

\* A reading and a token more.
LEMMA AppendFacts ==
  ASSUME NEW r \in Readings, NEW x, <<x>> \in Readings
  PROVE  /\ r \o <<x>> \in Readings /\ Len(r \o <<x>>) = Len(r) + 1 /\ Len(r) \in Nat
         /\ \A j \in 1..Len(r) : (r \o <<x>>)[j] = r[j]
         /\ (r \o <<x>>)[Len(r) + 1] = x
BY DEF Readings

\* The brackets that are open, with a token more.
LEMMA AppendDepth ==
  ASSUME NEW r \in Readings, NEW x, <<x>> \in Readings
  PROVE  /\ \A k \in 0..Len(r) : Depth(r \o <<x>>, k) = Depth(r, k)
         /\ x = "(" => Depth(r \o <<x>>, Len(r) + 1) = Depth(r, Len(r)) + 1
         /\ x = ")" => Depth(r \o <<x>>, Len(r) + 1) = Depth(r, Len(r)) - 1
         /\ x \notin {"(", ")"} => Depth(r \o <<x>>, Len(r) + 1) = Depth(r, Len(r))
<1> DEFINE q == r \o <<x>>
           a == 0
           n == Len(r)
<1>1. /\ n \in Nat /\ a \in Nat /\ \A j \in 1..n : r[j] = q[a + j]
      /\ q[n + 1] = x
  BY AppendFacts
<1> HIDE DEF q, a, n
<1>2. \A j \in 0..n : Depth(r, j) = Depth(q, a + j) - Depth(q, a)
  <2>1. Copied(r, q, a, n)
    BY <1>1 DEF Copied
  <2>2. Shifted(r, q, a, n)
    BY <1>1, <2>1, DepthAlong
  <2>3. QED
    BY <2>2 DEF Shifted
<1>3. \A j \in 0..n : Depth(q, a + j) = Depth(q, j) /\ Depth(q, a) = 0 /\ Depth(q, j) \in Int
  BY DepthStep DEF a
<1>4. \A j \in 0..n : Depth(q, j) = Depth(r, j)
  BY <1>2, <1>3
<1>5. Depth(q, n) = Depth(r, n)
  BY <1>1, <1>4
<1>6. /\ x = "(" => Depth(q, n + 1) = Depth(q, n) + 1
      /\ x = ")" => Depth(q, n + 1) = Depth(q, n) - 1
      /\ x \notin {"(", ")"} => Depth(q, n + 1) = Depth(q, n)
  BY <1>1, DepthStep
<1>7. QED
  BY <1>4, <1>5, <1>6 DEF q, n
-----------------------------------------------------------------------------
(* The scan.                                                               *)

\* What has been read so far.
done == Read(line)[iter - 1]

LastOf(r) == r[Len(r)]

\* What the scan lets stand side by side.
Beside(x, y) == /\ x = "<" => y \in {"w", "3"}
                /\ x \in Operators => y \notin Operators
                /\ x = "(" => y \notin Operators \cup {")"}
                /\ x = "3" => y = "<"

Loose(r) == Adjacent(r, {")"}, {"w"})

\* The quote that is open.
QuoteRight ==
  /\ ~(squote /\ dquote)
  /\ Quote(line)[iter - 1] = IF squote THEN "sq" ELSE IF dquote THEN "dq" ELSE "none"

\* The brackets that are open, never too few of them.
BracketRight ==
  /\ bracket = -Depth(done, Len(done))
  /\ \A k \in 0..Len(done) : Depth(done, k) >= 0

\* The last token is a word, or the operator last passed.
LastRight ==
  /\ count => done # <<>> /\ LastOf(done) \in {"w", "3"}
  /\ ~count /\ operator = -1 => done = <<>>
  /\ ~count /\ operator # -1 => done # <<>> /\ get_operator_group(LastOf(done)) = operator
  /\ iter > 1 /\ InWord(line, iter - 1) => count

\* Behind the first of the digits that belong to a redirection come the others
\* and the operator.
DigitsRight ==
  done # <<>> /\ LastOf(done) = "3" =>
    /\ iter > 1 /\ InWord(line, iter - 1)
    /\ \E k \in Plain(line) : /\ k >= iter /\ line[k] = "<"
                              /\ \A j \in iter..(k - 1) : j \in Plain(line) /\ line[j] = "3"

PairsRight ==
  /\ done # <<>> => done[1] \notin Operators
  /\ \A j \in 1..(Len(done) - 1) : Beside(done[j], done[j + 1])

\* What stands behind the last ")".  A word right behind one has not been
\* passed, unless behind digits that stand apart from their operator.
GapRight ==
  /\ operator = 32 =>
       /\ last_oper \in Plain(line) /\ last_oper < iter /\ line[last_oper] = ")"
       /\ \A j \in (last_oper + 1)..(iter - 1) :
            j \in Plain(line) => get_operator_group(line[j]) = 0
  /\ operator = 32 /\ ~count => \A j \in (last_oper + 1)..(iter - 1) : line[j] = "sp"
  /\ operator = 32 /\ count =>
       \E m \in (last_oper + 1)..(iter - 1) :
         /\ InWord(line, m) /\ \A j \in (last_oper + 1)..(m - 1) : line[j] = "sp"
         /\ IF Number(line, m) THEN ~DigitsBehindBracket => ~Loose(done) ELSE Loose(done)
  /\ ~(operator = 32 /\ count) /\ ~DigitsBehindBracket => ~Loose(done)

ScanRight == /\ QuoteRight /\ BracketRight /\ LastRight
             /\ DigitsRight /\ PairsRight /\ GapRight

TypeInv == SyntaxTypeOK /\ bracket >= 1 - iter

\* Sequences over a larger set.
LEMMA SeqLarger ==
  ASSUME NEW A, NEW B, A \subseteq B, NEW s \in Seq(A)
  PROVE  s \in Seq(B) /\ Len(s) \in Nat
OBVIOUS

\* A line is a sequence of tokens.
LEMMA LineType == SyntaxTypeOK => line \in Seq(AllTokens) /\ Len(line) \in Nat
<1>1. SyntaxTypeOK => line \in Seq(AllTokens)
  BY DEF SyntaxTypeOK
<1>2. QED
  BY <1>1

\* The group of every token.
LEMMA GroupOf ==
  \A x \in AllTokens :
    /\ get_operator_group(x) \in {0, 1, 2, 31, 32}
    /\ get_operator_group(x) = 0 <=> x \in Quotes \cup Escaped \cup {"w", "3", "sp"}
    /\ get_operator_group(x) = 1 <=> x \in Operators
    /\ get_operator_group(x) = 2 <=> x = "<"
    /\ get_operator_group(x) = 31 <=> x = "("
    /\ get_operator_group(x) = 32 <=> x = ")"
<1> TAKE x \in AllTokens
<1>1. CASE x \in Operators
  <2>1. get_operator_group(x) = 1
    BY <1>1 DEF get_operator_group, Operators
  <2>2. x \notin Quotes \cup Escaped \cup {"w", "3", "sp"} /\ x \notin {"<", "(", ")"}
    BY <1>1 DEF Operators, Quotes, Escaped
  <2>3. QED
    BY <1>1, <2>1, <2>2
<1>2. CASE x \in {"<", "(", ")"}
  <2>1. x \notin Quotes \cup Escaped \cup {"w", "3", "sp"} /\ x \notin Operators
    BY <1>2 DEF Operators, Quotes, Escaped
  <2>2. get_operator_group(x) = IF x = "<" THEN 2 ELSE IF x = "(" THEN 31 ELSE 32
    BY <1>2 DEF get_operator_group, Operators
  <2>3. QED
    BY <1>2, <2>1, <2>2
<1>3. CASE x \in Quotes \cup Escaped \cup {"w", "3", "sp"}
  <2>1. x \notin Operators /\ x \notin {"<", "(", ")"}
    BY <1>3 DEF Operators, Quotes, Escaped
  <2>2. get_operator_group(x) = 0
    BY <2>1 DEF get_operator_group
  <2>3. QED
    BY <1>3, <2>1, <2>2
<1>4. QED
  BY <1>1, <1>2, <1>3 DEF AllTokens

\* The token the scan looks at is an operator to it just when it is a token of
\* its own in the reading.
LEMMA OperatorSeen ==
  ASSUME SyntaxTypeOK, QuoteRight, iter <= Len(line)
  PROVE  /\ (Unquoted /\ group # 0) <=> (~InWord(line, iter) /\ token # "sp")
         /\ iter > 1 /\ Quote(line)[iter - 1] # "none" => InWord(line, iter - 1)
         /\ InWord(line, iter) =>
              \/ iter > 1 /\ Quote(line)[iter - 1] # "none"
              \/ group = 0 /\ token # "sp"
         /\ ~InWord(line, iter) => ~squote /\ ~dquote /\ Unquoted /\ token \notin Quotes
         /\ Bracket = IF InWord(line, iter) THEN bracket
                      ELSE IF token = "(" THEN bracket - 1
                      ELSE IF token = ")" THEN bracket + 1 ELSE bracket
<1>1. line \in Seq(AllTokens) /\ iter \in 1..Len(line) /\ token \in AllTokens
  <2>1. line \in Seq(AllTokens) /\ Len(line) \in Nat
    BY LineType
  <2>2. iter \in 1..Len(line)
    <3>1. iter \in 1..(Len(line) + 1)
      BY DEF SyntaxTypeOK
    <3>2. QED
      BY <2>1, <3>1
  <2>3. QED
    BY <2>1, <2>2 DEF token
<1>2. iter > 1 => iter - 1 \in 1..Len(line)
  BY <1>1
<1>3. iter > 1 /\ Quote(line)[iter - 1] # "none" => InWord(line, iter - 1)
  BY <1>1, <1>2, PlainFacts
<1>4. iter \in Plain(line) <=> ~squote /\ ~dquote /\ token \notin Quotes
  BY <1>1, PlainFacts DEF QuoteRight, token
<1>5. InWord(line, iter) <=> (squote \/ dquote \/ token \in Quotes \/ token \in {"w", "3"} \cup Escaped)
  BY <1>4 DEF InWord, token
<1>6. squote \in BOOLEAN /\ dquote \in BOOLEAN
  BY DEF SyntaxTypeOK
<1>7. group = 0 <=> token \in Quotes \cup Escaped \cup {"w", "3", "sp"}
  BY <1>1, GroupOf DEF group
<1>8. CASE InWord(line, iter)
  <2>1. CASE token \in Quotes
    BY <1>3, <1>7, <1>8, <2>1 DEF Quotes, Bracket
  <2>2. CASE token \notin Quotes /\ (squote \/ dquote)
    <3>1. ~Unquoted
      BY <1>6, <2>2 DEF Unquoted, Dquote, Squote, Quotes
    <3>2. Quote(line)[iter - 1] # "none" /\ iter # 1
      BY <1>1, <2>2, QuoteUnfold DEF QuoteRight
    <3>3. Bracket = bracket
      BY <2>2 DEF Bracket
    <3>4. QED
      BY <1>1, <1>3, <1>8, <3>1, <3>2, <3>3
  <2>3. CASE token \notin Quotes /\ ~squote /\ ~dquote
    <3>1. token \in {"w", "3"} \cup Escaped
      BY <1>5, <1>8, <2>3
    <3>2. group = 0
      BY <1>7, <3>1
    <3>3. token # "sp" /\ token # "(" /\ token # ")"
      BY <3>1 DEF Escaped
    <3>4. Bracket = bracket
      BY <3>3 DEF Bracket
    <3>5. QED
      BY <1>3, <1>8, <3>2, <3>3, <3>4
  <2>4. QED
    BY <2>1, <2>2, <2>3
<1>9. CASE ~InWord(line, iter)
  <2>1. ~squote /\ ~dquote /\ token \notin Quotes /\ token \notin {"w", "3"} \cup Escaped
    BY <1>5, <1>9
  <2>2. Unquoted
    BY <2>1 DEF Unquoted, Dquote, Squote, Quotes
  <2>3. Bracket = IF token = "(" THEN bracket - 1 ELSE IF token = ")" THEN bracket + 1 ELSE bracket
    BY <2>1 DEF Bracket
  <2>4. group # 0 <=> token # "sp"
    BY <1>7, <2>1
  <2>5. QED
    BY <1>3, <1>9, <2>1, <2>2, <2>3, <2>4
<1>10. QED
  BY <1>8, <1>9

\* The four kinds of rounds: inside a word, at its start, at a space, and at an
\* operator.
InsideWord == /\ InWord(line, iter) /\ iter > 1 /\ InWord(line, iter - 1)
              /\ done' = done /\ count /\ count'
              /\ UNCHANGED <<operator, last_oper, bracket>>
AtWord == /\ InWord(line, iter) /\ (iter > 1 => ~InWord(line, iter - 1))
          /\ done' = done \o <<IF Number(line, iter) THEN "3" ELSE "w">> /\ count'
          /\ UNCHANGED <<operator, last_oper, bracket>>
AtSpace == /\ ~InWord(line, iter) /\ line[iter] = "sp"
           /\ done' = done /\ count' = count
           /\ UNCHANGED <<operator, last_oper, bracket>>
AtOperator == /\ ~InWord(line, iter) /\ line[iter] \in Operators \cup {"<", "(", ")"}
              /\ iter \in Plain(line)
              /\ done' = done \o <<line[iter]>> /\ ~count'
              /\ operator' = get_operator_group(line[iter]) /\ last_oper' = iter
              /\ Unquoted /\ group # 0 /\ Counted = count /\ ~Misplaced
              /\ bracket' <= 0
              /\ bracket' = IF line[iter] = "(" THEN bracket - 1
                            ELSE IF line[iter] = ")" THEN bracket + 1 ELSE bracket

\* Every round of the scan is one of the four.
LEMMA ScanKinds ==
  ASSUME SyntaxTypeOK, ScanRight, Scan
  PROVE  /\ line' = line /\ iter' = iter + 1 /\ iter \in 1..Len(line) /\ Len(line) \in Nat
         /\ done \in Readings /\ line \in Seq(AllTokens)
         /\ QuoteRight'
         /\ InsideWord \/ AtWord \/ AtSpace \/ AtOperator
<1>1. line \in Seq(AllTokens) /\ Len(line) \in Nat
  BY LineType
<1>2. iter \in 1..Len(line)
  <2>1. iter \in 1..(Len(line) + 1) /\ iter <= Len(line)
    BY DEF SyntaxTypeOK, Scan
  <2>2. QED
    BY <1>1, <2>1
<1>3. line' = line /\ iter' = iter + 1 /\ ~Refused
  BY DEF Scan
<1>4. done' = Read(line)[(iter + 1) - 1] /\ (iter + 1) - 1 = iter
  BY <1>2, <1>3 DEF done
<1>5. done' = done \o Piece(line, iter) /\ done \in Readings
  <2>1. iter - 1 \in 0..Len(line)
    BY <1>1, <1>2
  <2>2. QED
    BY <1>1, <1>2, <1>4, <2>1, ReadUnfold DEF done
<1>6. squote \in BOOLEAN /\ dquote \in BOOLEAN /\ count \in BOOLEAN /\ bracket \in Int
  BY DEF SyntaxTypeOK
<1>7. QuoteRight /\ LastRight
  BY DEF ScanRight
<1>8. QuoteRight'
  <2>1. Quote(line)[iter] = IF Quote(line)[iter - 1] = "none"
                            THEN IF token \in Quotes THEN token ELSE "none"
                            ELSE IF token = Quote(line)[iter - 1] THEN "none" ELSE Quote(line)[iter - 1]
    BY <1>1, <1>2, QuoteUnfold DEF token
  <2>2. dquote' = Dquote /\ squote' = Squote
    BY DEF Scan
  <2>3. /\ ~(Squote /\ Dquote)
        /\ Quote(line)[iter] = IF Squote THEN "sq" ELSE IF Dquote THEN "dq" ELSE "none"
    BY <1>6, <1>7, <2>1 DEF QuoteRight, Squote, Dquote, Quotes
  <2>4. QuoteRight' <=> /\ ~(squote' /\ dquote')
                        /\ Quote(line')[iter' - 1] = IF squote' THEN "sq" ELSE IF dquote' THEN "dq" ELSE "none"
    BY DEF QuoteRight
  <2>5. QED
    BY <1>3, <1>4, <2>2, <2>3, <2>4
<1>9. /\ (Unquoted /\ group # 0) <=> (~InWord(line, iter) /\ token # "sp")
      /\ iter > 1 /\ Quote(line)[iter - 1] # "none" => InWord(line, iter - 1)
      /\ InWord(line, iter) =>
           \/ iter > 1 /\ Quote(line)[iter - 1] # "none"
           \/ group = 0 /\ token # "sp"
      /\ ~InWord(line, iter) => ~squote /\ ~dquote /\ Unquoted /\ token \notin Quotes
      /\ Bracket = IF InWord(line, iter) THEN bracket
                   ELSE IF token = "(" THEN bracket - 1
                   ELSE IF token = ")" THEN bracket + 1 ELSE bracket
  BY <1>2, <1>7, OperatorSeen
<1>10. bracket' = Bracket /\ ~(Bracket > 0) /\ ~(Unquoted /\ group # 0 /\ Misplaced)
  BY <1>3 DEF Scan, Refused
<1>11. IF Unquoted /\ group # 0
       THEN operator' = group /\ last_oper' = iter /\ count' = FALSE
       ELSE count' = Counted /\ operator' = operator /\ last_oper' = last_oper
  BY DEF Scan
<1>12. CASE InWord(line, iter) /\ iter > 1 /\ InWord(line, iter - 1)
  <2>1. Piece(line, iter) = <<>>
    BY <1>1, <1>2, <1>12, PieceValue
  <2>2. done' = done
    BY <1>5, <2>1 DEF Readings
  <2>3. count /\ count' /\ operator' = operator /\ last_oper' = last_oper
    BY <1>7, <1>9, <1>11, <1>12 DEF LastRight, Counted
  <2>4. InsideWord
    BY <1>9, <1>10, <1>12, <2>2, <2>3 DEF InsideWord
  <2>5. QED
    BY <1>1, <1>2, <1>3, <1>5, <1>8, <2>4
<1>13. CASE InWord(line, iter) /\ (iter > 1 => ~InWord(line, iter - 1))
  <2>1. Piece(line, iter) = <<IF Number(line, iter) THEN "3" ELSE "w">>
    BY <1>1, <1>2, <1>13, PieceValue
  <2>2. Counted
    BY <1>9, <1>13 DEF Counted
  <2>3. count' /\ operator' = operator /\ last_oper' = last_oper
    BY <1>9, <1>11, <1>13, <2>2
  <2>4. AtWord
    BY <1>5, <1>9, <1>10, <1>13, <2>1, <2>3 DEF AtWord
  <2>5. QED
    BY <1>1, <1>2, <1>3, <1>5, <1>8, <2>4
<1>14. CASE ~InWord(line, iter) /\ token = "sp"
  <2>1. Piece(line, iter) = <<>>
    BY <1>1, <1>2, <1>14, PieceValue DEF token
  <2>2. done' = done
    BY <1>5, <2>1 DEF Readings
  <2>3. Counted = count
    BY <1>6, <1>14 DEF Counted
  <2>4. Bracket = bracket
    BY <1>9, <1>14
  <2>5. AtSpace
    BY <1>9, <1>10, <1>11, <1>14, <2>2, <2>3, <2>4 DEF AtSpace, token
  <2>6. QED
    BY <1>1, <1>2, <1>3, <1>5, <1>8, <2>5
<1>15. CASE ~InWord(line, iter) /\ token # "sp"
  <2>1. /\ Piece(line, iter) = <<line[iter]>>
        /\ line[iter] \in Operators \cup {"<", "(", ")"}
        /\ iter \in Plain(line)
    BY <1>1, <1>2, <1>15, PieceValue DEF token
  <2>2. Unquoted /\ group # 0
    BY <1>9, <1>15
  <2>3. Counted = count
    BY <1>6, <2>2 DEF Counted
  <2>4. ~(Bracket > 0) => Bracket <= 0
    BY <1>6, <1>9
  <2>5. AtOperator
    BY <1>5, <1>9, <1>10, <1>11, <1>15, <2>1, <2>2, <2>3, <2>4 DEF AtOperator, token, group
  <2>6. QED
    BY <1>1, <1>2, <1>3, <1>5, <1>8, <2>5
<1>16. QED
  BY <1>12, <1>13, <1>14, <1>15

\* A round keeps the count of the brackets.
LEMMA BracketStep ==
  ASSUME SyntaxTypeOK, ScanRight, Scan
  PROVE  BracketRight'
<1>1. BracketRight /\ bracket \in Int /\ done \in Readings
  BY ScanKinds DEF ScanRight, SyntaxTypeOK
<1>2. Len(done) \in Nat /\ \A k \in Nat : Depth(done, k) \in Int
  BY <1>1, ReadingFacts, DepthStep
<1>3. BracketRight' <=> /\ bracket' = -Depth(done', Len(done'))
                        /\ \A k \in 0..Len(done') : Depth(done', k) >= 0
  BY DEF BracketRight
<1>4. CASE done' = done /\ bracket' = bracket
  BY <1>1, <1>3, <1>4 DEF BracketRight
<1>5. ASSUME NEW x, <<x>> \in Readings, done' = done \o <<x>>,
             bracket' = IF x = "(" THEN bracket - 1 ELSE IF x = ")" THEN bracket + 1 ELSE bracket,
             bracket' <= 0
      PROVE  BracketRight'
  <2> DEFINE n == Len(done)
             q == done'
  <2>1. q \in Readings /\ Len(q) = n + 1 /\ n \in Nat
    BY <1>1, <1>5, AppendFacts
  <2>2. /\ \A k \in 0..n : Depth(q, k) = Depth(done, k)
        /\ x = "(" => Depth(q, n + 1) = Depth(done, n) + 1
        /\ x = ")" => Depth(q, n + 1) = Depth(done, n) - 1
        /\ x \notin {"(", ")"} => Depth(q, n + 1) = Depth(done, n)
    BY <1>1, <1>5, AppendDepth
  <2>3. bracket = -Depth(done, n) /\ Depth(done, n) \in Int /\ \A k \in 0..n : Depth(done, k) >= 0
    BY <1>1, <1>2 DEF BracketRight
  <2> HIDE DEF n, q
  <2>4. bracket' = -Depth(q, n + 1)
    BY <1>5, <2>2, <2>3
  <2>5. Depth(q, n + 1) \in Int
    BY <2>1, DepthStep
  <2>6. Depth(q, n + 1) >= 0
    BY <1>5, <2>4, <2>5
  <2>7. \A k \in 0..(n + 1) : Depth(q, k) >= 0
    <3> TAKE k \in 0..(n + 1)
    <3>1. CASE k = n + 1
      BY <2>6, <3>1
    <3>2. CASE k # n + 1
      BY <2>1, <2>2, <2>3, <3>2
    <3>3. QED
      BY <3>1, <3>2
  <2>8. QED
    BY <1>3, <2>1, <2>4, <2>7 DEF q
<1>6. CASE AtWord
  <2>1. \A x \in {"w", "3"} : <<x>> \in Readings /\ x \notin {"(", ")"}
    BY DEF Readings
  <2>2. bracket <= 0
    BY DEF SyntaxTypeOK
  <2>3. PICK x \in {"w", "3"} : done' = done \o <<x>> /\ bracket' = bracket
    BY <1>6 DEF AtWord
  <2>4. QED
    BY <1>5, <2>1, <2>2, <2>3
<1>7. CASE AtOperator
  <2>1. <<line[iter]>> \in Readings
    BY <1>7 DEF AtOperator, Readings
  <2>2. QED
    BY <1>5, <1>7, <2>1 DEF AtOperator
<1>8. QED
  BY <1>4, <1>6, <1>7, ScanKinds DEF InsideWord, AtSpace

\* What stands last after a token more.
LEMMA LastAppended ==
  ASSUME NEW r \in Readings, NEW x, <<x>> \in Readings
  PROVE  r \o <<x>> # <<>> /\ LastOf(r \o <<x>>) = x
<1>1. Len(r \o <<x>>) = Len(r) + 1 /\ (r \o <<x>>)[Len(r) + 1] = x /\ Len(r) \in Nat
  BY AppendFacts
<1>2. r \o <<x>> \in Readings
  BY AppendFacts
<1>3. QED
  BY <1>1, <1>2, ReadingFacts DEF LastOf

\* A round keeps what is known of the last token.
LEMMA LastStep ==
  ASSUME SyntaxTypeOK, ScanRight, Scan
  PROVE  LastRight'
<1>1. /\ LastRight /\ done \in Readings /\ line' = line /\ iter' = iter + 1
      /\ iter \in 1..Len(line) /\ line \in Seq(AllTokens) /\ Len(line) \in Nat
  BY ScanKinds DEF ScanRight
<1>2. LastRight' <=>
        /\ count' => done' # <<>> /\ LastOf(done') \in {"w", "3"}
        /\ ~count' /\ operator' = -1 => done' = <<>>
        /\ ~count' /\ operator' # -1 => done' # <<>> /\ get_operator_group(LastOf(done')) = operator'
        /\ iter' > 1 /\ InWord(line', iter' - 1) => count'
  BY DEF LastRight, LastOf
<1>3. iter' - 1 = iter
  BY <1>1
<1>4. CASE InsideWord
  BY <1>1, <1>2, <1>3, <1>4 DEF InsideWord, LastRight
<1>5. CASE AtWord
  <2>1. \A x \in {"w", "3"} : <<x>> \in Readings
    BY DEF Readings
  <2>2. PICK x \in {"w", "3"} : done' = done \o <<x>>
    BY <1>5 DEF AtWord
  <2>3. done' # <<>> /\ LastOf(done') = x
    BY <1>1, <2>1, <2>2, LastAppended
  <2>4. QED
    BY <1>2, <1>5, <2>3 DEF AtWord
<1>6. CASE AtSpace
  <2>1. ~InWord(line', iter' - 1)
    BY <1>1, <1>3, <1>6 DEF AtSpace
  <2>2. count' = count /\ done' = done /\ operator' = operator
    BY <1>6 DEF AtSpace
  <2>3. QED
    BY <1>1, <1>2, <2>1, <2>2 DEF LastRight
<1>7. CASE AtOperator
  <2>1. ~InWord(line', iter' - 1)
    BY <1>1, <1>3, <1>7 DEF AtOperator
  <2>2. <<line[iter]>> \in Readings /\ line[iter] \in AllTokens
    BY <1>7 DEF AtOperator, Readings, AllTokens
  <2>3. done' # <<>> /\ LastOf(done') = line[iter]
    BY <1>1, <1>7, <2>2, LastAppended DEF AtOperator
  <2>4. get_operator_group(line[iter]) # -1
    BY <2>2, GroupOf
  <2>5. QED
    BY <1>2, <1>7, <2>1, <2>3, <2>4 DEF AtOperator
<1>8. QED
  BY <1>4, <1>5, <1>6, <1>7, ScanKinds

\* A round keeps what is known of digits in front of a redirection.
LEMMA DigitsStep ==
  ASSUME SyntaxTypeOK, ScanRight, Scan
  PROVE  DigitsRight'
<1>1. /\ DigitsRight /\ done \in Readings /\ line' = line /\ iter' = iter + 1
      /\ iter \in 1..Len(line) /\ line \in Seq(AllTokens) /\ Len(line) \in Nat
  BY ScanKinds DEF ScanRight
<1>2. DigitsRight' <=>
        (done' # <<>> /\ LastOf(done') = "3" =>
           /\ iter' > 1 /\ InWord(line', iter' - 1)
           /\ \E k \in Plain(line') : /\ k >= iter' /\ line'[k] = "<"
                                      /\ \A j \in iter'..(k - 1) : j \in Plain(line') /\ line'[j] = "3")
  BY DEF DigitsRight, LastOf
<1>3. iter' - 1 = iter /\ iter' > 1 /\ iter \in Nat
  BY <1>1
<1>4. \A k \in Plain(line) : k \in Nat
  BY <1>1 DEF Plain
<1>5. CASE InsideWord \/ AtSpace
  <2>1. done' = done
    BY <1>5 DEF InsideWord, AtSpace
  <2> SUFFICES ASSUME done # <<>>, LastOf(done) = "3"
               PROVE  /\ InWord(line, iter)
                      /\ \E k \in Plain(line) : /\ k >= iter + 1 /\ line[k] = "<"
                                                /\ \A j \in (iter + 1)..(k - 1) : j \in Plain(line) /\ line[j] = "3"
    BY <1>1, <1>2, <1>3, <2>1
  <2>2. PICK k \in Plain(line) : /\ k >= iter /\ line[k] = "<"
                                 /\ \A j \in iter..(k - 1) : j \in Plain(line) /\ line[j] = "3"
    BY <1>1 DEF DigitsRight
  <2>3. k # iter
    <3> SUFFICES ASSUME iter \in Plain(line), line[iter] = "<"
                 PROVE  FALSE
      BY <2>2
    <3>1. ~InWord(line, iter)
      BY DEF InWord, Escaped
    <3>2. QED
      BY <1>5, <3>1 DEF InsideWord, AtSpace
  <2>4. k >= iter + 1 /\ iter \in iter..(k - 1)
    BY <1>3, <1>4, <2>2, <2>3
  <2>5. line[iter] = "3"
    BY <2>2, <2>4
  <2>6. InWord(line, iter)
    BY <2>5 DEF InWord
  <2>7. \A j \in (iter + 1)..(k - 1) : j \in Plain(line) /\ line[j] = "3"
    BY <1>3, <1>4, <2>2
  <2>8. QED
    BY <2>2, <2>4, <2>6, <2>7
<1>6. CASE AtWord
  <2>1. \A x \in {"w", "3"} : <<x>> \in Readings
    BY DEF Readings
  <2>2. InWord(line, iter) /\ (~Number(line, iter) => LastOf(done') = "w")
    BY <1>1, <1>6, <2>1, LastAppended DEF AtWord
  <2> SUFFICES ASSUME Number(line, iter)
               PROVE  \E k \in Plain(line) : /\ k >= iter + 1 /\ line[k] = "<"
                                             /\ \A j \in (iter + 1)..(k - 1) : j \in Plain(line) /\ line[j] = "3"
    BY <1>1, <1>2, <1>3, <2>2
  <2>3. PICK k \in Plain(line) : /\ iter < k /\ line[k] = "<"
                                 /\ \A j \in iter..(k - 1) : j \in Plain(line) /\ line[j] = "3"
    BY DEF Number
  <2>4. k >= iter + 1 /\ \A j \in (iter + 1)..(k - 1) : j \in iter..(k - 1)
    BY <1>3, <1>4, <2>3
  <2>5. QED
    BY <2>3, <2>4
<1>7. CASE AtOperator
  <2>1. <<line[iter]>> \in Readings /\ line[iter] # "3"
    BY <1>7 DEF AtOperator, Readings, Operators
  <2>2. LastOf(done') # "3"
    BY <1>1, <1>7, <2>1, LastAppended DEF AtOperator
  <2>3. QED
    BY <1>2, <2>2
<1>8. QED
  BY <1>5, <1>6, <1>7, ScanKinds

\* A token more, beside one it may stand beside.
LEMMA PairsAppended ==
  ASSUME NEW r \in Readings, NEW x, <<x>> \in Readings,
         r # <<>> => r[1] \notin Operators,
         \A j \in 1..(Len(r) - 1) : Beside(r[j], r[j + 1]),
         r = <<>> => x \notin Operators,
         r # <<>> => Beside(LastOf(r), x)
  PROVE  LET q == r \o <<x>>
         IN  q[1] \notin Operators /\ \A j \in 1..(Len(q) - 1) : Beside(q[j], q[j + 1])
<1> DEFINE q == r \o <<x>>
           n == Len(r)
<1>1. /\ Len(q) = n + 1 /\ n \in Nat /\ q[n + 1] = x
      /\ \A j \in 1..n : q[j] = r[j]
  BY AppendFacts
<1>2. r = <<>> <=> n = 0
  BY ReadingFacts
<1>3. n # 0 => LastOf(r) = r[n]
  BY DEF LastOf
<1> HIDE DEF q, n
<1>4. q[1] \notin Operators
  <2>1. CASE n = 0
    BY <1>1, <1>2, <2>1
  <2>2. CASE n # 0
    <3>1. 1 \in 1..n
      BY <1>1, <2>2
    <3>2. QED
      BY <1>1, <1>2, <2>2, <3>1
  <2>3. QED
    BY <2>1, <2>2
<1>5. \A j \in 1..(Len(q) - 1) : Beside(q[j], q[j + 1])
  <2> TAKE j \in 1..(Len(q) - 1)
  <2>1. CASE j = n
    BY <1>1, <1>2, <1>3, <2>1
  <2>2. CASE j # n
    <3>1. j \in 1..(n - 1) /\ j \in 1..n /\ j + 1 \in 1..n
      BY <1>1, <2>2
    <3>2. Beside(r[j], r[j + 1])
      BY <3>1 DEF n
    <3>3. QED
      BY <1>1, <3>1, <3>2
  <2>3. QED
    BY <2>1, <2>2
<1>6. QED
  BY <1>4, <1>5 DEF q

\* A round keeps the tokens that stand side by side in order.
LEMMA PairsStep ==
  ASSUME SyntaxTypeOK, ScanRight, Scan
  PROVE  PairsRight'
<1>1. /\ PairsRight /\ DigitsRight /\ LastRight /\ done \in Readings
      /\ iter \in 1..Len(line) /\ line \in Seq(AllTokens) /\ Len(line) \in Nat
  BY ScanKinds DEF ScanRight
<1>2. PairsRight' <=>
        /\ done' # <<>> => done'[1] \notin Operators
        /\ \A j \in 1..(Len(done') - 1) : Beside(done'[j], done'[j + 1])
  BY DEF PairsRight
<1>3. CASE InsideWord \/ AtSpace
  <2>1. done' = done
    BY <1>3 DEF InsideWord, AtSpace
  <2>2. QED
    BY <1>1, <1>2, <2>1 DEF PairsRight
<1>4. ASSUME NEW x, <<x>> \in Readings, done' = done \o <<x>>,
             done = <<>> => x \notin Operators, done # <<>> => Beside(LastOf(done), x)
      PROVE  PairsRight'
  BY <1>1, <1>2, <1>4, PairsAppended DEF PairsRight
<1>5. done # <<>> => LastOf(done) \in Operators \cup {"w", "3", "<", "(", ")"}
  <2>1. done # <<>> => Len(done) \in 1..Len(done)
    BY <1>1, ReadingFacts
  <2>2. QED
    BY <1>1, <2>1, ReadingFacts DEF LastOf
<1>6. CASE AtWord
  <2>1. PICK x \in {"w", "3"} : done' = done \o <<x>>
    BY <1>6 DEF AtWord
  <2>2. <<x>> \in Readings /\ x \notin Operators \cup {")"}
    BY DEF Readings, Operators
  <2>3. done # <<>> => LastOf(done) # "3"
    BY <1>1, <1>6 DEF DigitsRight, AtWord
  <2>4. done # <<>> => Beside(LastOf(done), x)
    BY <2>2, <2>3 DEF Beside
  <2>5. QED
    BY <1>4, <2>1, <2>2, <2>4
<1>7. CASE AtOperator
  <2> DEFINE x == line[iter]
  <2>1. /\ x \in Operators \cup {"<", "(", ")"} /\ done' = done \o <<x>>
        /\ group = get_operator_group(x) /\ Counted = count /\ ~Misplaced
    BY <1>7 DEF AtOperator, group, token
  <2>2. <<x>> \in Readings /\ x \in AllTokens
    BY <2>1 DEF Readings, AllTokens
  <2>3. /\ group = 1 <=> x \in Operators
        /\ group = 32 <=> x = ")"
    BY <2>1, <2>2, GroupOf
  <2>4. /\ ~(operator = 2 /\ ~count)
        /\ ~(operator \in {-1, 31} /\ ~count /\ group = 1)
        /\ ~(operator = 31 /\ ~count /\ group = 32)
        /\ ~(operator = 1 /\ ~count /\ group = 1)
    BY <2>1 DEF Misplaced
  <2>5. operator \in {-1, 1, 2, 31, 32}
    BY DEF SyntaxTypeOK
  <2> HIDE DEF x
  <2>6. done = <<>> => x \notin Operators
    <3> SUFFICES ASSUME done = <<>>
                 PROVE  x \notin Operators
      OBVIOUS
    <3>1. ~count /\ operator = -1
      BY <1>1 DEF LastRight
    <3>2. QED
      BY <2>3, <2>4, <3>1
  <2>7. ASSUME done # <<>>
        PROVE  Beside(LastOf(done), x)
    <3> DEFINE l == LastOf(done)
    <3>1. l \in Operators \cup {"w", "3", "<", "(", ")"} /\ l \in AllTokens
      BY <1>5, <2>7 DEF AllTokens
    <3>2. count => l \in {"w", "3"}
      BY <1>1 DEF LastRight
    <3>3. ~count => get_operator_group(l) = operator
      BY <1>1, <2>7 DEF LastRight
    <3>4. l = "3" => x = "<"
      <4> SUFFICES ASSUME l = "3"
                   PROVE  x = "<"
        OBVIOUS
      <4>1. PICK k \in Plain(line) :
              /\ k >= iter /\ line[k] = "<"
              /\ \A j \in iter..(k - 1) : j \in Plain(line) /\ line[j] = "3"
        BY <1>1, <2>7 DEF DigitsRight
      <4>2. k \in Nat
        BY <1>1 DEF Plain
      <4>3. k > iter => line[iter] = "3"
        BY <1>1, <4>1, <4>2
      <4>4. line[iter] # "3"
        BY <2>1 DEF x, Operators
      <4>5. k = iter
        BY <1>1, <4>1, <4>2, <4>3, <4>4
      <4>6. QED
        BY <4>1, <4>5 DEF x
    <3> HIDE DEF l
    <3>5. /\ get_operator_group(l) = 1 <=> l \in Operators
          /\ get_operator_group(l) = 2 <=> l = "<"
          /\ get_operator_group(l) = 31 <=> l = "("
      BY <3>1, GroupOf
    <3>6. l = "<" => x \in {"w", "3"}
      <4>1. l = "<" => ~count /\ operator = 2
        BY <3>2, <3>3, <3>5
      <4>2. QED
        BY <2>4, <4>1
    <3>7. l \in Operators => x \notin Operators
      <4>1. l \in Operators => ~count /\ operator = 1
        BY <3>2, <3>3, <3>5 DEF Operators
      <4>2. QED
        BY <2>3, <2>4, <4>1
    <3>8. l = "(" => x \notin Operators \cup {")"}
      <4>1. l = "(" => ~count /\ operator = 31
        BY <3>2, <3>3, <3>5
      <4>2. QED
        BY <2>3, <2>4, <4>1
    <3>9. QED
      BY <3>4, <3>6, <3>7, <3>8 DEF Beside, l
  <2>8. QED
    BY <1>4, <2>1, <2>2, <2>6, <2>7
<1>8. QED
  BY <1>3, <1>6, <1>7, ScanKinds

\* A word behind a ")" in what has been read, after a token more.
LEMMA LooseAppended ==
  ASSUME NEW r \in Readings, NEW x, <<x>> \in Readings
  PROVE  Loose(r \o <<x>>) <=> Loose(r) \/ (r # <<>> /\ LastOf(r) = ")" /\ x = "w")
<1> DEFINE q == r \o <<x>>
           n == Len(r)
<1>1. /\ Len(q) = n + 1 /\ n \in Nat /\ q[n + 1] = x
      /\ \A j \in 1..n : q[j] = r[j]
  BY AppendFacts
<1>2. r = <<>> <=> n = 0
  BY ReadingFacts
<1>3. /\ Loose(q) <=> \E j \in 1..(Len(q) - 1) : q[j] = ")" /\ q[j + 1] = "w"
      /\ Loose(r) <=> \E j \in 1..(n - 1) : r[j] = ")" /\ r[j + 1] = "w"
      /\ LastOf(r) = r[n]
  BY DEF Loose, Adjacent, LastOf
<1> HIDE DEF q, n
<1>4. ASSUME Loose(q), ~Loose(r)
      PROVE  r # <<>> /\ LastOf(r) = ")" /\ x = "w"
  <2>1. PICK j \in 1..(Len(q) - 1) : q[j] = ")" /\ q[j + 1] = "w"
    BY <1>3, <1>4
  <2>2. j = n
    <3> SUFFICES ASSUME j # n
                 PROVE  FALSE
      OBVIOUS
    <3>1. j \in 1..(n - 1) /\ j \in 1..n /\ j + 1 \in 1..n
      BY <1>1
    <3>2. r[j] = ")" /\ r[j + 1] = "w"
      BY <1>1, <2>1, <3>1
    <3>3. QED
      BY <1>3, <1>4, <3>1, <3>2
  <2>3. n \in 1..n
    BY <1>1, <2>2
  <2>4. QED
    BY <1>1, <1>2, <1>3, <2>1, <2>2, <2>3
<1>5. ASSUME Loose(r)
      PROVE  Loose(q)
  <2>1. PICK j \in 1..(n - 1) : r[j] = ")" /\ r[j + 1] = "w"
    BY <1>3, <1>5
  <2>2. j \in 1..(Len(q) - 1) /\ j \in 1..n /\ j + 1 \in 1..n
    BY <1>1
  <2>3. q[j] = ")" /\ q[j + 1] = "w"
    BY <1>1, <2>1, <2>2
  <2>4. QED
    BY <1>3, <2>2, <2>3
<1>6. ASSUME r # <<>>, LastOf(r) = ")", x = "w"
      PROVE  Loose(q)
  <2>1. n \in 1..n /\ n \in 1..(Len(q) - 1)
    BY <1>1, <1>2, <1>6
  <2>2. q[n] = ")" /\ q[n + 1] = "w"
    BY <1>1, <1>3, <1>6, <2>1
  <2>3. QED
    BY <1>3, <2>1, <2>2
<1>7. QED
  BY <1>4, <1>5, <1>6 DEF q

\* Digits between a ")" and its redirection that stand apart from it.
LEMMA DigitsFound ==
  ASSUME line \in Seq(AllTokens), NEW a \in Plain(line), NEW b \in Plain(line), a < b,
         line[a] = ")", line[b] = "<", \A j \in (a + 1)..(b - 1) : line[j] \in {"sp", "3"},
         NEW m \in (a + 1)..(b - 1), InWord(line, m), ~Number(line, m)
  PROVE  DigitsBehindBracket
<1>0. a \in 1..Len(line) /\ b \in 1..Len(line) /\ Len(line) \in Nat /\ m \in Nat
  BY DEF Plain
<1>1. \A j \in (a + 1)..b : line[j] \notin Quotes
  <2> TAKE j \in (a + 1)..b
  <2>1. j = b \/ j \in (a + 1)..(b - 1)
    BY <1>0
  <2>2. QED
    BY <2>1 DEF Quotes
<1>2. \A j \in a..b : j \in Plain(line)
  BY <1>1, <1>0, PlainRun
<1>3. line[m] = "3"
  <2>1. m \in a..b
    BY <1>0
  <2>2. line[m] \notin Escaped
    BY <1>0 DEF Escaped
  <2>3. QED
    BY <1>2, <2>1, <2>2 DEF InWord
<1> DEFINE S == {j \in Nat : j \in m..(b - 1) /\ line[j] # "3"}
<1>4. S \in SUBSET Nat
  OBVIOUS
<1>5. S # {}
  <2> SUFFICES ASSUME \A j \in m..(b - 1) : line[j] = "3"
               PROVE  FALSE
    BY <1>0
  <2>1. \A j \in m..(b - 1) : j \in Plain(line)
    BY <1>0, <1>2
  <2>2. m < b
    BY <1>0
  <2>3. QED
    BY <2>1, <2>2 DEF Number
<1>6. PICK j \in S : \A i \in S : j <= i
  <2> HIDE DEF S
  <2>1. QED
    BY <1>4, <1>5, LeastOf
<1>7. j \in m..(b - 1) /\ line[j] # "3" /\ j \in Nat
  OBVIOUS
<1>8. j # m
  BY <1>3, <1>7
<1>9. j - 1 \in m..(b - 1) /\ j - 1 \in Nat /\ j - 1 < j
  BY <1>0, <1>7, <1>8
<1>10. j - 1 \notin S
  BY <1>6, <1>9
<1>11. line[j - 1] = "3"
  BY <1>9, <1>10
<1> HIDE DEF S
<1>12. line[j] = "sp"
  <2>1. j \in (a + 1)..(b - 1)
    BY <1>0, <1>7
  <2>2. QED
    BY <1>7, <2>1
<1> DEFINE q == SubSeq(line, a, b)
           p == j - a
<1>13. Len(q) = b - a + 1 /\ \A i \in 1..(b - a + 1) : q[i] = line[a + i - 1]
  BY <1>0
<1>14. /\ p \in 1..(b - a) /\ p \in 1..(b - a + 1) /\ p + 1 \in 1..(b - a + 1)
       /\ a + p - 1 = j - 1 /\ a + (p + 1) - 1 = j
  BY <1>0, <1>7, <1>9
<1> HIDE DEF q, p
<1>15. q[p] = "3" /\ q[p + 1] = "sp" /\ p \in 1..(Len(q) - 1)
  <2>1. q[p] = line[j - 1] /\ q[p + 1] = line[j]
    BY <1>13, <1>14
  <2>2. Len(q) - 1 = b - a
    BY <1>0, <1>13
  <2>3. QED
    BY <1>11, <1>12, <1>14, <2>1, <2>2
<1>16. Adjacent(SubSeq(line, a, b), {"3"}, {"sp"})
  BY <1>15 DEF Adjacent, q
<1>17. QED
  BY <1>16 DEF DigitsBehindBracket

\* A round keeps what is known of the gap behind a ")".
LEMMA GapStep ==
  ASSUME SyntaxTypeOK, ScanRight, Scan
  PROVE  GapRight'
<1> DEFINE D == DigitsBehindBracket
<1>1. /\ GapRight /\ LastRight /\ done \in Readings /\ line' = line /\ iter' = iter + 1
      /\ iter \in 1..Len(line) /\ line \in Seq(AllTokens) /\ Len(line) \in Nat
  BY ScanKinds DEF ScanRight
<1>2. DigitsBehindBracket' <=> D
  BY <1>1 DEF DigitsBehindBracket
<1>3. iter' - 1 = iter
  BY <1>1
<1>4. last_oper \in Nat /\ operator \in {-1, 1, 2, 31, 32} /\ iter \in Nat
  BY <1>1 DEF SyntaxTypeOK
<1>5. GapRight' <=>
        /\ operator' = 32 =>
             /\ last_oper' \in Plain(line) /\ last_oper' < iter + 1 /\ line[last_oper'] = ")"
             /\ \A j \in (last_oper' + 1)..iter :
                  j \in Plain(line) => get_operator_group(line[j]) = 0
        /\ operator' = 32 /\ ~count' => \A j \in (last_oper' + 1)..iter : line[j] = "sp"
        /\ operator' = 32 /\ count' =>
             \E m \in (last_oper' + 1)..iter :
               /\ InWord(line, m) /\ \A j \in (last_oper' + 1)..(m - 1) : line[j] = "sp"
               /\ IF Number(line, m) THEN ~D => ~Loose(done') ELSE Loose(done')
        /\ ~(operator' = 32 /\ count') /\ ~D => ~Loose(done')
  <2> HIDE DEF D
  <2>1. Loose(done)' <=> Loose(done')
    BY DEF Loose, Adjacent
  <2>2. QED
    BY <1>1, <1>2, <1>3, <2>1 DEF GapRight
<1>6. /\ operator = 32 =>
           /\ last_oper \in Plain(line) /\ last_oper < iter /\ line[last_oper] = ")"
           /\ \A j \in (last_oper + 1)..(iter - 1) :
                j \in Plain(line) => get_operator_group(line[j]) = 0
      /\ operator = 32 /\ ~count => \A j \in (last_oper + 1)..(iter - 1) : line[j] = "sp"
      /\ operator = 32 /\ count =>
           \E m \in (last_oper + 1)..(iter - 1) :
             /\ InWord(line, m) /\ \A j \in (last_oper + 1)..(m - 1) : line[j] = "sp"
             /\ IF Number(line, m) THEN ~D => ~Loose(done) ELSE Loose(done)
      /\ ~(operator = 32 /\ count) /\ ~D => ~Loose(done)
  BY <1>1 DEF GapRight
<1> HIDE DEF D
<1>7. \A j \in (last_oper + 1)..iter : j = iter \/ j \in (last_oper + 1)..(iter - 1)
  BY <1>4
<1>8. \A j \in (last_oper + 1)..(iter - 1) : j \in (last_oper + 1)..iter
  BY <1>4
<1>9. InWord(line, iter) \/ line[iter] = "sp" =>
        (iter \in Plain(line) => get_operator_group(line[iter]) = 0)
  <2>1. \A x \in {"w", "3", "sp"} \cup Escaped : get_operator_group(x) = 0
    BY GroupOf DEF AllTokens, Quotes
  <2>2. QED
    BY <2>1 DEF InWord
<1>10. CASE InsideWord \/ AtSpace
  <2>1. done' = done /\ count' = count /\ operator' = operator /\ last_oper' = last_oper
    <3>1. InsideWord => count = TRUE /\ count' = TRUE
      <4>1. count \in BOOLEAN
        BY DEF SyntaxTypeOK
      <4>2. InsideWord => count' \in BOOLEAN
        BY <4>1 DEF InsideWord, Scan, Counted
      <4>3. QED
        BY <4>1, <4>2 DEF InsideWord
    <3>2. QED
      BY <1>10, <3>1 DEF InsideWord, AtSpace
  <2>2. InWord(line, iter) \/ line[iter] = "sp"
    BY <1>10 DEF InsideWord, AtSpace
  <2>3. ~count => line[iter] = "sp"
    BY <1>10 DEF InsideWord, AtSpace
  <2>4. operator = 32 =>
           /\ last_oper \in Plain(line) /\ last_oper < iter + 1 /\ line[last_oper] = ")"
           /\ \A j \in (last_oper + 1)..iter :
                j \in Plain(line) => get_operator_group(line[j]) = 0
    BY <1>4, <1>6, <1>7, <1>9, <2>2
  <2>5. operator = 32 /\ ~count => \A j \in (last_oper + 1)..iter : line[j] = "sp"
    BY <1>6, <1>7, <2>3
  <2>6. operator = 32 /\ count =>
           \E m \in (last_oper + 1)..iter :
             /\ InWord(line, m) /\ \A j \in (last_oper + 1)..(m - 1) : line[j] = "sp"
             /\ IF Number(line, m) THEN ~D => ~Loose(done) ELSE Loose(done)
    BY <1>6, <1>8
  <2>7. QED
    BY <1>5, <1>6, <2>1, <2>4, <2>5, <2>6
<1>11. CASE AtWord
  <2> DEFINE x == IF Number(line, iter) THEN "3" ELSE "w"
  <2>1. /\ done' = done \o <<x>> /\ count' /\ operator' = operator /\ last_oper' = last_oper
        /\ InWord(line, iter)
    BY <1>11 DEF AtWord
  <2>2. <<x>> \in Readings
    BY DEF Readings
  <2>3. Loose(done') <=> Loose(done) \/ (done # <<>> /\ LastOf(done) = ")" /\ x = "w")
    BY <1>1, <2>1, <2>2, LooseAppended
  <2>4. done # <<>> => LastOf(done) \in AllTokens
    <3>1. done # <<>> => Len(done) \in 1..Len(done)
      BY <1>1, ReadingFacts
    <3>2. done # <<>> => LastOf(done) \in Operators \cup {"w", "3", "<", "(", ")"}
      BY <1>1, <3>1, ReadingFacts DEF LastOf
    <3>3. QED
      BY <3>2 DEF AllTokens
  <2>5. operator = 32 =>
           /\ last_oper \in Plain(line) /\ last_oper < iter + 1 /\ line[last_oper] = ")"
           /\ \A j \in (last_oper + 1)..iter :
                j \in Plain(line) => get_operator_group(line[j]) = 0
    BY <1>4, <1>6, <1>7, <1>9, <2>1
  <2>6. x = "3" <=> Number(line, iter)
    OBVIOUS
  <2>7. x = "w" <=> ~Number(line, iter)
    OBVIOUS
  <2> HIDE DEF x
  <2>8. CASE operator = 32 /\ count
    <3>1. LastOf(done) # ")"
      BY <1>1, <2>8 DEF LastRight
    <3>2. Loose(done') <=> Loose(done)
      BY <2>3, <3>1
    <3>3. \E m \in (last_oper + 1)..iter :
             /\ InWord(line, m) /\ \A j \in (last_oper + 1)..(m - 1) : line[j] = "sp"
             /\ IF Number(line, m) THEN ~D => ~Loose(done') ELSE Loose(done')
      BY <1>6, <1>8, <2>8, <3>2
    <3>4. QED
      BY <1>5, <2>1, <2>5, <2>8, <3>3
  <2>9. CASE operator = 32 /\ ~count
    <3>1. done # <<>> /\ LastOf(done) = ")"
      BY <1>1, <2>4, <2>9, GroupOf DEF LastRight
    <3>2. IF Number(line, iter) THEN ~D => ~Loose(done') ELSE Loose(done')
      BY <1>6, <2>3, <2>6, <2>7, <2>9, <3>1
    <3>3. iter \in (last_oper + 1)..iter
      BY <1>4, <1>6, <2>9
    <3>4. \A j \in (last_oper + 1)..(iter - 1) : line[j] = "sp"
      BY <1>6, <2>9
    <3>5. QED
      BY <1>5, <2>1, <2>5, <2>9, <3>2, <3>3, <3>4
  <2>10. CASE operator # 32
    <3>1. ~(done # <<>> /\ LastOf(done) = ")")
      <4> SUFFICES ASSUME done # <<>>, LastOf(done) = ")"
                   PROVE  FALSE
        OBVIOUS
      <4>1. ~count /\ operator # -1
        BY <1>1 DEF LastRight
      <4>2. get_operator_group(LastOf(done)) = operator
        BY <1>1, <4>1 DEF LastRight
      <4>3. QED
        BY <2>4, <2>10, <4>2, GroupOf
    <3>2. QED
      BY <1>5, <1>6, <2>1, <2>3, <2>10, <3>1
  <2>11. QED
    BY <2>8, <2>9, <2>10
<1>12. CASE AtOperator
  <2>1. /\ line[iter] \in Operators \cup {"<", "(", ")"} /\ iter \in Plain(line)
        /\ done' = done \o <<line[iter]>> /\ ~count'
        /\ operator' = get_operator_group(line[iter]) /\ last_oper' = iter
        /\ group = get_operator_group(line[iter]) /\ Counted = count /\ ~Misplaced
    BY <1>12 DEF AtOperator, group, token
  <2>2. <<line[iter]>> \in Readings /\ line[iter] # "w" /\ line[iter] \in AllTokens
    BY <2>1 DEF Readings, Operators, AllTokens
  <2>3. Loose(done') <=> Loose(done)
    BY <1>1, <2>1, <2>2, LooseAppended
  <2>4. ~D => ~Loose(done)
    <3>1. CASE ~(operator = 32 /\ count)
      BY <1>6, <3>1
    <3>2. CASE operator = 32 /\ count
      <4>1. group = 2 /\ ~syntax_redi_correct_case
        BY <2>1, <3>2 DEF Misplaced
      <4>2. line[iter] = "<"
        BY <2>1, <2>2, <4>1, GroupOf
      <4>3. \A j \in (last_oper + 1)..(iter - 1) : line[j] \in {"sp", "3"}
        BY <4>1 DEF syntax_redi_correct_case
      <4>4. PICK m \in (last_oper + 1)..(iter - 1) :
              InWord(line, m) /\ (Number(line, m) => (~D => ~Loose(done)))
        BY <1>6, <3>2
      <4>5. CASE Number(line, m)
        BY <4>4, <4>5
      <4>6. CASE ~Number(line, m)
        <5>1. last_oper \in Plain(line) /\ last_oper < iter /\ line[last_oper] = ")"
          BY <1>6, <3>2
        <5>2. DigitsBehindBracket
          BY <1>1, <2>1, <4>2, <4>3, <4>4, <4>6, <5>1, DigitsFound
        <5>3. QED
          BY <5>2 DEF D
      <4>7. QED
        BY <4>5, <4>6
    <3>3. QED
      BY <3>1, <3>2
  <2>5. \A j \in (iter + 1)..iter : FALSE
    BY <1>4
  <2>6. operator' = 32 => line[iter] = ")"
    BY <2>1, <2>2, GroupOf
  <2>7. iter < iter + 1
    BY <1>4
  <2>8. QED
    BY <1>5, <2>1, <2>3, <2>4, <2>5, <2>6, <2>7
<1>13. QED
  BY <1>10, <1>11, <1>12, ScanKinds
-----------------------------------------------------------------------------
(* The types, and the start of a scan.                                     *)

\* A function on an interval is a sequence.
LEMMA SeqOfFunction ==
  ASSUME NEW A, NEW k \in Nat, NEW s \in [1..k -> A]
  PROVE  s \in Seq(A) /\ Len(s) = k
OBVIOUS

\* The lines that are entered are sequences of tokens.
LEMMA LinesFacts ==
  ASSUME NEW n \in Nat, NEW s \in Lines(n)
  PROVE  s \in Seq(AllTokens) /\ Len(s) \in Nat /\ Len(s) <= n
<1>1. PICK k \in 0..n, A \in Alphabets : s \in [1..k -> A]
  BY DEF Lines
<1>2. s \in Seq(A) /\ Len(s) = k
  BY <1>1, SeqOfFunction
<1>3. A \subseteq AllTokens
  BY <1>1, SyntaxAssumption DEF Alphabets
<1>4. s \in Seq(AllTokens)
  BY <1>2, <1>3, SeqLarger
<1>5. QED
  BY <1>1, <1>2, <1>4

\* ... those longer by one as well.
LEMMA EnteredType ==
  ASSUME NEW s \in Lines(MaxTokens) \cup LongLines
  PROVE  s \in Seq(AllTokens) /\ Len(s) \in Nat /\ Len(s) <= MaxTokens + 1
<1>0. MaxTokens \in Nat /\ \A A \in FewTokens : A \subseteq AllTokens
  BY SyntaxAssumption
<1>1. CASE s \in Lines(MaxTokens)
  <2>1. s \in Seq(AllTokens) /\ Len(s) \in Nat /\ Len(s) <= MaxTokens
    BY <1>0, <1>1, LinesFacts
  <2>2. QED
    BY <1>0, <2>1
<1>2. CASE s \in LongLines
  <2> DEFINE k == MaxTokens + 1
  <2>1. k \in Nat
    BY <1>0
  <2>2. PICK A \in FewTokens : s \in [1..k -> A]
    BY <1>2 DEF LongLines
  <2> HIDE DEF k
  <2>3. s \in Seq(A) /\ Len(s) = k
    BY <2>1, <2>2, SeqOfFunction
  <2>4. s \in Seq(AllTokens)
    BY <1>0, <2>2, <2>3, SeqLarger
  <2>5. QED
    BY <2>1, <2>3, <2>4 DEF k
<1>3. QED
  BY <1>1, <1>2

\* A sequence with another behind it, an element between them.
LEMMA JoinType ==
  ASSUME NEW A, NEW x \in A, NEW s \in Seq(A), NEW t \in Seq(A)
  PROVE  s \o <<x>> \o t \in Seq(A) /\ Len(s \o <<x>> \o t) = Len(s) + 1 + Len(t)
OBVIOUS

\* A line that is continued keeps its type and its bound.
LEMMA ContinuedType ==
  ASSUME SyntaxTypeOK, Len(line) < MaxTokens, NEW t \in Lines(MaxTokens - Len(line) - 1)
  PROVE  LET s == line \o <<"sp">> \o t
         IN  s \in Seq(AllTokens) /\ Len(s) \in Nat /\ Len(s) <= MaxTokens + 1
<1> DEFINE A == AllTokens
           n == MaxTokens - Len(line) - 1
<1>0. MaxTokens \in Nat /\ Len(line) \in Nat /\ line \in Seq(A)
  BY SyntaxAssumption, LineType DEF SyntaxTypeOK
<1>1. n \in Nat
  BY <1>0
<1>2. t \in Seq(A) /\ Len(t) \in Nat /\ Len(t) <= n
  BY <1>1, LinesFacts
<1>3. "sp" \in A
  BY DEF AllTokens
<1> HIDE DEF A
<1>4. line \o <<"sp">> \o t \in Seq(A) /\ Len(line \o <<"sp">> \o t) = Len(line) + 1 + Len(t)
  BY <1>0, <1>2, <1>3, JoinType
<1>5. QED
  BY <1>0, <1>1, <1>2, <1>4 DEF A

\* The types are kept.
LEMMA TypeStep ==
  ASSUME TypeInv, [SyntaxNext]_syntax_vars
  PROVE  TypeInv'
<1> DEFINE A == Seq(AllTokens)
<1>0. SyntaxTypeOK /\ bracket >= 1 - iter /\ MaxTokens \in Nat
  BY SyntaxAssumption DEF TypeInv
<1>1. /\ verdict \in {"prompt", "scan", "accepted", "refused", "ask", "abandoned", "parsed"}
      /\ line \in A /\ Len(line) <= MaxTokens + 1 /\ Len(line) \in Nat
      /\ iter \in 1..(Len(line) + 1) /\ last_oper \in 1..(Len(line) + 1)
      /\ count \in BOOLEAN /\ squote \in BOOLEAN /\ dquote \in BOOLEAN
      /\ operator \in {-1, 1, 2, 31, 32}
      /\ bracket \in -(MaxTokens + 1)..0 /\ bracket >= 1 - iter
  BY <1>0, LineType DEF SyntaxTypeOK
<1>2. TypeInv' <=>
      /\ verdict' \in {"prompt", "scan", "accepted", "refused", "ask", "abandoned", "parsed"}
      /\ line' \in A /\ Len(line') <= MaxTokens + 1
      /\ iter' \in 1..(Len(line') + 1) /\ last_oper' \in 1..(Len(line') + 1)
      /\ count' \in BOOLEAN /\ squote' \in BOOLEAN /\ dquote' \in BOOLEAN
      /\ operator' \in {-1, 1, 2, 31, 32}
      /\ bracket' \in -(MaxTokens + 1)..0 /\ bracket' >= 1 - iter'
  BY DEF TypeInv, SyntaxTypeOK
<1> HIDE DEF A
<1>3. ASSUME line' \in A, Len(line') \in Nat, Len(line') <= MaxTokens + 1, Restart
      PROVE  TypeInv'
  <2>1. /\ verdict' = "scan" /\ iter' = 1 /\ last_oper' = 1 /\ count' = FALSE
        /\ squote' = FALSE /\ dquote' = FALSE /\ operator' = -1 /\ bracket' = 0
    BY <1>3 DEF Restart
  <2>2. 1 \in 1..(Len(line') + 1) /\ 0 \in -(MaxTokens + 1)..0 /\ 0 >= 1 - 1
    BY <1>0, <1>3
  <2>3. QED
    BY <1>2, <1>3, <2>1, <2>2
<1>4. CASE Enter
  <2>1. Restart /\ line' \in Lines(MaxTokens) \cup LongLines
    BY <1>4 DEF Enter
  <2>2. line' \in A /\ Len(line') \in Nat /\ Len(line') <= MaxTokens + 1
    BY <2>1, EnteredType DEF A
  <2>3. QED
    BY <1>3, <2>1, <2>2
<1>5. CASE Continue
  <2>1. Restart /\ Len(line) < MaxTokens
    BY <1>5 DEF Continue
  <2>2. PICK t \in Lines(MaxTokens - Len(line) - 1) : line' = line \o <<"sp">> \o t
    BY <1>5 DEF Continue
  <2>3. line' \in A /\ Len(line') \in Nat /\ Len(line') <= MaxTokens + 1
    BY <1>0, <2>1, <2>2, ContinuedType DEF A
  <2>4. QED
    BY <1>3, <2>1, <2>3
<1>6. CASE Scan
  <2>1. /\ verdict' = verdict /\ line' = line /\ iter' = iter + 1 /\ iter <= Len(line)
        /\ dquote' = Dquote /\ squote' = Squote /\ bracket' = Bracket /\ ~(Bracket > 0)
    BY <1>6 DEF Scan, Refused
  <2>2. Dquote \in BOOLEAN /\ Squote \in BOOLEAN
    BY <1>1 DEF Dquote, Squote
  <2>3. Bracket \in {bracket - 1, bracket, bracket + 1}
    BY DEF Bracket
  <2>4. bracket' \in -(MaxTokens + 1)..0 /\ bracket' >= 1 - iter'
    BY <1>0, <1>1, <2>1, <2>3
  <2>5. iter' \in 1..(Len(line') + 1)
    BY <1>1, <2>1
  <2>6. group \in {0, 1, 2, 31, 32}
    BY DEF group, get_operator_group
  <2>7. last_oper' \in {iter, last_oper} /\ count' \in BOOLEAN /\ operator' \in {-1, 1, 2, 31, 32}
    <3>1. Counted \in BOOLEAN
      BY <1>1 DEF Counted
    <3>2. QED
      BY <1>1, <1>6, <2>6, <3>1 DEF Scan
  <2>8. last_oper' \in 1..(Len(line') + 1)
    BY <1>1, <2>1, <2>7
  <2>9. QED
    BY <1>1, <1>2, <2>1, <2>2, <2>4, <2>5, <2>7, <2>8
<1>7. CASE Refuse \/ Finish \/ Abandon \/ UNCHANGED syntax_vars
  <2>1. line' = line /\ UNCHANGED sypar
    BY <1>7 DEF Refuse, Finish, Abandon, syntax_vars, sypar
  <2>2. verdict' \in {"prompt", "scan", "accepted", "refused", "ask", "abandoned", "parsed"}
    <3>1. CASE Finish
      <4>1. \/ operator = 32 /\ count
            \/ operator = 2 /\ ~count
            \/ (operator = 32 => ~count) /\ (operator = 2 => count)
        BY <1>1
      <4>2. QED
        BY <3>1, <4>1 DEF Finish
    <3>2. QED
      BY <1>1, <1>7, <3>1 DEF Refuse, Abandon, syntax_vars
  <2>3. QED
    BY <1>1, <1>2, <2>1, <2>2 DEF sypar
<1>8. QED
  BY <1>4, <1>5, <1>6, <1>7 DEF SyntaxNext

\* Nothing has been read when a scan starts.
LEMMA RestartRight ==
  ASSUME line' \in Seq(AllTokens), Restart
  PROVE  ScanRight'
<1>1. /\ iter' = 1 /\ count' = FALSE /\ squote' = FALSE /\ dquote' = FALSE
      /\ operator' = -1 /\ bracket' = 0
  BY DEF Restart
<1>2. done' = <<>>
  <2>1. done' = Read(line')[iter' - 1] /\ iter' - 1 = 0
    BY <1>1 DEF done
  <2>2. QED
    BY <2>1, ReadUnfold
<1>3. Len(done') = 0
  BY <1>2
<1>4. QuoteRight'
  <2>1. Quote(line')[0] = "none" /\ iter' - 1 = 0
    BY <1>1, QuoteUnfold
  <2>2. QED
    BY <1>1, <2>1 DEF QuoteRight
<1>5. BracketRight'
  <2>1. Depth(done', 0) = 0
    BY DepthStep
  <2>2. QED
    BY <1>1, <1>3, <2>1 DEF BracketRight
<1>6. LastRight' /\ DigitsRight' /\ PairsRight'
  BY <1>1, <1>2, <1>3 DEF LastRight, DigitsRight, PairsRight
<1>7. GapRight'
  BY <1>1, <1>2, <1>3 DEF GapRight, Loose, Adjacent
<1>8. QED
  BY <1>4, <1>5, <1>6, <1>7 DEF ScanRight

ScanInv == TypeInv /\ (verdict = "scan" => ScanRight)

\* ... behind a step as well.
LEMMA LineTypeNext == SyntaxTypeOK' => line' \in Seq(AllTokens) /\ Len(line') \in Nat
<1>1. (SyntaxTypeOK => line \in Seq(AllTokens) /\ Len(line) \in Nat)'
  BY LineType, PTL
<1>2. QED
  BY <1>1

\* Every step keeps the invariant of the scan.
LEMMA ScanInvStep ==
  ASSUME ScanInv, [SyntaxNext]_syntax_vars
  PROVE  ScanInv'
<1>1. TypeInv /\ SyntaxTypeOK /\ (verdict = "scan" => ScanRight)
  BY DEF ScanInv, TypeInv
<1>2. TypeInv' /\ line' \in Seq(AllTokens)
  BY <1>1, TypeStep, LineTypeNext DEF TypeInv
<1>3. CASE Enter \/ Continue
  <2>1. Restart
    BY <1>3 DEF Enter, Continue
  <2>2. ScanRight'
    BY <1>2, <2>1, RestartRight
  <2>3. QED
    BY <1>2, <2>2 DEF ScanInv
<1>4. CASE Scan
  <2>1. ScanRight
    BY <1>1, <1>4 DEF Scan
  <2>2. ScanRight'
    BY <1>1, <1>4, <2>1, ScanKinds, BracketStep, LastStep, DigitsStep, PairsStep, GapStep
       DEF ScanRight
  <2>3. QED
    BY <1>2, <2>2 DEF ScanInv
<1>5. CASE Refuse \/ Finish \/ Abandon
  <2>1. verdict' # "scan"
    <3>1. CASE Finish
      <4>1. operator \in {-1, 1, 2, 31, 32} /\ count \in BOOLEAN
        BY <1>1 DEF SyntaxTypeOK
      <4>2. \/ operator = 32 /\ count
            \/ operator = 2 /\ ~count
            \/ (operator = 32 => ~count) /\ (operator = 2 => count)
        BY <4>1
      <4>3. QED
        BY <3>1, <4>2 DEF Finish
    <3>2. QED
      BY <1>5, <3>1 DEF Refuse, Abandon
  <2>2. QED
    BY <1>2, <2>1 DEF ScanInv
<1>6. CASE UNCHANGED syntax_vars
  <2>1. /\ verdict' = verdict /\ line' = line /\ iter' = iter /\ last_oper' = last_oper
        /\ count' = count /\ squote' = squote /\ dquote' = dquote
        /\ operator' = operator /\ bracket' = bracket
    BY <1>6 DEF syntax_vars
  <2>2. ScanRight' <=> ScanRight
    <3>1. done' = done
      BY <2>1 DEF done
    <3>2. DigitsBehindBracket' <=> DigitsBehindBracket
      BY <2>1 DEF DigitsBehindBracket
    <3>3. Loose(done)' <=> Loose(done)
      BY <3>1 DEF Loose, Adjacent
    <3>4. /\ QuoteRight' <=> QuoteRight
          /\ BracketRight' <=> BracketRight
          /\ LastRight' <=> LastRight
          /\ DigitsRight' <=> DigitsRight
          /\ PairsRight' <=> PairsRight
      BY <2>1, <3>1 DEF QuoteRight, BracketRight, LastRight, DigitsRight, PairsRight
    <3>5. GapRight' <=> GapRight
      BY <2>1, <3>2, <3>3 DEF GapRight
    <3>6. QED
      BY <3>4, <3>5 DEF ScanRight
  <2>3. QED
    BY <1>1, <1>2, <2>1, <2>2 DEF ScanInv
<1>7. QED
  BY <1>3, <1>4, <1>5, <1>6 DEF SyntaxNext

\* It holds at the start.
LEMMA ScanInvInit == SyntaxInit => ScanInv
<1> SUFFICES ASSUME SyntaxInit
             PROVE  ScanInv
  OBVIOUS
<1>1. line = <<>> /\ Len(line) = 0 /\ MaxTokens \in Nat
  BY SyntaxAssumption DEF SyntaxInit
<1>2. \A A : <<>> \in Seq(A)
  OBVIOUS
<1>3. line \in Seq(AllTokens)
  BY <1>1, <1>2
<1>4. /\ verdict = "prompt" /\ iter = 1 /\ last_oper = 1 /\ count = FALSE
      /\ squote = FALSE /\ dquote = FALSE /\ operator = -1 /\ bracket = 0
  BY DEF SyntaxInit
<1>5. /\ 1 \in 1..(Len(line) + 1) /\ 0 \in -(MaxTokens + 1)..0 /\ 0 >= 1 - 1
      /\ Len(line) <= MaxTokens + 1
  BY <1>1
<1>6. SyntaxTypeOK /\ bracket >= 1 - iter
  BY <1>3, <1>4, <1>5 DEF SyntaxTypeOK
<1>7. QED
  BY <1>4, <1>6 DEF ScanInv, TypeInv

\* syntax_check(): the scan stays in the line, and its flags in their ranges;
\* it never has a ")" too many behind it.
THEOREM SyntaxTypeCorrect == SyntaxSpec => []SyntaxTypeOK
<1>1. ScanInv => SyntaxTypeOK
  BY DEF ScanInv, TypeInv
<1>2. QED
  BY <1>1, ScanInvInit, ScanInvStep, PTL DEF SyntaxSpec
-----------------------------------------------------------------------------
(* A line that is refused.                                                 *)

\* Nothing that comes behind makes it a list.
Broken(r) == \/ r # <<>> /\ r[1] \notin Begins
             \/ \E j \in 1..(Len(r) - 1) : ~Follows(r[j], r[j + 1])
             \/ \E k \in 0..Len(r) : Depth(r, k) < 0

\* A list does not begin with a broken text.
LEMMA BrokenBegins ==
  ASSUME NEW r \in Readings, Broken(r), NEW q \in Readings, Len(r) <= Len(q),
         \A j \in 1..Len(r) : q[j] = r[j]
  PROVE  ~IsList[q]
<1> SUFFICES ASSUME IsList[q]
             PROVE  FALSE
  OBVIOUS
<1>1. Shape(q) /\ Level(q)
  BY ListShape
<1> DEFINE n == Len(r)
           l == Len(q)
<1>2. n \in Nat /\ l \in Nat /\ n <= l /\ (r = <<>> <=> n = 0)
  BY ReadingFacts
<1>3. /\ q[1] \in Begins /\ \A j \in 1..(l - 1) : Follows(q[j], q[j + 1])
      /\ \A k \in 0..l : Depth(q, k) >= 0
  BY <1>1 DEF Shape, Level
<1>4. \A k \in 0..n : Depth(r, k) = Depth(q, k)
  BY <1>2, SameDepth
<1>5. CASE r # <<>> /\ r[1] \notin Begins
  <2>1. 1 \in 1..n
    BY <1>2, <1>5
  <2>2. q[1] = r[1]
    BY <2>1
  <2>3. QED
    BY <1>3, <1>5, <2>2
<1>6. CASE \E j \in 1..(n - 1) : ~Follows(r[j], r[j + 1])
  <2>1. PICK j \in 1..(n - 1) : ~Follows(r[j], r[j + 1])
    BY <1>6
  <2>2. j \in 1..n /\ j + 1 \in 1..n /\ j \in 1..(l - 1)
    BY <1>2
  <2>3. q[j] = r[j] /\ q[j + 1] = r[j + 1]
    BY <2>2
  <2>4. QED
    BY <1>3, <2>1, <2>2, <2>3
<1>7. CASE \E k \in 0..n : Depth(r, k) < 0
  <2>1. PICK k \in 0..n : Depth(r, k) < 0
    BY <1>7
  <2>2. k \in 0..l /\ Depth(q, k) \in Int /\ Depth(q, k) >= 0
    BY <1>2, <1>3, DepthStep
  <2>3. QED
    BY <1>4, <2>1, <2>2
<1>8. QED
  BY <1>5, <1>6, <1>7 DEF Broken

\* The brackets that close what is open.
Closing(s) == [k \in 1..(Count(s, "(") - Count(s, ")")) |-> ")"]

\* A row of brackets.
LEMMA CloseFacts ==
  ASSUME NEW n \in Int
  PROVE  LET t == [k \in 1..n |-> ")"]
         IN  /\ t \in Readings /\ Len(t) = IF n > 0 THEN n ELSE 0
             /\ \A j \in 1..n : t[j] = ")"
<1> DEFINE t == [k \in 1..n |-> ")"]
           A == Operators \cup {"w", "3", "<", "(", ")"}
<1>1. ")" \in A
  OBVIOUS
<1> HIDE DEF A
<1>2. CASE n > 0
  <2>1. t \in [1..n -> A] /\ n \in Nat
    BY <1>1, <1>2
  <2>2. t \in Seq(A) /\ Len(t) = n
    BY <2>1, SeqOfFunction
  <2>3. QED
    BY <1>2, <2>2 DEF Readings, A
<1>3. CASE ~(n > 0)
  <2> DEFINE z == 0
  <2>1. 1..n = 1..z /\ z \in Nat
    BY <1>3
  <2>2. t \in [1..z -> A]
    BY <1>1, <2>1
  <2> HIDE DEF z, t
  <2>3. t \in Seq(A) /\ Len(t) = z
    BY <2>1, <2>2, SeqOfFunction
  <2>4. \A j \in 1..n : FALSE
    BY <1>3
  <2>5. QED
    BY <1>3, <2>3, <2>4 DEF Readings, A, z, t
<1>4. QED
  BY <1>2, <1>3

\* As many brackets as are open.
LEMMA ClosingFacts ==
  ASSUME NEW s \in Readings
  PROVE  /\ Closing(s) \in Readings /\ Depth(s, Len(s)) \in Int
         /\ Len(Closing(s)) = IF Depth(s, Len(s)) > 0 THEN Depth(s, Len(s)) ELSE 0
         /\ \A j \in 1..Len(Closing(s)) : Closing(s)[j] = ")"
<1> DEFINE n == Count(s, "(") - Count(s, ")")
<1>0. Len(s) \in Nat
  BY ReadingFacts
<1>1. n = Depth(s, Len(s))
  BY DEF Count, Depth, Places
<1>2. Depth(s, Len(s)) \in Int
  BY <1>0, DepthStep
<1>3. Closing(s) = [k \in 1..n |-> ")"]
  BY DEF Closing
<1> HIDE DEF n
<1>4. /\ Closing(s) \in Readings /\ Len(Closing(s)) = IF n > 0 THEN n ELSE 0
      /\ \A j \in 1..n : Closing(s)[j] = ")"
  BY <1>1, <1>2, <1>3, CloseFacts
<1>5. \A j \in 1..Len(Closing(s)) : j \in 1..n
  BY <1>1, <1>2, <1>4
<1>6. QED
  BY <1>1, <1>2, <1>4, <1>5

\* Two readings, one behind the other.
LEMMA JoinFacts ==
  ASSUME NEW s \in Readings, NEW t \in Readings
  PROVE  /\ s \o t \in Readings /\ Len(s \o t) = Len(s) + Len(t)
         /\ Len(s) \in Nat /\ Len(t) \in Nat
         /\ \A j \in 1..Len(s) : (s \o t)[j] = s[j]
         /\ \A j \in 1..Len(t) : (s \o t)[Len(s) + j] = t[j]
BY DEF Readings

\* What begins with a broken text cannot be completed.
LEMMA BrokenForGood ==
  ASSUME NEW r \in Readings, Broken(r), NEW s \in Readings, Len(r) <= Len(s),
         \A j \in 1..Len(r) : s[j] = r[j]
  PROVE  ~Completable(s)
<1>1. ASSUME NEW t \in Readings
      PROVE  ~IsList[s \o t]
  <2>1. /\ s \o t \in Readings /\ Len(s \o t) = Len(s) + Len(t)
        /\ Len(s) \in Nat /\ Len(t) \in Nat /\ Len(r) \in Nat
        /\ \A j \in 1..Len(s) : (s \o t)[j] = s[j]
    BY <1>1, JoinFacts, ReadingFacts
  <2>2. Len(r) <= Len(s \o t) /\ \A j \in 1..Len(r) : j \in 1..Len(s)
    BY <2>1
  <2>3. \A j \in 1..Len(r) : (s \o t)[j] = r[j]
    BY <2>1, <2>2
  <2>4. QED
    BY <2>1, <2>2, <2>3, BrokenBegins
<1>2. Closing(s) \in Readings
  BY ClosingFacts
<1>3. <<"w">> \o Closing(s) \in Readings /\ s \o <<"w">> \o Closing(s) = s \o (<<"w">> \o Closing(s))
  BY <1>2 DEF Readings
<1>4. ~IsList[s \o Closing(s)] /\ ~IsList[s \o <<"w">> \o Closing(s)]
  BY <1>1, <1>2, <1>3
<1>5. QED
  BY <1>4 DEF Completable, Closing

\* Two tokens that may not stand side by side, at the end or further in front.
LEMMA BrokenEnd ==
  ASSUME NEW r \in Readings, NEW x, <<x>> \in Readings,
         \/ r = <<>> /\ x \notin Begins
         \/ r # <<>> /\ ~Follows(LastOf(r), x)
         \/ Loose(r)
         \/ x = ")" /\ Depth(r, Len(r)) = 0
  PROVE  Broken(r \o <<x>>)
<1> DEFINE q == r \o <<x>>
           n == Len(r)
<1>1. /\ Len(q) = n + 1 /\ n \in Nat /\ q[n + 1] = x /\ q \in Readings
      /\ \A j \in 1..n : q[j] = r[j]
  BY AppendFacts
<1>2. (r = <<>> <=> n = 0) /\ (q = <<>> <=> Len(q) = 0)
  BY <1>1, ReadingFacts
<1>3. /\ Loose(r) <=> \E j \in 1..(n - 1) : r[j] = ")" /\ r[j + 1] = "w"
      /\ LastOf(r) = r[n]
  BY DEF Loose, Adjacent, LastOf
<1>4. x = ")" => Depth(q, n + 1) = Depth(r, n) - 1
  BY AppendDepth
<1>5. Broken(q) <=> \/ q # <<>> /\ q[1] \notin Begins
                    \/ \E j \in 1..(Len(q) - 1) : ~Follows(q[j], q[j + 1])
                    \/ \E k \in 0..Len(q) : Depth(q, k) < 0
  BY DEF Broken
<1>6. CASE r = <<>> /\ x \notin Begins
  <2> HIDE DEF q, n
  <2>1. q # <<>> /\ q[1] = x
    BY <1>1, <1>2, <1>6
  <2>2. QED
    BY <1>5, <1>6, <2>1 DEF q
<1>7. CASE r # <<>> /\ ~Follows(LastOf(r), x)
  <2> HIDE DEF q, n
  <2>1. n \in 1..(Len(q) - 1) /\ n \in 1..n
    BY <1>1, <1>2, <1>7
  <2>2. ~Follows(q[n], q[n + 1])
    BY <1>1, <1>3, <1>7, <2>1
  <2>3. QED
    BY <1>5, <2>1, <2>2 DEF q
<1>8. CASE Loose(r)
  <2> HIDE DEF q, n
  <2>1. PICK j \in 1..(n - 1) : r[j] = ")" /\ r[j + 1] = "w"
    BY <1>3, <1>8
  <2>2. j \in 1..n /\ j + 1 \in 1..n /\ j \in 1..(Len(q) - 1)
    BY <1>1
  <2>3. ~Follows(q[j], q[j + 1])
    BY <1>1, <2>1, <2>2 DEF Follows
  <2>4. QED
    BY <1>5, <2>2, <2>3 DEF q
<1>9. CASE x = ")" /\ Depth(r, n) = 0
  <2> HIDE DEF q, n
  <2>1. Depth(q, n + 1) < 0 /\ n + 1 \in 0..Len(q)
    BY <1>1, <1>4, <1>9
  <2>2. QED
    BY <1>5, <2>1 DEF q
<1>10. QED
  BY <1>6, <1>7, <1>8, <1>9 DEF q, n

\* A word of which the gap behind a ")" has kept notice stands loose, or is the
\* digits of the operator the scan is at.
LEMMA GapNumber ==
  ASSUME line \in Seq(AllTokens), iter \in Nat, last_oper \in Nat,
         \A j \in (last_oper + 1)..(iter - 1) : j \in Plain(line) => get_operator_group(line[j]) = 0,
         NEW m \in (last_oper + 1)..(iter - 1), Number(line, m),
         \A j \in (last_oper + 1)..(m - 1) : line[j] = "sp",
         iter <= Len(line) => line[iter] # "3"
  PROVE  /\ iter <= Len(line) /\ line[iter] = "<"
         /\ \A j \in (last_oper + 1)..(iter - 1) : line[j] \in {"sp", "3"}
<1>1. PICK k \in Plain(line) : /\ m < k /\ line[k] = "<"
                               /\ \A j \in m..(k - 1) : j \in Plain(line) /\ line[j] = "3"
  BY DEF Number
<1>2. k \in 1..Len(line) /\ Len(line) \in Nat /\ m \in Nat
  BY DEF Plain
<1>3. ~(k < iter)
  <2> SUFFICES ASSUME k < iter
               PROVE  FALSE
    OBVIOUS
  <2>1. k \in (last_oper + 1)..(iter - 1)
    BY <1>1, <1>2
  <2>2. get_operator_group(line[k]) = 0
    BY <2>1
  <2>3. QED
    BY <1>1, <2>2, GroupOf DEF AllTokens, Quotes
<1>4. ~(k > iter)
  <2> SUFFICES ASSUME k > iter
               PROVE  FALSE
    OBVIOUS
  <2>1. iter \in m..(k - 1) /\ iter <= Len(line)
    BY <1>1, <1>2
  <2>2. QED
    BY <1>1, <2>1
<1>5. k = iter
  BY <1>2, <1>3, <1>4
<1>6. ASSUME NEW j \in (last_oper + 1)..(iter - 1)
      PROVE  line[j] \in {"sp", "3"}
  <2>1. j \in (last_oper + 1)..(m - 1) \/ j \in m..(iter - 1)
    BY <1>2
  <2>2. QED
    BY <1>1, <1>5, <2>1
<1>7. QED
  BY <1>1, <1>2, <1>5, <1>6

\* The token at which the scan refuses the line breaks it for good.
LEMMA RefuseRight ==
  ASSUME SyntaxTypeOK, ScanRight, iter <= Len(line), Refused
  PROVE  ~Completable(Reading(line))
<1>1. line \in Seq(AllTokens) /\ Len(line) \in Nat
  BY LineType
<1>2. iter \in 1..Len(line) /\ iter \in Nat
  <2>1. iter \in 1..(Len(line) + 1)
    BY DEF SyntaxTypeOK
  <2>2. QED
    BY <1>1, <2>1
<1>3. /\ QuoteRight /\ BracketRight /\ LastRight /\ GapRight
      /\ bracket \in Int /\ bracket <= 0 /\ last_oper \in Nat
  BY <1>1 DEF ScanRight, SyntaxTypeOK
<1>4. /\ (Unquoted /\ group # 0) <=> (~InWord(line, iter) /\ token # "sp")
      /\ Bracket = IF InWord(line, iter) THEN bracket
                   ELSE IF token = "(" THEN bracket - 1
                   ELSE IF token = ")" THEN bracket + 1 ELSE bracket
  BY <1>2, <1>3, OperatorSeen
<1>5. \/ Bracket > 0
      \/ Unquoted /\ group # 0 /\ Misplaced
  BY DEF Refused
<1>6. Bracket > 0 => ~InWord(line, iter) /\ token = ")" /\ bracket = 0
  BY <1>3, <1>4
<1>7. ~InWord(line, iter) /\ token # "sp" /\ Unquoted /\ group # 0
  BY <1>4, <1>5, <1>6
<1>8. Piece(line, iter) = <<token>> /\ token \in Operators \cup {"<", "(", ")"} /\ token = line[iter]
  BY <1>1, <1>2, <1>7, PieceValue DEF token
<1>9. done \in Readings /\ Read(line)[iter] = done \o <<token>> /\ <<token>> \in Readings
  <2>1. iter - 1 \in 0..Len(line)
    BY <1>1, <1>2
  <2>2. QED
    BY <1>1, <1>2, <1>8, <2>1, ReadUnfold, PieceType DEF done
<1>10. token \in AllTokens /\ token # "3" /\ token # "w"
  BY <1>8 DEF AllTokens, Operators
<1>11. group = get_operator_group(token) /\ Counted = count
  <2>1. count \in BOOLEAN
    BY DEF SyntaxTypeOK
  <2>2. QED
    BY <1>7, <2>1 DEF group, Counted
<1>12. /\ group = 1 <=> token \in Operators
       /\ group = 2 <=> token = "<"
       /\ group = 32 <=> token = ")"
  BY <1>10, <1>11, GroupOf
<1>13. done # <<>> => LastOf(done) \in AllTokens
  <2>1. done # <<>> => Len(done) \in 1..Len(done)
    BY <1>9, ReadingFacts
  <2>2. done # <<>> => LastOf(done) \in Operators \cup {"w", "3", "<", "(", ")"}
    BY <1>9, <2>1, ReadingFacts DEF LastOf
  <2>3. QED
    BY <2>2 DEF AllTokens
<1>14. \/ done = <<>> /\ token \notin Begins
       \/ done # <<>> /\ ~Follows(LastOf(done), token)
       \/ Loose(done)
       \/ token = ")" /\ Depth(done, Len(done)) = 0
  <2>1. CASE Bracket > 0
    <3>1. Depth(done, Len(done)) \in Int
      BY <1>9, ReadingFacts, DepthStep
    <3>2. QED
      BY <1>3, <1>6, <2>1, <3>1 DEF BracketRight
  <2>2. CASE operator = 2 /\ ~count
    <3>1. done # <<>> /\ LastOf(done) = "<"
      BY <1>3, <1>13, <2>2, GroupOf DEF LastRight
    <3>2. QED
      BY <1>10, <3>1 DEF Follows
  <2>3. CASE operator = -1 /\ ~count /\ group = 1
    <3>1. done = <<>>
      BY <1>3, <2>3 DEF LastRight
    <3>2. QED
      BY <1>12, <2>3, <3>1 DEF Begins, Operators
  <2>4. CASE operator = 31 /\ ~count /\ group \in {1, 32}
    <3>1. done # <<>> /\ LastOf(done) = "("
      BY <1>3, <1>13, <2>4, GroupOf DEF LastRight
    <3>2. token \notin Begins
      BY <1>12, <2>4 DEF Begins, Operators
    <3>3. QED
      BY <3>1, <3>2 DEF Follows
  <2>5. CASE operator = 1 /\ ~count /\ group = 1
    <3>1. done # <<>> /\ LastOf(done) \in Operators
      BY <1>3, <1>13, <2>5, GroupOf DEF LastRight
    <3>2. token \notin Begins
      BY <1>12, <2>5 DEF Begins, Operators
    <3>3. QED
      BY <3>1, <3>2 DEF Follows
  <2>6. CASE operator = 32 /\ count /\ (group = 2 => syntax_redi_correct_case)
    <3>1. PICK m \in (last_oper + 1)..(iter - 1) :
            /\ InWord(line, m) /\ \A j \in (last_oper + 1)..(m - 1) : line[j] = "sp"
            /\ ~Number(line, m) => Loose(done)
      BY <1>3, <2>6 DEF GapRight
    <3>2. CASE Number(line, m)
      <4>1. \A j \in (last_oper + 1)..(iter - 1) : j \in Plain(line) => get_operator_group(line[j]) = 0
        BY <1>3, <2>6 DEF GapRight
      <4>2. line[iter] = "<" /\ \A j \in (last_oper + 1)..(iter - 1) : line[j] \in {"sp", "3"}
        BY <1>1, <1>2, <1>3, <1>8, <1>10, <3>1, <3>2, <4>1, GapNumber
      <4>3. syntax_redi_correct_case
        BY <1>8, <1>12, <2>6, <4>2
      <4>4. QED
        BY <4>2, <4>3 DEF syntax_redi_correct_case
    <3>3. QED
      BY <3>1, <3>2
  <2>7. QED
    BY <1>5, <1>11, <2>1, <2>2, <2>3, <2>4, <2>5, <2>6 DEF Misplaced
<1>15. Broken(done \o <<token>>)
  BY <1>9, <1>14, BrokenEnd
<1>16. iter \in 0..Len(line)
  BY <1>2
<1>17. QED
  BY <1>1, <1>9, <1>15, <1>16, ReadPrefix, BrokenForGood
-----------------------------------------------------------------------------
(* The end of a line.                                                      *)

\* What may still become a sound text: only its end is missing.
Front(r) == /\ r # <<>> /\ r[1] \notin Operators
            /\ \A j \in 1..(Len(r) - 1) : Meets(r[j], r[j + 1])
            /\ \A k \in 0..Len(r) : Depth(r, k) >= 0
            /\ ~WordBehindSubshell(r)

\* No word behind a subshell's redirections comes in from elsewhere.
LEMMA NoWordBehind ==
  ASSUME NEW r \in Readings, ~WordBehindSubshell(r), NEW q \in Readings, Len(r) <= Len(q),
         \A j \in 1..Len(r) : q[j] = r[j],
         \A i, k \in 1..Len(q) : i + 1 < k /\ q[k] = "w" /\ k > Len(r) => ~IsRedirs[SubSeq(q, i + 1, k - 1)]
  PROVE  ~WordBehindSubshell(q)
<1> SUFFICES ASSUME NEW i \in 1..Len(q), NEW k \in 1..Len(q), i + 1 < k, q[i] = ")", q[k] = "w",
                    IsRedirs[SubSeq(q, i + 1, k - 1)]
             PROVE  FALSE
  BY DEF WordBehindSubshell
<1>1. k <= Len(r) /\ Len(r) \in Nat /\ Len(q) \in Nat
  BY ReadingFacts
<1>2. i \in 1..Len(r) /\ k \in 1..Len(r) /\ i \in Nat /\ k - 1 \in Nat
  BY <1>1
<1>3. SubSeq(r, i + 1, k - 1) = SubSeq(q, i + 1, k - 1)
  <2> DEFINE a == 0
             l == k - 1
  <2>1. /\ a \in Nat /\ l \in Nat /\ \A j \in 1..Len(r) : r[j] = q[a + j]
        /\ a + Len(r) <= Len(q) /\ i <= l /\ l <= Len(r)
    BY <1>1, <1>2
  <2> HIDE DEF a, l
  <2>2. SubSeq(r, i + 1, l) = SubSeq(q, a + i + 1, a + l)
    <3>1. Copied(r, q, a, Len(r))
      BY <1>2, <2>1 DEF Copied
    <3>2. PartsAgree(r, q, a, i, l)
      BY <1>2, <2>1, <3>1, SamePart
    <3>3. QED
      BY <3>2 DEF PartsAgree
  <2>3. a + i + 1 = i + 1 /\ a + l = k - 1 /\ l = k - 1
    BY <1>2 DEF a, l
  <2>4. QED
    BY <2>2, <2>3
<1>4. r[i] = ")" /\ r[k] = "w"
  BY <1>2
<1>5. QED
  BY <1>2, <1>3, <1>4 DEF WordBehindSubshell

\* d closing brackets behind position n, and what they do to the depth.
ClosedBehind(q, n, d) == \A j \in 1..d : q[n + j] = ")"
DepthFalls(q, n, d)   == \A j \in 0..d : Depth(q, n + j) = d - j

\* A bracket more for each that is open.
LEMMA DepthClosing ==
  ASSUME NEW q, NEW n \in Nat, NEW d \in Nat, Depth(q, n) = d, ClosedBehind(q, n, d)
  PROVE  DepthFalls(q, n, d)
<1> DEFINE P == {j \in Nat : j <= d => Depth(q, n + j) = d - j}
<1>1. 0 \in P
  <2>1. n + 0 = n /\ d - 0 = d
    OBVIOUS
  <2>2. QED
    BY <2>1
<1>2. ASSUME NEW j \in P
      PROVE  j + 1 \in P
  <2> SUFFICES ASSUME j + 1 <= d
               PROVE  Depth(q, n + (j + 1)) = d - (j + 1)
    OBVIOUS
  <2>1. j \in Nat /\ j <= d /\ Depth(q, n + j) = d - j /\ j + 1 \in 1..d
    OBVIOUS
  <2> DEFINE m == n + j
  <2>2. m \in Nat /\ n + (j + 1) = m + 1
    BY <2>1
  <2>3. q[m + 1] = ")"
    BY <2>1, <2>2 DEF ClosedBehind
  <2> HIDE DEF m, P
  <2>4. Depth(q, m + 1) = Depth(q, m) - 1
    BY <2>2, <2>3, DepthStep
  <2>5. Depth(q, m) = d - j
    BY <2>1 DEF m
  <2>6. QED
    BY <2>1, <2>2, <2>4, <2>5
<1>3. P = Nat
  <2> HIDE DEF P
  <2>1. P \in SUBSET Nat
    BY DEF P
  <2>2. QED
    BY <1>1, <1>2, <2>1, Induction
<1>4. ASSUME NEW j \in 0..d
      PROVE  Depth(q, n + j) = d - j
  <2>1. j \in Nat /\ j <= d
    OBVIOUS
  <2>2. j \in P
    <3> HIDE DEF P
    <3>1. QED
      BY <1>3, <2>1
  <2>3. QED
    BY <2>1, <2>2
<1>5. QED
  BY <1>4 DEF DepthFalls

\* With its brackets closed, a text that ends in a word or a bracket is sound.
LEMMA SoundClosed ==
  ASSUME NEW r \in Readings, Front(r), LastOf(r) \in {"w", ")"}
  PROVE  Sound(r \o Closing(r))
<1> DEFINE t == Closing(r)
           q == r \o t
           n == Len(r)
           d == Depth(r, Len(r))
<1>1. n \in Nat /\ n # 0 /\ n \in 0..n
  BY ReadingFacts DEF Front
<1>2. d \in Nat
  <2>1. d \in Int
    BY <1>1, DepthStep
  <2>2. d >= 0
    BY <1>1 DEF Front
  <2>3. QED
    BY <2>1, <2>2
<1>3. t \in Readings /\ Len(t) = d /\ \A j \in 1..d : t[j] = ")"
  <2>1. t \in Readings /\ Len(t) = IF d > 0 THEN d ELSE 0
    BY ClosingFacts
  <2>2. Len(t) = d
    BY <1>2, <2>1
  <2>3. \A j \in 1..Len(t) : t[j] = ")"
    BY ClosingFacts
  <2>4. QED
    BY <2>1, <2>2, <2>3
<1>4. /\ q \in Readings /\ Len(q) = n + d
      /\ \A j \in 1..n : q[j] = r[j]
      /\ \A j \in 1..d : q[n + j] = ")"
  <2> HIDE DEF t
  <2>1. /\ q \in Readings /\ Len(q) = n + Len(t)
        /\ \A j \in 1..n : q[j] = r[j]
        /\ \A j \in 1..Len(t) : q[n + j] = t[j]
    BY <1>3, JoinFacts
  <2>2. QED
    BY <1>3, <2>1
<1>5. /\ r[1] \notin Operators /\ r[n] \in {"w", ")"}
      /\ \A j \in 1..(n - 1) : Meets(r[j], r[j + 1])
      /\ \A k \in 0..n : Depth(r, k) >= 0
      /\ ~WordBehindSubshell(r)
  BY DEF Front, LastOf
<1>6. \A k \in 0..n : Depth(q, k) = Depth(r, k)
  <2>1. \A j \in 1..n : r[j] = q[j]
    BY <1>4
  <2> HIDE DEF n, q
  <2>2. QED
    BY <1>1, <2>1, SameDepth
<1>7. Depth(q, n) = d
  BY <1>1, <1>6
<1> HIDE DEF t, q, n, d
<1>8. \A j \in 0..d : Depth(q, n + j) = d - j
  <2>1. ClosedBehind(q, n, d)
    BY <1>1, <1>2, <1>4 DEF ClosedBehind
  <2>2. DepthFalls(q, n, d)
    BY <1>1, <1>2, <1>7, <2>1, DepthClosing
  <2>3. QED
    BY <2>2 DEF DepthFalls
<1>9. \A k \in 0..Len(q) : k \in 0..n \/ (k - n \in 0..d /\ n + (k - n) = k)
  BY <1>1, <1>2, <1>4
<1>10. q # <<>> /\ q[1] \notin Operators
  <2>1. Len(q) # 0 /\ 1 \in 1..n
    BY <1>1, <1>2, <1>4
  <2>2. QED
    BY <1>4, <1>5, <2>1, ReadingFacts
<1>11. q[Len(q)] \in {"w", ")"}
  <2>1. CASE d = 0
    <3>1. Len(q) = n /\ n \in 1..n
      BY <1>1, <1>4, <2>1
    <3>2. QED
      BY <1>4, <1>5, <3>1
  <2>2. CASE d # 0
    <3>1. d \in 1..d
      BY <1>2, <2>2
    <3>2. QED
      BY <1>4, <3>1
  <2>3. QED
    BY <2>1, <2>2
<1>12. \A j \in 1..(Len(q) - 1) : Meets(q[j], q[j + 1])
  <2> TAKE j \in 1..(Len(q) - 1)
  <2>1. CASE j < n
    <3>1. j \in 1..(n - 1) /\ j \in 1..n /\ j + 1 \in 1..n
      BY <1>1, <1>4, <2>1
    <3>2. QED
      BY <1>4, <1>5, <3>1
  <2>2. CASE j >= n
    <3>1. j + 1 - n \in 1..d /\ n + (j + 1 - n) = j + 1
      BY <1>1, <1>2, <1>4, <2>2
    <3>2. q[j + 1] = ")"
      BY <1>4, <3>1
    <3>3. q[j] \in {"w", ")"}
      <4>1. CASE j = n
        <5>1. n \in 1..n
          BY <1>1
        <5>2. QED
          BY <1>4, <1>5, <4>1, <5>1
      <4>2. CASE j # n
        <5>1. j - n \in 1..d /\ n + (j - n) = j
          BY <1>1, <1>2, <1>4, <2>2, <4>2
        <5>2. QED
          BY <1>4, <5>1
      <4>3. QED
        BY <4>1, <4>2
    <3>4. QED
      BY <3>2, <3>3 DEF Meets, Operators
  <2>3. QED
    BY <1>1, <1>2, <1>4, <2>1, <2>2
<1>13. Level(q)
  <2>1. d \in 0..d /\ d - d = 0
    BY <1>2
  <2>2. Depth(q, Len(q)) = 0
    BY <1>4, <1>8, <2>1
  <2>3. \A k \in 0..Len(q) : Depth(q, k) >= 0
    <3> TAKE k \in 0..Len(q)
    <3>1. CASE k \in 0..n
      BY <1>5, <1>6, <3>1 DEF n
    <3>2. CASE k - n \in 0..d /\ n + (k - n) = k
      <4> DEFINE i == k - n
      <4>1. i \in 0..d /\ n + i = k
        BY <3>2
      <4> HIDE DEF i
      <4>2. Depth(q, k) = d - i /\ d - i >= 0
        BY <1>2, <1>8, <4>1
      <4>3. QED
        BY <4>2
    <3>3. QED
      BY <1>9, <3>1, <3>2
  <2>4. QED
    BY <2>2, <2>3 DEF Level
<1>14. ~WordBehindSubshell(q)
  <2>1. \A k \in 1..Len(q) : k > n => q[k] = ")"
    <3> TAKE k \in 1..Len(q)
    <3> HAVE k > n
    <3>1. k - n \in 1..d /\ n + (k - n) = k
      BY <1>1, <1>2, <1>4
    <3>2. QED
      BY <1>4, <3>1
  <2>2. n <= Len(q)
    BY <1>1, <1>2, <1>4
  <2>3. QED
    BY <1>4, <1>5, <2>1, <2>2, NoWordBehind DEF n
<1>15. Sound(q)
  BY <1>10, <1>11, <1>12, <1>13, <1>14 DEF Sound
<1>16. QED
  BY <1>15 DEF q, t

\* A word more where one has to come.
LEMMA FrontAppended ==
  ASSUME NEW r \in Readings, Front(r), LastOf(r) \in Operators \cup {"("}
  PROVE  /\ r \o <<"w">> \in Readings /\ Front(r \o <<"w">>) /\ LastOf(r \o <<"w">>) = "w"
         /\ Closing(r \o <<"w">>) = Closing(r)
<1> DEFINE x == "w"
           q == r \o <<x>>
           n == Len(r)
<1>0. <<x>> \in Readings
  BY DEF Readings
<1>1. /\ q \in Readings /\ Len(q) = n + 1 /\ n \in Nat /\ q[n + 1] = x
      /\ \A j \in 1..n : q[j] = r[j]
  BY <1>0, AppendFacts
<1>2. /\ \A k \in 0..n : Depth(q, k) = Depth(r, k)
      /\ Depth(q, n + 1) = Depth(r, n)
  BY <1>0, AppendDepth
<1>3. /\ r[1] \notin Operators /\ r[n] \in Operators \cup {"("} /\ n # 0
      /\ \A j \in 1..(n - 1) : Meets(r[j], r[j + 1])
      /\ \A k \in 0..n : Depth(r, k) >= 0
      /\ ~WordBehindSubshell(r)
  BY <1>1, ReadingFacts DEF Front, LastOf
<1>4. LastOf(q) = x /\ q # <<>>
  BY <1>0, LastAppended
<1>5. Closing(q) = Closing(r)
  <2>1. \A s : Count(s, "(") - Count(s, ")") = Depth(s, Len(s))
    BY DEF Count, Depth, Places
  <2>2. Depth(q, Len(q)) = Depth(r, Len(r))
    BY <1>1, <1>2
  <2> HIDE DEF q
  <2>3. Count(q, "(") - Count(q, ")") = Count(r, "(") - Count(r, ")")
    BY <2>1, <2>2
  <2>4. QED
    BY <2>3 DEF Closing
<1> HIDE DEF q, n
<1>6. q[1] \notin Operators
  <2>1. 1 \in 1..n
    BY <1>1, <1>3
  <2>2. QED
    BY <1>1, <1>3, <2>1
<1>7. \A j \in 1..(Len(q) - 1) : Meets(q[j], q[j + 1])
  <2> TAKE j \in 1..(Len(q) - 1)
  <2>1. CASE j = n
    <3>1. n \in 1..n
      BY <1>1, <1>3
    <3>2. q[j] \in Operators \cup {"("} /\ q[j + 1] = "w"
      BY <1>1, <1>3, <2>1, <3>1
    <3>3. QED
      BY <3>2 DEF Meets, Operators, Begins
  <2>2. CASE j # n
    <3>1. j \in 1..(n - 1) /\ j \in 1..n /\ j + 1 \in 1..n
      BY <1>1, <2>2
    <3>2. QED
      BY <1>1, <1>3, <3>1
  <2>3. QED
    BY <2>1, <2>2
<1>8. \A k \in 0..Len(q) : Depth(q, k) >= 0
  <2> TAKE k \in 0..Len(q)
  <2>1. n \in 0..n
    BY <1>1
  <2>2. CASE k = n + 1
    BY <1>2, <1>3, <2>1, <2>2
  <2>3. CASE k # n + 1
    <3>1. k \in 0..n
      BY <1>1, <2>3
    <3>2. QED
      BY <1>2, <1>3, <3>1
  <2>4. QED
    BY <2>2, <2>3
<1>9. ~WordBehindSubshell(q)
  <2>1. ASSUME NEW i \in 1..Len(q), NEW k \in 1..Len(q), i + 1 < k, k > n,
               IsRedirs[SubSeq(q, i + 1, k - 1)]
        PROVE  FALSE
    <3> DEFINE m == n - i
               u == SubSeq(q, i + 1, i + m)
    <3>1. /\ k = n + 1 /\ m \in Nat /\ m # 0 /\ i \in Nat /\ i + m = n /\ i + m = k - 1
          /\ i + m <= Len(q) /\ m \in 1..m /\ n \in 1..n
      BY <1>1, <1>3, <2>1
    <3>2. u \in Readings /\ Len(u) = m /\ IsRedirs[u]
      BY <1>1, <2>1, <3>1, PieceFacts
    <3> HIDE DEF m, u
    <3>3. u[m] = q[i + m]
      BY <1>1, <3>1, PieceFacts DEF u
    <3>4. u[m] \in Texts
      BY <3>1, <3>2, RedirsShape
    <3>5. u[m] \in Operators \cup {"("}
      BY <1>1, <1>3, <3>1, <3>3
    <3>6. QED
      BY <3>4, <3>5 DEF Texts, Operators
  <2>2. n <= Len(q)
    BY <1>1
  <2>3. QED
    BY <1>1, <1>3, <2>1, <2>2, NoWordBehind DEF n
<1>10. Front(q)
  BY <1>4, <1>6, <1>7, <1>8, <1>9 DEF Front
<1>11. QED
  BY <1>1, <1>4, <1>5, <1>10 DEF q

\* Such a text can be completed, with a word where one has to come.
LEMMA FrontCompletable ==
  ASSUME NEW r \in Readings, Front(r), LastOf(r) \in Operators \cup {"w", "(", ")"}
  PROVE  Completable(r)
<1>1. r # <<>> => r[Len(r)] # "<"
  BY DEF LastOf, Operators
<1>2. CASE LastOf(r) \in {"w", ")"}
  <2>1. r \o Closing(r) \in Readings
    BY ClosingFacts, JoinFacts
  <2>2. IsList[r \o Closing(r)]
    BY <1>2, <2>1, SoundClosed, SoundList
  <2>3. QED
    BY <1>1, <2>2 DEF Completable, Closing
<1>3. CASE LastOf(r) \in Operators \cup {"("}
  <2> DEFINE q == r \o <<"w">>
  <2>1. q \in Readings /\ Front(q) /\ LastOf(q) = "w" /\ Closing(q) = Closing(r)
    BY <1>3, FrontAppended
  <2> HIDE DEF q
  <2>2. q \o Closing(q) \in Readings
    BY <2>1, ClosingFacts, JoinFacts
  <2>3. IsList[q \o Closing(q)]
    BY <2>1, <2>2, SoundClosed, SoundList
  <2>4. IsList[r \o <<"w">> \o Closing(r)]
    BY <2>1, <2>3 DEF q
  <2>5. QED
    BY <1>1, <2>4 DEF Completable, Closing
<1>4. QED
  BY <1>2, <1>3

\* What has been read at the end of the line is its reading.
LEMMA AtTheEnd ==
  ASSUME SyntaxTypeOK, ScanRight, iter > Len(line)
  PROVE  /\ line \in Seq(AllTokens) /\ Len(line) \in Nat /\ iter = Len(line) + 1
         /\ done = Reading(line) /\ done \in Readings
         /\ QuoteOpen(line) <=> squote \/ dquote
<1>1. line \in Seq(AllTokens) /\ Len(line) \in Nat
  BY LineType
<1>2. iter = Len(line) + 1
  <2>1. iter \in 1..(Len(line) + 1)
    BY DEF SyntaxTypeOK
  <2>2. QED
    BY <1>1, <2>1
<1>3. iter - 1 = Len(line) /\ Len(line) \in 0..Len(line)
  BY <1>1, <1>2
<1>4. done = Reading(line) /\ done \in Readings
  BY <1>1, <1>3, ReadUnfold DEF done, Reading
<1>5. QuoteOpen(line) <=> squote \/ dquote
  BY <1>3 DEF ScanRight, QuoteRight, QuoteOpen
<1>6. QED
  BY <1>1, <1>2, <1>4, <1>5

\* A word right behind a ")" breaks a text.
LEMMA LooseBroken ==
  ASSUME NEW r \in Readings, Loose(r)
  PROVE  Broken(r)
<1>1. PICK j \in 1..(Len(r) - 1) : r[j] = ")" /\ r[j + 1] = "w"
  BY DEF Loose, Adjacent
<1>2. ~Follows(r[j], r[j + 1])
  BY <1>1 DEF Follows
<1>3. QED
  BY <1>2 DEF Broken

\* A line that is refused at its end cannot be completed.
LEMMA FinishRefused ==
  ASSUME SyntaxTypeOK, ScanRight, iter > Len(line),
         (operator = 32 /\ count) \/ (operator = 2 /\ ~count)
  PROVE  ~Completable(Reading(line))
<1>1. /\ line \in Seq(AllTokens) /\ Len(line) \in Nat /\ iter = Len(line) + 1
      /\ done = Reading(line) /\ done \in Readings /\ Len(done) \in Nat
  BY AtTheEnd, ReadingFacts
<1>2. LastRight /\ GapRight
  BY DEF ScanRight
<1>3. iter \in Nat /\ last_oper \in Nat
  BY <1>1 DEF SyntaxTypeOK
<1>4. CASE operator = 32 /\ count
  <2>1. PICK m \in (last_oper + 1)..(iter - 1) :
          /\ InWord(line, m) /\ \A j \in (last_oper + 1)..(m - 1) : line[j] = "sp"
          /\ ~Number(line, m) => Loose(done)
    BY <1>2, <1>4 DEF GapRight
  <2>2. \A j \in (last_oper + 1)..(iter - 1) : j \in Plain(line) => get_operator_group(line[j]) = 0
    BY <1>2, <1>4 DEF GapRight
  <2>3. ~(iter <= Len(line))
    BY <1>1
  <2>4. ~Number(line, m)
    BY <1>1, <1>3, <2>1, <2>2, <2>3, GapNumber
  <2>5. Broken(done)
    BY <1>1, <2>1, <2>4, LooseBroken
  <2>6. QED
    BY <1>1, <2>5, BrokenForGood
<1>5. CASE operator = 2 /\ ~count
  <2>1. done # <<>> /\ get_operator_group(LastOf(done)) = 2
    BY <1>2, <1>5 DEF LastRight
  <2>2. LastOf(done) \in AllTokens
    <3>1. Len(done) \in 1..Len(done)
      BY <1>1, <2>1, ReadingFacts
    <3>2. QED
      BY <1>1, <3>1, ReadingFacts DEF LastOf, AllTokens
  <2>3. done[Len(done)] = "<"
    BY <2>1, <2>2, GroupOf DEF LastOf
  <2>4. QED
    BY <1>1, <2>1, <2>3 DEF Completable
<1>6. QED
  BY <1>4, <1>5

\* The line is sound as far as it goes.
LEMMA FinishFront ==
  ASSUME SyntaxTypeOK, ScanRight, iter > Len(line),
         operator = 32 => ~count, operator = 2 => count, Regular
  PROVE  /\ done = <<>> => ~count /\ operator = -1 /\ bracket = 0 /\ ~squote /\ ~dquote
         /\ done # <<>> =>
              /\ Front(done) /\ LastOf(done) \in Operators \cup {"w", "(", ")"}
              /\ LastOf(done) \in Operators \cup {"("} <=> operator \in {1, 31} /\ ~count
<1>1. /\ line \in Seq(AllTokens) /\ Len(line) \in Nat /\ iter = Len(line) + 1
      /\ done = Reading(line) /\ done \in Readings /\ Len(done) \in Nat
      /\ QuoteOpen(line) <=> squote \/ dquote
  BY AtTheEnd, ReadingFacts
<1>2. LastRight /\ GapRight /\ DigitsRight /\ PairsRight /\ BracketRight
  BY DEF ScanRight
<1>3. /\ ~Adjacent(done, {"w", ")"}, {"("}) /\ ~Adjacent(done, Operators, {")"})
      /\ ~DigitsBehindBracket /\ ~WordBehindSubshell(done)
  BY <1>1 DEF Regular
<1>4. operator \in {-1, 1, 2, 31, 32} /\ count \in BOOLEAN /\ bracket \in Int
  BY DEF SyntaxTypeOK
<1>5. ASSUME done = <<>>
      PROVE  ~count /\ operator = -1 /\ bracket = 0 /\ ~squote /\ ~dquote
  <2>1. ~count /\ operator = -1
    BY <1>2, <1>5 DEF LastRight
  <2>2. bracket = 0
    <3>1. Len(done) = 0 /\ Depth(done, 0) = 0
      BY <1>5, DepthStep
    <3>2. QED
      BY <1>2, <3>1 DEF BracketRight
  <2>3. ~QuoteOpen(line)
    <3> SUFFICES ASSUME QuoteOpen(line)
                 PROVE  FALSE
      OBVIOUS
    <3>1. Quote(line)[Len(line)] # "none" /\ Len(line) # 0
      BY <1>1, QuoteUnfold DEF QuoteOpen
    <3>2. Len(line) \in 1..Len(line) /\ iter - 1 = Len(line) /\ iter > 1
      BY <1>1, <3>1
    <3>3. InWord(line, iter - 1)
      BY <1>1, <3>1, <3>2, PlainFacts
    <3>4. QED
      BY <1>2, <2>1, <3>2, <3>3 DEF LastRight
  <2>4. QED
    BY <1>1, <2>1, <2>2, <2>3
<1>6. ASSUME done # <<>>
      PROVE  /\ LastOf(done) \in Operators \cup {"w", "(", ")"}
             /\ LastOf(done) \in Operators \cup {"("} <=> operator \in {1, 31} /\ ~count
  <2> DEFINE l == LastOf(done)
  <2>1. l \in Operators \cup {"w", "3", "<", "(", ")"} /\ l \in AllTokens
    <3>1. Len(done) \in 1..Len(done)
      BY <1>1, <1>6, ReadingFacts
    <3>2. QED
      BY <1>1, <3>1, ReadingFacts DEF LastOf, AllTokens
  <2>2. l # "3"
    <3> SUFFICES ASSUME l = "3"
                 PROVE  FALSE
      OBVIOUS
    <3>1. PICK k \in Plain(line) : k >= iter
      BY <1>2, <1>6 DEF DigitsRight
    <3>2. QED
      BY <1>1, <3>1 DEF Plain
  <2>3. /\ count => l \in {"w", "3"}
        /\ ~count => operator # -1 /\ get_operator_group(l) = operator
    BY <1>2, <1>6 DEF LastRight
  <2> HIDE DEF l
  <2>4. /\ get_operator_group(l) = 0 <=> l \in Quotes \cup Escaped \cup {"w", "3", "sp"}
        /\ get_operator_group(l) = 1 <=> l \in Operators
        /\ get_operator_group(l) = 2 <=> l = "<"
        /\ get_operator_group(l) = 31 <=> l = "("
        /\ get_operator_group(l) = 32 <=> l = ")"
    BY <2>1, GroupOf
  <2>5. CASE count
    <3>1. l = "w"
      BY <2>2, <2>3, <2>5
    <3>2. QED
      BY <2>5, <3>1 DEF l, Operators
  <2>6. CASE ~count
    <3>1. l # "<" /\ l # "w"
      BY <2>3, <2>4, <2>6, <1>4
    <3>2. QED
      BY <2>1, <2>2, <2>3, <2>4, <2>6, <3>1 DEF l
  <2>7. QED
    BY <2>5, <2>6
<1>7. ~Loose(done)
  BY <1>2, <1>3 DEF GapRight
<1>8. \A j \in 1..(Len(done) - 1) : Meets(done[j], done[j + 1])
  <2> TAKE j \in 1..(Len(done) - 1)
  <2> DEFINE x == done[j]
             y == done[j + 1]
  <2>1. /\ x \in Operators \cup {"w", "3", "<", "(", ")"}
        /\ y \in Operators \cup {"w", "3", "<", "(", ")"}
    <3>1. j \in 1..Len(done) /\ j + 1 \in 1..Len(done)
      BY <1>1
    <3>2. QED
      BY <1>1, <3>1, ReadingFacts
  <2>2. Beside(x, y)
    BY <1>2 DEF PairsRight
  <2>3. /\ ~(x \in {"w", ")"} /\ y = "(")
        /\ ~(x \in Operators /\ y = ")")
        /\ ~(x = ")" /\ y = "w")
    BY <1>3, <1>7 DEF Adjacent, Loose
  <2> HIDE DEF x, y
  <2>4. Meets(x, y)
    BY <2>1, <2>2, <2>3 DEF Meets, Beside, Begins, Operators
  <2>5. QED
    BY <2>4 DEF x, y
<1>9. done # <<>> => Front(done)
  BY <1>2, <1>3, <1>8 DEF Front, PairsRight, BracketRight
<1>10. QED
  BY <1>5, <1>6, <1>9

\* A line that is accepted is a list.
LEMMA FinishAccepted ==
  ASSUME SyntaxTypeOK, ScanRight, iter > Len(line),
         operator = 32 => ~count, operator = 2 => count, Regular, ~Unfinished
  PROVE  ~QuoteOpen(line) /\ (IsList[Reading(line)] \/ Reading(line) = <<>>)
<1>1. done = Reading(line) /\ done \in Readings /\ (QuoteOpen(line) <=> squote \/ dquote)
  BY AtTheEnd
<1>2. ~dquote /\ ~squote /\ bracket = 0 /\ ~(operator \in {1, 31} /\ ~count)
  BY DEF Unfinished
<1>3. ASSUME done # <<>>
      PROVE  IsList[done]
  <2>1. /\ Front(done) /\ LastOf(done) \in {"w", ")"}
    BY <1>2, <1>3, FinishFront
  <2>2. Level(done)
    <3>1. Depth(done, Len(done)) \in Int
      BY <1>1, ReadingFacts, DepthStep
    <3>2. QED
      BY <1>2, <3>1 DEF Level, ScanRight, BracketRight
  <2>3. Sound(done)
    BY <2>1, <2>2 DEF Sound, Front, LastOf
  <2>4. QED
    BY <1>1, <2>3, SoundList
<1>4. QED
  BY <1>1, <1>2, <1>3

\* A line for which more is asked is not complete, and can be completed.
LEMMA FinishAsks ==
  ASSUME SyntaxTypeOK, ScanRight, iter > Len(line),
         operator = 32 => ~count, operator = 2 => count, Regular, Unfinished
  PROVE  (QuoteOpen(line) \/ ~IsList[Reading(line)]) /\ Completable(Reading(line))
<1>1. done = Reading(line) /\ done \in Readings /\ (QuoteOpen(line) <=> squote \/ dquote)
  BY AtTheEnd
<1>2. dquote \/ squote \/ bracket # 0 \/ (operator \in {1, 31} /\ ~count)
  BY DEF Unfinished
<1>3. done # <<>>
  BY <1>2, FinishFront
<1>4. /\ Front(done) /\ LastOf(done) \in Operators \cup {"w", "(", ")"}
      /\ LastOf(done) \in Operators \cup {"("} <=> operator \in {1, 31} /\ ~count
  BY <1>3, FinishFront
<1>5. Completable(done)
  BY <1>1, <1>4, FrontCompletable
<1>6. ASSUME ~QuoteOpen(line), IsList[done]
      PROVE  FALSE
  <2>1. Shape(done) /\ Level(done)
    BY <1>1, <1>6, ListShape
  <2>2. bracket = 0
    <3> DEFINE d == Depth(done, Len(done))
    <3>1. d \in Int
      BY <1>1, ReadingFacts, DepthStep
    <3>2. bracket = -d
      BY DEF ScanRight, BracketRight
    <3>3. d = 0
      BY <2>1 DEF Level
    <3>4. bracket \in Int
      BY DEF SyntaxTypeOK
    <3> HIDE DEF d
    <3>5. bracket + d = 0
      BY <3>1, <3>2
    <3>6. QED
      BY <3>3, <3>4, <3>5
  <2>3. LastOf(done) \in Operators \cup {"("}
    BY <1>1, <1>2, <1>4, <1>6, <2>2
  <2>4. QED
    BY <2>1, <2>3 DEF Shape, LastOf, Ends, Operators
<1>7. QED
  BY <1>1, <1>5, <1>6

VerdictInv == ScanInv /\ VerdictCorrect

\* Every step keeps the verdict right.
LEMMA VerdictStep ==
  ASSUME VerdictInv, [SyntaxNext]_syntax_vars
  PROVE  VerdictInv'
<1>1. ScanInv /\ VerdictCorrect /\ SyntaxTypeOK /\ (verdict = "scan" => ScanRight)
  BY DEF VerdictInv, ScanInv, TypeInv
<1>2. ScanInv'
  BY <1>1, ScanInvStep
<1> DEFINE r == Reading(line)
<1>3. /\ VerdictCorrect' <=>
           /\ verdict' = "refused" => ~Completable(Reading(line'))
           /\ verdict' = "accepted" /\ Regular' =>
                ~QuoteOpen(line') /\ (IsList[Reading(line')] \/ Reading(line') = <<>>)
           /\ verdict' = "ask" /\ Regular' =>
                (QuoteOpen(line') \/ ~IsList[Reading(line')]) /\ Completable(Reading(line'))
  BY DEF VerdictCorrect
<1>4. CASE Enter \/ Continue \/ Scan \/ Abandon
  <2>1. verdict' \notin {"refused", "accepted", "ask"}
    BY <1>4 DEF Enter, Continue, Restart, Scan, Abandon
  <2>2. QED
    BY <1>2, <1>3, <2>1 DEF VerdictInv
<1>5. ASSUME line' = line
      PROVE  Regular' <=> Regular
  <2>1. DigitsBehindBracket' <=> DigitsBehindBracket
    BY <1>5 DEF DigitsBehindBracket
  <2>2. QED
    BY <1>5, <2>1 DEF Regular
<1>6. CASE Refuse
  <2>1. verdict' = "refused" /\ line' = line /\ iter <= Len(line) /\ Refused /\ ScanRight
    BY <1>1, <1>6 DEF Refuse
  <2>2. ~Completable(Reading(line))
    BY <1>1, <2>1, RefuseRight
  <2>3. QED
    BY <1>2, <1>3, <2>1, <2>2 DEF VerdictInv
<1>7. CASE Finish
  <2>1. /\ line' = line /\ iter > Len(line) /\ ScanRight
        /\ verdict' = CASE operator = 32 /\ count -> "refused"
                        [] operator = 2 /\ ~count -> "refused"
                        [] (operator = 32 => ~count) /\ (operator = 2 => count) ->
                             IF Unfinished THEN "ask" ELSE "accepted"
    BY <1>1, <1>7 DEF Finish
  <2>2. CASE (operator = 32 /\ count) \/ (operator = 2 /\ ~count)
    <3>1. verdict' = "refused"
      BY <2>1, <2>2
    <3>2. ~Completable(Reading(line))
      BY <1>1, <2>1, <2>2, FinishRefused
    <3>3. QED
      BY <1>2, <1>3, <2>1, <3>1, <3>2 DEF VerdictInv
  <2>3. CASE (operator = 32 => ~count) /\ (operator = 2 => count)
    <3>1. verdict' = IF Unfinished THEN "ask" ELSE "accepted"
      BY <2>1, <2>3
    <3>2. Unfinished /\ Regular => (QuoteOpen(line) \/ ~IsList[r]) /\ Completable(r)
      BY <1>1, <2>1, <2>3, FinishAsks
    <3>3. ~Unfinished /\ Regular => ~QuoteOpen(line) /\ (IsList[r] \/ r = <<>>)
      BY <1>1, <2>1, <2>3, FinishAccepted
    <3>4. QED
      BY <1>2, <1>3, <1>5, <2>1, <3>1, <3>2, <3>3 DEF VerdictInv
  <2>4. count \in BOOLEAN
    BY <1>1 DEF SyntaxTypeOK
  <2>5. QED
    BY <2>2, <2>3, <2>4
<1>8. CASE UNCHANGED syntax_vars
  <2>1. verdict' = verdict /\ line' = line
    BY <1>8 DEF syntax_vars
  <2>2. VerdictCorrect' <=> VerdictCorrect
    BY <1>3, <1>5, <2>1 DEF VerdictCorrect
  <2>3. QED
    BY <1>1, <1>2, <2>2 DEF VerdictInv
<1>9. QED
  BY <1>4, <1>6, <1>7, <1>8 DEF SyntaxNext

\* syntax_check(): the flags of one scan from left to right decide what the
\* grammar says, for lines of any length and any brackets within brackets.  A
\* line is refused only when nothing that comes behind it makes it a list; the
\* four kinds of lines of Regular apart, a line that is accepted is a list, and
\* more is asked for only when that can make it one.
THEOREM VerdictIsCorrect == SyntaxSpec => []VerdictCorrect
<1>1. SyntaxInit => VerdictInv
  <2>1. SyntaxInit => VerdictCorrect
    BY DEF SyntaxInit, VerdictCorrect
  <2>2. QED
    BY <2>1, ScanInvInit DEF VerdictInv
<1>2. VerdictInv => VerdictCorrect
  BY DEF VerdictInv
<1>3. QED
  BY <1>1, <1>2, VerdictStep, PTL DEF SyntaxSpec
=============================================================================
