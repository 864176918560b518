---------------------------- MODULE PromptProofs ----------------------------
(***************************************************************************)
(* Theorems about module Prompt, for any number of continuation lines and  *)
(* of keyboard signals, at any moments: the shell survives the keyboard,   *)
(* the programs it starts do not have to, and an interrupted line does not *)
(* take a second one with it.                                              *)
(***************************************************************************)
EXTENDS Prompt, TLAPS

\* The dispositions of the shell depend on where it is, those of the child on
\* how far it has come; a child exists only while the shell waits for it.
Dispositions ==
  /\ prompted \/ (pc \in {"ready", "killed"} /\ child = "none")
  /\ prompted => sigint # "default" /\ sigquit = "ignore" /\ pc # "killed"
  /\ pc \in {"syntax", "waiting"} => sigint = "ignore" /\ sigquit = "ignore"
  /\ child # "none" => pc = "waiting"
  /\ child = "armed" => cint = "handler" /\ cquit = "handler"
  /\ child = "program" => cint = "default" /\ cquit = "default"

\* What is_ctrlc can still cost has been paid for: the flag is up only after a
\* Ctrl-C that has not taken a line yet.
FlagPaid ==
  /\ is_ctrlc \in BOOLEAN /\ lost \in Nat /\ hits \in Nat
  /\ lost <= hits
  /\ is_ctrlc => lost < hits

IInv == Dispositions /\ FlagPaid
-----------------------------------------------------------------------------
LEMMA InitInvariant == Init => IInv
<1> SUFFICES ASSUME Init
             PROVE  IInv
  OBVIOUS
<1>1. Dispositions
  BY Zenon DEF Init, Dispositions
<1>2. ~is_ctrlc /\ is_ctrlc \in BOOLEAN
  BY Zenon DEF Init
<1>3. lost \in Nat /\ hits \in Nat /\ lost <= hits
  BY DEF Init
<1>4. FlagPaid
  BY <1>2, <1>3, Zenon DEF FlagPaid
<1>5. QED
  BY <1>1, <1>4 DEF IInv

\* No step of the shell, its child or the user gets the dispositions wrong.
LEMMA StepDispositions == Dispositions /\ [Next]_vars => Dispositions'
<1> SUFFICES ASSUME Dispositions, [Next]_vars
             PROVE  Dispositions'
  OBVIOUS
<1> USE DEF Dispositions, line, signals, program, history, do_sigign
<1>1. CASE ReadUserInput
  BY <1>1 DEF ReadUserInput
<1>2. CASE IgnoreInterrupts
  BY <1>2 DEF IgnoreInterrupts
<1>3. CASE Refuse
  BY <1>3 DEF Refuse
<1>4. CASE AskForMore
  BY <1>4 DEF AskForMore
<1>5. CASE RunBuiltin
  BY <1>5 DEF RunBuiltin
<1>6. CASE Fork
  BY <1>6 DEF Fork
<1>7. CASE Wait
  BY <1>7 DEF Wait
<1>8. CASE Enter
  BY <1>8 DEF Enter
<1>9. CASE EndOfInput
  BY <1>9 DEF EndOfInput
<1>10. CASE MoreEntered
  BY <1>10 DEF MoreEntered
<1>11. CASE CtrlC
  BY <1>11 DEF CtrlC, Alive
<1>12. CASE CtrlBackslash
  BY <1>12 DEF CtrlBackslash, Alive
<1>13. CASE Arm
  BY <1>13 DEF Arm
<1>14. CASE Exec
  BY <1>14 DEF Exec, AfterExec
<1>15. CASE ChildEnds
  BY <1>15 DEF ChildEnds
<1>16. CASE UNCHANGED vars
  BY <1>16 DEF vars
<1>17. QED
  BY <1>1, <1>2, <1>3, <1>4, <1>5, <1>6, <1>7, <1>8, <1>9, <1>10, <1>11, <1>12,
     <1>13, <1>14, <1>15, <1>16 DEF Next, ShellStep, User

\* Only Ctrl-C raises the flag, and a lost line takes it down.
LEMMA StepFlag == FlagPaid /\ [Next]_vars => FlagPaid'
<1> SUFFICES ASSUME FlagPaid, [Next]_vars
             PROVE  FlagPaid'
  OBVIOUS
<1> USE DEF FlagPaid, history
<1>1. CASE ReadUserInput \/ IgnoreInterrupts \/ AskForMore \/ RunBuiltin
  BY <1>1 DEF ReadUserInput, IgnoreInterrupts, AskForMore, RunBuiltin
<1>2. CASE Refuse \/ Fork \/ Wait
  <2>1. is_ctrlc' = FALSE /\ UNCHANGED history
    BY <1>2 DEF Refuse, Fork, Wait
  <2>2. QED
    BY <2>1
<1>3. CASE Enter \/ EndOfInput \/ CtrlBackslash
  BY <1>3 DEF Enter, EndOfInput, CtrlBackslash
<1>4. CASE MoreEntered
  <2>1. hits' = hits
    BY <1>4 DEF MoreEntered
  <2>2. CASE is_ctrlc
    <3>1. lost < hits /\ lost' = lost + 1
      BY <1>4, <2>2, Zenon DEF MoreEntered
    <3>2. ~is_ctrlc' /\ is_ctrlc' \in BOOLEAN
      BY <1>4, <2>2, Zenon DEF MoreEntered
    <3>3. lost' \in Nat /\ hits' \in Nat /\ lost' <= hits'
      BY <2>1, <3>1
    <3>4. QED
      BY <3>2, <3>3, Zenon
  <2>3. CASE ~is_ctrlc
    <3>1. lost' = lost /\ is_ctrlc' = is_ctrlc
      BY <1>4, <2>3, Zenon DEF MoreEntered
    <3>2. QED
      BY <2>1, <3>1
  <2>4. QED
    BY <2>2, <2>3
<1>5. CASE CtrlC
  <2>1. lost' = lost
    BY <1>5 DEF CtrlC
  <2>2. \/ is_ctrlc' = TRUE /\ hits' = hits + 1
        \/ is_ctrlc' = is_ctrlc /\ hits' = hits
    BY <1>5, Zenon DEF CtrlC
  <2>3. CASE is_ctrlc' = TRUE /\ hits' = hits + 1
    BY <2>1, <2>3
  <2>4. CASE is_ctrlc' = is_ctrlc /\ hits' = hits
    BY <2>1, <2>4
  <2>5. QED
    BY <2>2, <2>3, <2>4
<1>6. CASE Arm \/ Exec \/ ChildEnds
  BY <1>6 DEF Arm, Exec, ChildEnds
<1>7. CASE UNCHANGED vars
  BY <1>7 DEF vars
<1>8. QED
  BY <1>1, <1>2, <1>3, <1>4, <1>5, <1>6, <1>7 DEF Next, ShellStep, User
-----------------------------------------------------------------------------
\* A line that is being continued still needs something.
Typed == TypeOK /\ (pc = "more" => more > 0)

LEMMA InitTyped == Init => Typed
<1> SUFFICES ASSUME Init
             PROVE  Typed
  OBVIOUS
<1>1. is_ctrlc \in BOOLEAN /\ prompted \in BOOLEAN
  BY Zenon DEF Init
<1>2. /\ pc = "ready" /\ kind \in Kinds
      /\ {sigint, sigquit} \subseteq {"default", "interactive", "ignore"}
      /\ child = "none" /\ {cint, cquit} \subseteq {"default", "interactive", "ignore", "handler"}
  BY DEF Init, Kinds
<1>3. /\ more \in 0..MaxMore /\ num_return_error \in Statuses \cup {130, 131, 258}
      /\ cstatus \in Statuses /\ hits \in 0..MaxCtrlC /\ lost \in Nat
  BY PromptAssumption DEF Init, Statuses
<1>4. QED
  BY <1>1, <1>2, <1>3 DEF Typed, TypeOK

LEMMA StepTyped == Typed /\ [Next]_vars => Typed'
<1> SUFFICES ASSUME Typed, [Next]_vars
             PROVE  Typed'
  OBVIOUS
<1> USE PromptAssumption DEF Typed, TypeOK, line, signals, program, history, do_sigign
<1>1. CASE ReadUserInput
  <2>1. prompted' \in BOOLEAN /\ is_ctrlc' \in BOOLEAN
    BY <1>1, Zenon DEF ReadUserInput
  <2>2. pc' = "reading" /\ sigint' = "interactive" /\ sigquit' = "ignore"
    BY <1>1 DEF ReadUserInput
  <2>3. UNCHANGED <<more, kind, num_return_error, child, cint, cquit, cstatus, hits, lost>>
    BY <1>1 DEF ReadUserInput
  <2>4. QED
    BY <2>1, <2>2, <2>3
<1>14. CASE IgnoreInterrupts \/ AskForMore
  BY <1>14 DEF IgnoreInterrupts, AskForMore
<1>15. CASE Refuse
  <2>1. prompted' \in BOOLEAN /\ is_ctrlc' \in BOOLEAN
    BY <1>15, Zenon DEF Refuse
  <2>2. pc' = "ready" /\ num_return_error' = 258
    BY <1>15 DEF Refuse
  <2>3. UNCHANGED <<more, kind, sigint, sigquit, child, cint, cquit, cstatus, hits, lost>>
    BY <1>15 DEF Refuse
  <2>4. QED
    BY <2>1, <2>2, <2>3
<1>2. CASE RunBuiltin
  BY <1>2 DEF RunBuiltin
<1>3. CASE Fork
  BY <1>3 DEF Fork, Statuses
<1>4. CASE Wait
  <2>1. num_return_error' \in Statuses \cup {130, 131, 258}
    BY <1>4 DEF Wait, Statuses
  <2>2. pc' \in {"exited", "ready"} /\ child' = "none" /\ is_ctrlc' = FALSE
    BY <1>4 DEF Wait
  <2>3. UNCHANGED <<more, kind, sigint, sigquit, cint, cquit, cstatus, prompted, hits, lost>>
    BY <1>4 DEF Wait
  <2>4. QED
    BY <2>1, <2>2, <2>3
<1>5. CASE Enter
  BY <1>5 DEF Enter
<1>6. CASE EndOfInput
  BY <1>6 DEF EndOfInput
<1>7. CASE MoreEntered
  <2>1. is_ctrlc' \in BOOLEAN
    BY <1>7, Zenon DEF MoreEntered
  <2>2. num_return_error' \in Statuses \cup {130, 131, 258}
    BY <1>7 DEF MoreEntered, Statuses
  <2>3. more' \in 0..MaxMore /\ pc' \in {"ready", "syntax"}
    BY <1>7 DEF MoreEntered
  <2>4. lost' \in Nat
    BY <1>7 DEF MoreEntered
  <2>5. sigint' = "ignore"
    BY <1>7 DEF MoreEntered
  <2>6. UNCHANGED <<kind, sigquit, child, cint, cquit, cstatus, prompted, hits>>
    BY <1>7 DEF MoreEntered
  <2>7. QED
    BY <2>1, <2>2, <2>3, <2>4, <2>5, <2>6
<1>8. CASE CtrlC
  <2>1. hits' \in 0..MaxCtrlC
    BY <1>8 DEF CtrlC
  <2>6. is_ctrlc' \in BOOLEAN
    BY <1>8, Zenon DEF CtrlC
  <2>2. num_return_error' \in Statuses \cup {130, 131, 258}
    BY <1>8 DEF CtrlC, Statuses
  <2>3. (pc' = pc \/ pc' = "killed") /\ (child' = child \/ child' = "SIGINT")
    BY <1>8 DEF CtrlC
  <2>4. UNCHANGED <<more, kind, sigint, sigquit, cint, cquit, cstatus, prompted, lost>>
    BY <1>8 DEF CtrlC
  <2>5. QED
    BY <2>1, <2>2, <2>3, <2>4, <2>6
<1>9. CASE CtrlBackslash
  <2>1. (pc' = pc \/ pc' = "killed") /\ child' \in {child, "SIGQUIT", "core"}
    BY <1>9 DEF CtrlBackslash
  <2>2. UNCHANGED <<more, kind, sigint, sigquit, is_ctrlc, num_return_error, cint, cquit,
                    cstatus, prompted, hits, lost>>
    BY <1>9 DEF CtrlBackslash
  <2>3. QED
    BY <2>1, <2>2
<1>10. CASE Arm \/ ChildEnds
  BY <1>10 DEF Arm, ChildEnds
<1>11. CASE Exec
  BY <1>11 DEF Exec, AfterExec
<1>12. CASE UNCHANGED vars
  BY <1>12 DEF vars
<1>13. QED
  BY <1>1, <1>2, <1>3, <1>4, <1>5, <1>6, <1>7, <1>8, <1>9, <1>10, <1>11, <1>12,
     <1>14, <1>15 DEF Next, ShellStep, User

\* The variables keep their types.
THEOREM PromptTypeCorrect == Spec => []TypeOK
<1>1. Typed => TypeOK
  BY DEF Typed
<1>2. QED
  BY InitTyped, StepTyped, <1>1, PTL DEF Spec
-----------------------------------------------------------------------------
\* The inductive invariant holds in every state of every run.
THEOREM Invariant == Spec => []IInv
<1>1. Init => IInv
  BY InitInvariant
<1>2. IInv /\ [Next]_vars => IInv'
  BY StepDispositions, StepFlag DEF IInv
<1>3. QED
  BY <1>1, <1>2, PTL DEF Spec

\* From its first prompt on, no Ctrl-C and no Ctrl-\ at any moment ends the
\* shell.
THEOREM Survives == Spec => []SurvivesKeyboard
<1>1. IInv => SurvivesKeyboard
  BY DEF IInv, Dispositions, SurvivesKeyboard
<1>2. QED
  BY <1>1, Invariant, PTL

\* A program runs with the default actions, although the shell that started it
\* ignores the signals.
THEOREM Interruptible == Spec => []ProgramsInterruptible
<1>1. IInv => ProgramsInterruptible
  BY DEF IInv, Dispositions, ProgramsInterruptible
<1>2. QED
  BY <1>1, Invariant, PTL

\* However the user mixes Ctrl-C, unfinished lines and commands, no more lines
\* are thrown away than Ctrl-C has been hit.
THEOREM OneLineEach == Spec => []EachCtrlCTakesOneLine
<1>1. IInv => EachCtrlCTakesOneLine
  BY DEF IInv, FlagPaid, EachCtrlCTakesOneLine
<1>2. QED
  BY <1>1, Invariant, PTL

\* While the shell waits, no key changes what it remembers.
THEOREM Undisturbed == Spec => WaitUndisturbed
<1>1. ASSUME IInv, Next, pc = "waiting", pc' = "waiting"
      PROVE  UNCHANGED <<is_ctrlc, num_return_error>>
  <2>1. sigint = "ignore"
    BY <1>1 DEF IInv, Dispositions
  <2>2. CASE CtrlC
    BY <2>1, <2>2 DEF CtrlC
  <2>3. CASE Wait
    BY <1>1, <2>3 DEF Wait
  <2>4. QED
    BY <1>1, <2>2, <2>3
       DEF Next, ShellStep, User, ReadUserInput, IgnoreInterrupts, Refuse, AskForMore,
           RunBuiltin, Fork, Enter, EndOfInput, MoreEntered, CtrlBackslash, Arm, Exec,
           ChildEnds, program
<1>2. IInv /\ [Next]_vars
        => [pc = "waiting" /\ pc' = "waiting"
              => UNCHANGED <<is_ctrlc, num_return_error>>]_vars
  BY <1>1
<1>3. QED
  BY <1>2, Invariant, PTL DEF Spec, WaitUndisturbed
-----------------------------------------------------------------------------
(* What is behind PromptReturns.                                           *)

\* The shell waits for a child that is there, and neither executes nor continues
\* an empty line.
Occupied == /\ pc = "waiting" => child # "none"
            /\ pc \in {"syntax", "more"} => kind # "empty"

\* The guards of ShellStep.
ShellCan == \/ pc \in {"ready", "entered"}
            \/ pc = "syntax" /\ (more > 0 \/ kind \in {"refused", "builtin", "external"})
            \/ pc = "waiting" /\ child \in {"ended", "SIGINT", "SIGQUIT", "core"}

\* The shell can go on, unless it waits for the user or for a child that lives.
NobodyMissed ==
  Alive /\ pc \notin {"reading", "more"} =>
    ShellCan \/ (pc = "waiting" /\ child \in {"forked", "armed", "program"})

\* When Ctrl-C has killed the program, the only step that changes anything about
\* it leads to where a prompt is next, whatever else is hit.
StraightOn ==
  /\ child = "SIGINT" => \/ child' = "SIGINT" /\ pc' = "waiting"
                         \/ Wait /\ pc' = "ready"
  /\ pc = "ready" /\ prompted => pc' \in {"ready", "reading"}

LEMMA StepOccupied == Dispositions /\ Typed /\ Occupied /\ [Next]_vars => Occupied'
<1> SUFFICES ASSUME Dispositions, Typed, Occupied, [Next]_vars
             PROVE  Occupied'
  OBVIOUS
<1> USE DEF Occupied, line, signals, program, history
<1>1. CASE ReadUserInput \/ Refuse \/ RunBuiltin \/ Wait \/ Enter \/ EndOfInput
  BY <1>1 DEF ReadUserInput, Refuse, RunBuiltin, Wait, Enter, EndOfInput
<1>2. CASE IgnoreInterrupts
  BY <1>2 DEF IgnoreInterrupts
<1>3. CASE AskForMore
  BY <1>3 DEF AskForMore
<1>4. CASE Fork
  BY <1>4 DEF Fork
<1>5. CASE MoreEntered
  BY <1>5 DEF MoreEntered
<1>6. CASE CtrlC \/ CtrlBackslash
  BY <1>6 DEF CtrlC, CtrlBackslash, Alive
<1>7. CASE Arm \/ Exec \/ ChildEnds
  BY <1>7 DEF Arm, Exec, ChildEnds
<1>8. CASE UNCHANGED vars
  BY <1>8 DEF vars
<1>9. QED
  BY <1>1, <1>2, <1>3, <1>4, <1>5, <1>6, <1>7, <1>8 DEF Next, ShellStep, User

LEMMA StepStraightOn == Dispositions /\ [Next]_vars => [StraightOn]_vars
<1> SUFFICES ASSUME Dispositions, Next
             PROVE  StraightOn
  OBVIOUS
<1> USE DEF Dispositions, program
<1>1. ASSUME child = "SIGINT"
      PROVE  (child' = "SIGINT" /\ pc' = "waiting") \/ (Wait /\ pc' = "ready")
  <2>1. pc = "waiting" /\ sigint = "ignore" /\ sigquit = "ignore"
    BY <1>1
  <2>2. CASE Wait
    BY <1>1, <2>2 DEF Wait
  <2>3. CASE CtrlC \/ CtrlBackslash
    BY <1>1, <2>1, <2>3 DEF CtrlC, CtrlBackslash
  <2>4. CASE Arm \/ Exec \/ ChildEnds
    BY <1>1, <2>4 DEF Arm, Exec, ChildEnds
  <2>5. QED
    BY <2>1, <2>2, <2>3, <2>4
       DEF Next, ShellStep, User, ReadUserInput, IgnoreInterrupts, Refuse, AskForMore,
           RunBuiltin, Fork, Enter, EndOfInput, MoreEntered
<1>2. ASSUME pc = "ready", prompted
      PROVE  pc' \in {"ready", "reading"}
  <2>1. sigint # "default" /\ sigquit = "ignore" /\ child = "none"
    BY <1>2
  <2>2. CASE ReadUserInput
    BY <2>2 DEF ReadUserInput
  <2>3. CASE CtrlC \/ CtrlBackslash
    BY <1>2, <2>1, <2>3 DEF CtrlC, CtrlBackslash
  <2>4. QED
    BY <1>2, <2>1, <2>2, <2>3
       DEF Next, ShellStep, User, IgnoreInterrupts, Refuse, AskForMore, RunBuiltin, Fork,
           Wait, Enter, EndOfInput, MoreEntered, Arm, Exec, ChildEnds
<1>3. QED
  BY <1>1, <1>2 DEF StraightOn

\* No line and no child makes the shell miss its turn, and from a program that
\* Ctrl-C has killed it is two steps of the shell to the prompt, which no key in
\* between prolongs.
THEOREM StraightBack == Spec => []NobodyMissed /\ [][StraightOn]_vars
<1>1. Init => Occupied
  BY DEF Init, Occupied
<1>2. Dispositions /\ Typed /\ Occupied => NobodyMissed
  BY DEF Dispositions, Typed, TypeOK, Occupied, NobodyMissed, ShellCan, Alive, Kinds
<1>3. Init => Dispositions
  BY InitInvariant DEF IInv
<1>4. QED
  BY InitTyped, StepTyped, <1>1, <1>2, <1>3, StepDispositions, StepOccupied, StepStraightOn,
     PTL DEF Spec
=============================================================================
