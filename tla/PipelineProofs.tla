--------------------------- MODULE PipelineProofs ---------------------------
(***************************************************************************)
(* Proofs about Pipeline, for every number of stages and descriptors and   *)
(* every set of lines.  Its heart is a constant-level lemma, CarryOn: what *)
(* the shell holds of the pipes from one stage to the next, if pipe() may  *)
(* fail and nobody looks at its result.  From it follow the shell's table  *)
(* behind the line (LastPipe) and what each stage is forked with (Born).   *)
(*                                                                         *)
(* Its third part proves that Pipeline implements Chain (PipelineIsChain), *)
(* from the inductive invariant Wiring: what the shell and every stage     *)
(* hold of the pipes, also where a pipe() has failed.  The last one adds   *)
(* what nobody holds any more (Behind), and proves from both that the      *)
(* stages never all wait for each other (NoStageStuck); and it counts what *)
(* is left to do, which every step makes less (EveryStepIsLess).           *)
(***************************************************************************)
EXTENDS Pipeline, FiniteSetTheorems, WellFoundedInduction, TLAPS

\* A set of natural numbers that is not empty has a least element.
LEMMA Least ==
  ASSUME NEW S \in SUBSET Nat, S # {}
  PROVE  Min(S) \in S /\ \A y \in S : Min(S) <= y
<1> DEFINE Less == OpToRel(<, Nat)
<1>1. \E x \in S : \A y \in S : <<y, x>> \notin Less
  BY NatLessThanWellFounded, WFMin
<1>2. \A x, y \in Nat : <<y, x>> \notin Less => x <= y
  BY DEF OpToRel
<1>3. \E x \in S : \A y \in S : x <= y
  BY <1>1, <1>2
<1>4. QED
  BY <1>3 DEF Min

\* What pipe() takes: the two least of a finite set of numbers.
LEMMA Two ==
  ASSUME NEW S \in SUBSET Nat, IsFiniteSet(S), Cardinality(S) >= 2
  PROVE  /\ Min(S) \in S
         /\ Min(S \ {Min(S)}) \in S /\ Min(S) < Min(S \ {Min(S)})
         /\ \A y \in S : Min(S) <= y
<1>1. S # {}
  BY FS_EmptySet
<1>2. Min(S) \in S /\ \A y \in S : Min(S) <= y
  BY <1>1, Least
<1>3. Cardinality(S \ {Min(S)}) = Cardinality(S) - 1 /\ IsFiniteSet(S \ {Min(S)})
  BY <1>2, FS_RemoveElement
<1>4. Cardinality(S) \in Nat
  BY FS_CardinalityType
<1>5. S \ {Min(S)} # {}
  <2>1. Cardinality(S \ {Min(S)}) # 0
    BY <1>3, <1>4
  <2>2. QED
    BY <2>1, FS_EmptySet
<1>6. Min(S \ {Min(S)}) \in S \ {Min(S)}
  BY <1>5, Least
<1>7. Min(S) < Min(S \ {Min(S)})
  <2>1. \A x, y \in S : x <= y /\ x # y => x < y
    OBVIOUS
  <2>2. QED
    BY <1>2, <1>6, <2>1
<1>8. QED
  BY <1>2, <1>6, <1>7

\* A set that is not empty and has fewer than two elements.
LEMMA One ==
  ASSUME NEW S, IsFiniteSet(S), Cardinality(S) < 2, NEW x \in S
  PROVE  S = {x}
<1>1. Cardinality(S) \in Nat
  BY FS_CardinalityType
<1>2. Cardinality(S) # 0
  BY FS_EmptySet
<1>3. Cardinality(S) = 1
  BY <1>1, <1>2
<1>4. QED
  BY <1>3, FS_Singleton
-----------------------------------------------------------------------------
\* What descriptors refer to is told apart.
LEMMA Descriptors ==
  \A m, n :
    /\ Rd(m) # None /\ Rd(m) # Terminal /\ Rd(m) # File /\ Rd(m) # Wr(n)
    /\ Wr(m) # None /\ Wr(m) # Terminal /\ Wr(m) # File
    /\ None # Terminal /\ None # File /\ Terminal # File
    /\ (Rd(m) = Rd(n) => m = n) /\ (Wr(m) = Wr(n) => m = n)
BY DEF Rd, Wr, None, Terminal, File

\* The descriptors that the table t has free below the limit lim.
FreeIn(t, lim) == {f \in 0..(lim - 1) : t[f] = None}

\* The shell's table t with the pipe p in front of stage k, when there is no pipe
\* behind it yet (k > 1), and b: a pipe() has failed.  The pipe may be good; its
\* reading end may be the descriptor 0 that an older mistake has made free, or
\* has closed again; it may not be there, and then there may be a writing end left
\* behind in the only place.
Carry(t, p, k, b, lim) ==
  /\ t[1] = Terminal /\ t[2] = Terminal
  /\ t[0] # Terminal => b
  /\ \/ /\ p = <<0, 0>> /\ b
        /\ t[0] \in {Terminal, None}
        /\ \A f \in Fd : f > 2 => t[f] = None
     \/ /\ p = <<0, 0>> /\ b
        /\ lim = 4 /\ t[0] = None
        /\ \E n \in Stage : t[3] = Wr(n)
        /\ \A f \in Fd : f > 3 => t[f] = None
     \/ /\ p[1] > 2 /\ p[2] > 2 /\ p[1] # p[2]
        /\ t[0] \in {Terminal, None} /\ (b => t[0] = None)
        /\ t[p[1]] = Rd(k - 1) /\ t[p[2]] = Wr(k - 1)
        /\ \A f \in Fd : f > 2 /\ f # p[1] /\ f # p[2] => t[f] = None
     \/ /\ p[1] = 0 /\ p[2] > 2
        /\ t[0] \in {Rd(k - 1), None} /\ t[p[2]] = Wr(k - 1)
        /\ \A f \in Fd : f > 2 /\ f # p[2] => t[f] = None

\* What pipe() makes of the table t for stage k: the table s and the pipe q.
Piped(t, s, q, k, b, c, lim) ==
  \/ Cardinality(FreeIn(t, lim)) < 2 /\ s = t /\ q = <<0, 0>> /\ c = TRUE
  \/ /\ q[1] \in FreeIn(t, lim) /\ q[2] \in FreeIn(t, lim) /\ q[1] < q[2]
     /\ \A f \in FreeIn(t, lim) : q[1] <= f
     /\ s = [t EXCEPT ![q[1]] = Rd(k), ![q[2]] = Wr(k)]
     /\ c = b

\* When pipe() fails though descriptor 0 is free, no other one is.
LEMMA NothingFree ==
  ASSUME NEW t \in [Fd -> Descriptions], NEW lim \in 4..NFds, NFds \in Nat, t[0] = None,
         Cardinality(FreeIn(t, lim)) < 2
  PROVE  \A f \in Fd : f # 0 /\ f < lim => t[f] # None
<1>1. IsFiniteSet(FreeIn(t, lim))
  <2>1. IsFiniteSet(0..(lim - 1)) /\ FreeIn(t, lim) \in SUBSET (0..(lim - 1))
    BY FS_Interval DEF FreeIn
  <2>2. QED
    BY <2>1, FS_Subset
<1>2. 0 \in FreeIn(t, lim)
  BY DEF FreeIn
<1>3. FreeIn(t, lim) = {0}
  BY <1>1, <1>2, One
<1>4. QED
  BY <1>3 DEF FreeIn, Fd

\* The shell closes the pipe in front of the stage it has forked.
LEMMA CarryOn ==
  ASSUME NEW t \in [Fd -> Descriptions], NEW s, NEW p \in Fd \X Fd, NEW q \in Fd \X Fd,
         NEW k \in Stage, k > 1, NEW b \in BOOLEAN, NEW c \in BOOLEAN,
         NEW lim \in 4..NFds, NFds \in Nat, NStages \in Nat,
         Carry(t, p, k, b, lim), Piped(t, s, q, k, b, c, lim)
  PROVE  Carry(close_pipe_fd(s, p), q, k + 1, c, lim)
<1> DEFINE u == close_pipe_fd(s, p)
<1> SUFFICES Carry(u, q, k + 1, c, lim)
  OBVIOUS
<1>1. 0 \in Fd /\ 1 \in Fd /\ 2 \in Fd /\ 3 \in Fd
  BY DEF Fd
<1>2. CASE Cardinality(FreeIn(t, lim)) < 2 /\ s = t /\ q = <<0, 0>> /\ c = TRUE
  <2> HIDE DEF u
  <2>1. CASE p = <<0, 0>> /\ t[0] = Terminal
    <3>1. u = [t EXCEPT ![0] = None]
      BY <1>1, <1>2, <2>1, Descriptors DEF close_pipe_fd, u
    <3>2. u[0] = None /\ u[1] = Terminal /\ u[2] = Terminal /\ \A f \in Fd : f > 2 => u[f] = None
      BY <1>1, <2>1, <3>1, Descriptors DEF Carry
    <3>3. QED
      BY <1>2, <3>2 DEF Carry
  <2>2. CASE p = <<0, 0>> /\ t[0] # Terminal
    <3>1. t[0] = None
      BY <2>2, Descriptors DEF Carry
    <3>2. u = t
      BY <1>2, <2>2, <3>1 DEF close_pipe_fd, u
    <3>3. QED
      BY <1>2, <2>2, <3>1, <3>2, Descriptors DEF Carry
  <2>3. CASE p[1] > 2
    <3>1. u = [t EXCEPT ![p[1]] = None, ![p[2]] = None]
      BY <1>2, <2>3, Descriptors DEF close_pipe_fd, Carry, u
    <3>2. p[1] \in Fd /\ p[2] \in Fd /\ p[2] > 2
      BY <2>3 DEF Carry
    <3>3. u[0] = t[0] /\ u[1] = Terminal /\ u[2] = Terminal /\ \A f \in Fd : f > 2 => u[f] = None
      BY <1>1, <2>3, <3>1, <3>2, Descriptors DEF Carry
    <3>4. t[0] \in {Terminal, None}
      BY <2>3 DEF Carry
    <3>5. QED
      BY <1>2, <3>3, <3>4 DEF Carry
  <2>4. CASE p[1] = 0 /\ p[2] > 2 /\ t[0] # None
    <3>1. u = [t EXCEPT ![0] = None, ![p[2]] = None]
      BY <1>2, <2>4 DEF close_pipe_fd, u
    <3>2. u[0] = None /\ u[1] = Terminal /\ u[2] = Terminal /\ \A f \in Fd : f > 2 => u[f] = None
      BY <1>1, <2>4, <3>1, Descriptors DEF Carry
    <3>3. QED
      BY <1>2, <3>2, Descriptors DEF Carry
  <2>5. CASE p[1] = 0 /\ p[2] > 2 /\ t[0] = None
    <3>1. u = t
      BY <1>2, <2>5 DEF close_pipe_fd, u
    <3>2. \A f \in Fd : f # 0 /\ f < lim => t[f] # None
      BY <1>2, <2>5, NothingFree
    <3>3. t[p[2]] = Wr(k - 1) /\ \A f \in Fd : f > 2 /\ f # p[2] => t[f] = None
      BY <2>5 DEF Carry
    <3>4. 3 = p[2]
      BY <1>1, <3>2, <3>3
    <3>5. k - 1 \in Stage /\ t[3] = Wr(k - 1)
      BY <3>3, <3>4 DEF Stage
    <3>6. lim = 4
      <4>1. SUFFICES ASSUME lim # 4
                     PROVE  FALSE
        OBVIOUS
      <4>2. 4 \in Fd /\ 4 < lim
        BY <4>1 DEF Fd
      <4>3. QED
        BY <3>2, <3>3, <3>4, <4>2
    <3>7. t[1] = Terminal /\ t[2] = Terminal
      BY DEF Carry
    <3>8. QED
      BY <1>2, <2>5, <3>1, <3>3, <3>4, <3>5, <3>6, <3>7 DEF Carry
  <2>6. QED
    BY <2>1, <2>2, <2>3, <2>4, <2>5 DEF Carry
<1>3. CASE /\ q[1] \in FreeIn(t, lim) /\ q[2] \in FreeIn(t, lim) /\ q[1] < q[2]
           /\ \A f \in FreeIn(t, lim) : q[1] <= f
           /\ s = [t EXCEPT ![q[1]] = Rd(k), ![q[2]] = Wr(k)]
           /\ c = b
  <2>1. /\ t[q[1]] = None /\ t[q[2]] = None /\ q[1] # q[2]
        /\ q[1] # 1 /\ q[2] # 1 /\ q[1] # 2 /\ q[2] # 2 /\ q[2] > 0
        /\ q[1] \in Fd /\ q[2] \in Fd
    BY <1>3, Descriptors DEF FreeIn, Carry, Fd
  <2>2. t[0] = None => q[1] = 0
    BY <1>1, <1>3 DEF FreeIn, Fd
  <2>3. t[0] # None => q[1] > 2
    BY <1>1, <2>1 DEF Fd
  <2>4. q[2] > 2
    BY <2>1 DEF Fd
  <2>5. \A f \in Fd : s[f] = IF f = q[2] THEN Wr(k) ELSE IF f = q[1] THEN Rd(k) ELSE t[f]
    BY <1>3, <2>1
  <2>6. s \in [Fd -> Descriptions] /\ s[1] = Terminal /\ s[2] = Terminal
    BY <1>1, <1>3, <2>1, <2>5 DEF Carry, Descriptions
  <2>7. b => t[0] = None \/ p = <<0, 0>> \/ t[0] = Rd(k - 1)
    BY DEF Carry
  <2>8. \A m : m = k => (k + 1) - 1 = m
    BY DEF Stage
  <2>9. s[q[1]] = Rd((k + 1) - 1) /\ s[q[2]] = Wr((k + 1) - 1)
    BY <2>1, <2>5, <2>8
  <2> HIDE DEF u
  <2>10. CASE p = <<0, 0>> /\ t[0] = Terminal
    <3>1. u = [s EXCEPT ![0] = None]
      BY <1>1, <2>1, <2>3, <2>4, <2>5, <2>10, Descriptors DEF close_pipe_fd, u
    <3>2. u[0] = None /\ u[1] = Terminal /\ u[2] = Terminal
      BY <1>1, <2>6, <3>1
    <3>3. \A f \in Fd : f > 2 /\ f # q[1] /\ f # q[2] => u[f] = None
      BY <2>5, <2>6, <2>10, <3>1, Descriptors DEF Carry
    <3>4. u[q[1]] = Rd((k + 1) - 1) /\ u[q[2]] = Wr((k + 1) - 1)
      BY <2>1, <2>3, <2>4, <2>6, <2>10, <2>9, <3>1, Descriptors
    <3>5. c
      BY <1>3, <2>10 DEF Carry
    <3>6. QED
      BY <2>1, <2>3, <2>4, <2>10, <3>2, <3>3, <3>4, <3>5, Descriptors DEF Carry
  <2>11. CASE p = <<0, 0>> /\ t[0] = None
    <3>1. u = [s EXCEPT ![0] = None]
      BY <1>1, <2>1, <2>2, <2>4, <2>5, <2>11, Descriptors DEF close_pipe_fd, u
    <3>2. u[0] = None /\ u[1] = Terminal /\ u[2] = Terminal /\ q[1] = 0
      BY <1>1, <2>2, <2>6, <2>11, <3>1
    <3>3. \A f \in Fd : f > 2 => t[f] = None
      <4>1. SUFFICES ASSUME lim = 4, NEW n \in Stage, t[3] = Wr(n)
                     PROVE  FALSE
        BY <2>11 DEF Carry
      <4>2. q[2] < 4
        BY <1>3, <4>1 DEF FreeIn
      <4>3. QED
        BY <2>1, <2>4, <4>1, <4>2, Descriptors DEF Fd
    <3>4. \A f \in Fd : f > 2 /\ f # q[2] => u[f] = None
      BY <2>5, <2>6, <3>1, <3>2, <3>3
    <3>5. u[q[2]] = Wr((k + 1) - 1)
      BY <2>1, <2>4, <2>6, <2>9, <3>1
    <3>6. c
      BY <1>3, <2>11 DEF Carry
    <3>7. QED
      BY <2>4, <3>2, <3>4, <3>5, <3>6 DEF Carry
  <2>12. CASE p[1] > 2
    <3>1. /\ p[2] > 2 /\ p[1] # p[2] /\ p[1] \in Fd /\ p[2] \in Fd
          /\ t[p[1]] = Rd(k - 1) /\ t[p[2]] = Wr(k - 1)
          /\ t[0] \in {Terminal, None} /\ (b => t[0] = None) /\ (t[0] # Terminal => b)
          /\ \A f \in Fd : f > 2 /\ f # p[1] /\ f # p[2] => t[f] = None
      BY <2>12 DEF Carry
    <3>2. p[1] # q[1] /\ p[1] # q[2] /\ p[2] # q[1] /\ p[2] # q[2]
      BY <2>1, <3>1, Descriptors
    <3>3. u = [s EXCEPT ![p[1]] = None, ![p[2]] = None]
      BY <2>5, <3>1, <3>2, Descriptors DEF close_pipe_fd, u
    <3>4. u[0] = s[0] /\ u[1] = Terminal /\ u[2] = Terminal
      BY <1>1, <2>6, <2>12, <3>1, <3>3
    <3>5. \A f \in Fd : f > 2 /\ f # q[1] /\ f # q[2] => u[f] = None
      BY <2>5, <2>6, <3>1, <3>3
    <3>6. u[q[1]] = Rd((k + 1) - 1) /\ u[q[2]] = Wr((k + 1) - 1)
      BY <2>1, <2>6, <2>9, <3>2, <3>3
    <3>7. CASE t[0] = Terminal
      <4>1. q[1] > 2
        BY <2>3, <3>7, Descriptors
      <4>2. u[0] = Terminal
        BY <1>1, <2>4, <2>5, <3>4, <3>7, <4>1
      <4>3. ~c
        <5>1. ~b
          BY <3>1, <3>7, Descriptors
        <5>2. QED
          BY <1>3, <5>1, Zenon
      <4>4. QED
        BY <2>1, <2>4, <3>4, <3>5, <3>6, <4>1, <4>2, <4>3, Descriptors DEF Carry
    <3>8. CASE t[0] = None
      <4>1. q[1] = 0 /\ u[0] = Rd((k + 1) - 1) /\ c
        BY <1>3, <2>2, <3>1, <3>6, <3>8, Descriptors
      <4>2. QED
        BY <2>4, <3>4, <3>5, <3>6, <4>1 DEF Carry
    <3>9. QED
      BY <3>1, <3>7, <3>8
  <2>13. CASE p[1] = 0 /\ p[2] > 2
    <3>1. /\ p[2] \in Fd /\ t[p[2]] = Wr(k - 1)
          /\ t[0] \in {Rd(k - 1), None} /\ (t[0] # Terminal => b)
          /\ \A f \in Fd : f > 2 /\ f # p[2] => t[f] = None
      BY <2>13 DEF Carry
    <3>2. p[2] # q[1] /\ p[2] # q[2] /\ s[0] # None /\ c
      BY <1>1, <1>3, <2>1, <2>2, <2>5, <3>1, Descriptors
    <3>3. u = [s EXCEPT ![0] = None, ![p[2]] = None]
      BY <2>13, <3>2 DEF close_pipe_fd, u
    <3>4. u[0] = None /\ u[1] = Terminal /\ u[2] = Terminal
      BY <1>1, <2>6, <2>13, <3>3
    <3>5. u[q[2]] = Wr((k + 1) - 1) /\ (q[1] > 2 => u[q[1]] = Rd((k + 1) - 1))
      BY <2>1, <2>4, <2>6, <2>9, <3>2, <3>3
    <3>6. \A f \in Fd : f > 2 /\ f # q[1] /\ f # q[2] => u[f] = None
      BY <2>5, <2>6, <3>1, <3>3
    <3>7. CASE t[0] = None
      <4>1. q[1] = 0
        BY <2>2, <3>7
      <4>2. QED
        BY <2>4, <3>2, <3>4, <3>5, <3>6, <4>1 DEF Carry
    <3>8. CASE t[0] # None
      <4>1. q[1] > 2
        BY <2>3, <3>8
      <4>2. QED
        BY <2>1, <2>4, <3>2, <3>4, <3>5, <3>6, <4>1 DEF Carry
    <3>9. QED
      BY <3>7, <3>8
  <2>14. QED
    <3>1. \/ p = <<0, 0>> /\ t[0] \in {Terminal, None}
          \/ p[1] > 2
          \/ p[1] = 0 /\ p[2] > 2
      BY DEF Carry
    <3>2. QED
      BY <2>10, <2>11, <2>12, <2>13, <3>1
<1>4. QED
  BY <1>2, <1>3 DEF Piped
-----------------------------------------------------------------------------
\* The first pipe, which finds the table of the shell as it always is.
LEMMA FirstPipe ==
  ASSUME NEW s, NEW q \in Fd \X Fd, NEW b, NEW c, ~b, NEW lim \in 4..NFds, NFds \in Nat,
         Piped(Inherited, s, q, 1, b, c, lim)
  PROVE  Carry(s, q, 2, c, lim)
<1>1. 0 \in Fd /\ 1 \in Fd /\ 2 \in Fd /\ Inherited \in [Fd -> {Terminal, None}]
  BY DEF Fd, Inherited
<1>2. /\ Inherited[0] = Terminal /\ Inherited[1] = Terminal /\ Inherited[2] = Terminal
      /\ \A f \in Fd : f > 2 => Inherited[f] = None
  BY <1>1 DEF Inherited, Fd
<1>3. CASE s = Inherited /\ q = <<0, 0>> /\ c = TRUE
  BY <1>2, <1>3 DEF Carry
<1>4. CASE /\ q[1] \in FreeIn(Inherited, lim) /\ q[2] \in FreeIn(Inherited, lim) /\ q[1] < q[2]
           /\ s = [Inherited EXCEPT ![q[1]] = Rd(1), ![q[2]] = Wr(1)]
           /\ c = b
  <2>1. Inherited[q[1]] = None /\ Inherited[q[2]] = None /\ q[1] \in Fd /\ q[2] \in Fd
    BY <1>4 DEF FreeIn
  <2>2. q[1] > 2 /\ q[2] > 2 /\ q[1] # q[2]
    BY <1>4, <2>1, Descriptors DEF Inherited, Fd
  <2>3. s[q[1]] = Rd(2 - 1) /\ s[q[2]] = Wr(2 - 1)
    BY <1>1, <1>4, <2>1, <2>2
  <2>4. s[0] = Terminal /\ s[1] = Terminal /\ s[2] = Terminal
    BY <1>1, <1>2, <1>4, <2>2
  <2>5. \A f \in Fd : f > 2 /\ f # q[1] /\ f # q[2] => s[f] = None
    BY <1>1, <1>2, <1>4, <2>2
  <2>6. ~c
    BY <1>4, Zenon
  <2>7. QED
    BY <2>2, <2>3, <2>4, <2>5, <2>6 DEF Carry
<1>5. QED
  BY <1>3, <1>4, Zenon DEF Piped

\* What the shell has left of its table t behind a line, b: a pipe() has failed.
Left(t, b) ==
  \/ ~b /\ t = Inherited
  \/ /\ b /\ t[STDIN] = None
     /\ \A f, g \in Fd \ {STDIN} :
          t[f] # Inherited[f] /\ t[g] # Inherited[g] => f = g /\ \E n \in Stage : t[f] = Wr(n)

\* The shell closes the last pipe.
LEMMA LastPipe ==
  ASSUME NEW t \in [Fd -> Descriptions], NEW p \in Fd \X Fd,
         NEW k \in Stage, k > 1, NEW b \in BOOLEAN,
         NEW lim \in 4..NFds, NFds \in Nat, NStages \in Nat,
         Carry(t, p, k, b, lim)
  PROVE  Left(close_pipe_fd(t, p), b)
<1> DEFINE u == close_pipe_fd(t, p)
<1> SUFFICES Left(u, b)
  OBVIOUS
<1>1. 0 \in Fd /\ 1 \in Fd /\ 2 \in Fd /\ 3 \in Fd
  BY DEF Fd
<1>2. /\ t[1] = Terminal /\ t[2] = Terminal /\ (t[0] # Terminal => b)
      /\ k - 1 \in Stage
  BY DEF Carry, Stage
<1>3. \A f \in Fd : Inherited[f] = IF f < 3 THEN Terminal ELSE None
  BY DEF Inherited
<1> HIDE DEF u
<1>4. CASE p = <<0, 0>>
  <2>1. b /\ t[0] \in {Terminal, None}
    BY <1>4, Descriptors DEF Carry
  <2>2. u[0] = None /\ \A f \in Fd : f # 0 => u[f] = t[f]
    BY <1>1, <1>4, <2>1, Descriptors DEF close_pipe_fd, u
  <2>3. \A f \in Fd : f > 3 => t[f] = None
    BY <1>4 DEF Carry
  <2>4. t[3] = None \/ \E n \in Stage : t[3] = Wr(n)
    BY <1>1, <1>4 DEF Carry
  <2>5. \A f \in Fd \ {STDIN} : u[f] # Inherited[f] => f = 3
    BY <1>2, <1>3, <2>2, <2>3 DEF Fd, STDIN
  <2>6. u[3] # Inherited[3] => \E n \in Stage : u[3] = Wr(n)
    BY <1>1, <1>3, <2>2, <2>4
  <2>7. QED
    BY <2>1, <2>2, <2>5, <2>6 DEF Left, STDIN
<1>5. CASE p[1] > 2
  <2>1. /\ p[2] > 2 /\ p[1] \in Fd /\ p[2] \in Fd /\ t[p[1]] # None
        /\ t[0] \in {Terminal, None} /\ (b => t[0] = None)
        /\ \A f \in Fd : f > 2 /\ f # p[1] /\ f # p[2] => t[f] = None
    BY <1>5, Descriptors DEF Carry
  <2>2. u = [t EXCEPT ![p[1]] = None, ![p[2]] = None]
    BY <2>1 DEF close_pipe_fd, u
  <2>3. \A f \in Fd : f # 0 => u[f] = Inherited[f]
    BY <1>2, <1>3, <1>5, <2>1, <2>2 DEF Fd
  <2>4. u[0] = t[0] /\ u \in [Fd -> Descriptions]
    BY <1>1, <1>5, <2>1, <2>2 DEF Descriptions
  <2>5. CASE b
    BY <2>1, <2>3, <2>4, <2>5 DEF Left, STDIN
  <2>6. CASE ~b
    <3>1. u[0] = Inherited[0]
      BY <1>1, <1>2, <1>3, <2>4, <2>6
    <3>2. u = Inherited
      BY <2>3, <2>4, <3>1 DEF Inherited
    <3>3. QED
      BY <2>6, <3>2 DEF Left
  <2>7. QED
    BY <2>5, <2>6
<1>6. CASE p[1] = 0 /\ p[2] > 2
  <2>1. /\ p[2] \in Fd /\ t[p[2]] = Wr(k - 1) /\ b
        /\ \A f \in Fd : f > 2 /\ f # p[2] => t[f] = None
    BY <1>2, <1>6, Descriptors DEF Carry
  <2>2. \/ t[0] = None /\ u = t
        \/ u = [t EXCEPT ![0] = None, ![p[2]] = None]
    BY <1>6 DEF close_pipe_fd, u
  <2>3. u[0] = None /\ \A f \in Fd : f # 0 /\ f # p[2] => u[f] = Inherited[f]
    BY <1>1, <1>2, <1>3, <1>6, <2>1, <2>2 DEF Fd
  <2>4. u[p[2]] = None \/ u[p[2]] = Wr(k - 1)
    BY <1>1, <1>6, <2>1, <2>2
  <2>5. u[p[2]] = Inherited[p[2]] \/ \E n \in Stage : u[p[2]] = Wr(n)
    <3>1. Inherited[p[2]] = None
      BY <1>3, <1>6, <2>1 DEF Fd
    <3>2. QED
      BY <1>2, <2>4, <3>1, Zenon
  <2>6. \A f \in Fd \ {STDIN} : u[f] # Inherited[f] => f = p[2] /\ \E n \in Stage : u[f] = Wr(n)
    BY <2>3, <2>5 DEF STDIN
  <2>7. QED
    BY <2>1, <2>3, <2>6 DEF Left, STDIN
<1>7. QED
  BY <1>4, <1>5, <1>6 DEF Carry
-----------------------------------------------------------------------------
\* A step of a stage is a step of its process alone.
LEMMA StageAlone ==
  ASSUME TypeOK, NEW n \in Stage, StageStep(n)
  PROVE  /\ UNCHANGED <<line, pc, node, fd, failed>>
         /\ \A p \in 0..NStages : p # n => table'[p] = table[p]
         /\ \A m \in Stage : m # n => at'[m] = at[m]
<1>1. CASE DupEnds(n) \/ Redirect(n) \/ CloseEnds(n)
  <2>1. (\E t, w : Goes(n, t, w)) \/ Ends(n)
    BY <1>1 DEF DupEnds, Redirect, CloseEnds
  <2>2. UNCHANGED <<line, pc, node, fd, failed>>
    BY <1>1 DEF DupEnds, Redirect, CloseEnds
  <2>3. QED
    BY <2>1, <2>2 DEF Goes, Ends, TypeOK
<1>2. CASE ReadItem(n) \/ WriteItem(n)
  BY <1>2 DEF ReadItem, WriteItem
<1>3. CASE ReadEnd(n) \/ WriteBroken(n) \/ Finish(n)
  BY <1>3 DEF ReadEnd, WriteBroken, Finish, Ends, TypeOK
<1>4. QED
  BY <1>1, <1>2, <1>3 DEF StageStep
-----------------------------------------------------------------------------
Places == {"none", "dup", "redirect", "close", "run", "zombie", "reaped"}
Tables == [Fd -> Descriptions]

\* The ranges of the constants, and of what tables hold.
LEMMA Constants ==
  /\ NFds \in Nat /\ NStages \in Nat /\ Capacity \in Nat \ {0} /\ Items \in Nat
  /\ Shell \in 0..NStages /\ Stage \subseteq 0..NStages /\ Shell \notin Stage
  /\ None \in Descriptions /\ Terminal \in Descriptions /\ File \in Descriptions
  /\ \A n \in Stage : Rd(n) \in Descriptions /\ Wr(n) \in Descriptions
  /\ Inherited \in Tables /\ Closed \in Tables
<1>1. None \in Descriptions /\ Terminal \in Descriptions /\ File \in Descriptions
  BY DEF Descriptions
<1>2. QED
  BY <1>1, PipelineAssumption DEF Shell, Stage, Descriptions, Inherited, Closed, Tables

\* A line of the user is one the constants allow.
LEMMA LineTyped ==
  ASSUME NEW l \in Lines
  PROVE  /\ l.limit \in 4..NFds /\ l.last \in 2..NStages
         /\ l.prog \in [Stage -> {"gen", "cat", "true"}] /\ l.redir \in [Stage -> 0..NFds]
BY PipelineAssumption DEF Stage

\* What the programs have to write at the start.
LEMMA WorkTyped ==
  ASSUME NEW p PROVE Work(p) \in [Stage -> 0..Items \cup {1}]
BY Constants DEF Work

\* The first line starts with every variable in its range ...
LEMMA InitTyped == Init => TypeOK
<1> SUFFICES ASSUME Init
             PROVE  TypeOK
  OBVIOUS
<1>1. /\ limit \in 4..NFds /\ last \in 2..NStages
      /\ prog \in [Stage -> {"gen", "cat", "true"}] /\ redir \in [Stage -> 0..NFds]
  BY LineTyped DEF Init
<1>2. 0 \in Fd /\ 1 \in Stage
  BY <1>1, Constants DEF Fd, Stage
<1>3. fd \in [Stage -> Fd \X Fd]
  BY <1>2 DEF Init
<1>4. table \in [0..NStages -> Tables]
  BY Constants DEF Init
<1>5. todo \in [Stage -> 0..Items \cup {1}]
  BY WorkTyped DEF Init
<1>6. failed \in BOOLEAN
  BY Zenon DEF Init
<1>7. node \in Stage /\ pc \in {"pipe"} /\ at \in [Stage -> Places] /\ buf \in [Stage -> 0..Capacity]
  BY <1>2, Constants DEF Init, Places
<1>8. QED
  BY <1>1, <1>3, <1>4, <1>5, <1>6, <1>7 DEF TypeOK, Tables, Places

\* Closing a pipe makes a table of a table.
LEMMA ClosePipe ==
  ASSUME NEW t \in Tables, NEW p
  PROVE  close_pipe_fd(t, p) \in Tables
BY Constants DEF close_pipe_fd, Tables

\* A stage that goes on, or ends, has a table and is somewhere.
LEMMA GoesOn ==
  ASSUME TypeOK, NEW n \in Stage,
         Ends(n) \/ \E t \in Tables, w \in Places : Goes(n, t, w)
  PROVE  table' \in [0..NStages -> Tables] /\ at' \in [Stage -> Places]
<1>1. CASE Ends(n)
  BY <1>1, Constants DEF Ends, TypeOK, Tables, Places
<1>2. CASE \E t \in Tables, w \in Places : Goes(n, t, w)
  BY <1>2, Constants DEF Goes, TypeOK, Tables, Places
<1>3. QED
  BY <1>1, <1>2

\* The three steps of set_pipe() go on with a table, or end.
LEMMA Moves ==
  ASSUME TypeOK, NEW n \in Stage, DupEnds(n) \/ Redirect(n) \/ CloseEnds(n)
  PROVE  Ends(n) \/ \E t \in Tables, w \in Places : Goes(n, t, w)
<1>1. n \in 0..NStages /\ table[n] \in Tables
  BY Constants DEF TypeOK, Tables
<1>2. CASE DupEnds(n)
  <2> DEFINE out == IF n < last THEN fd[n][2] ELSE STDOUT
             in  == IF n > 1 THEN fd[n - 1][1] ELSE STDIN
             u   == [table[n] EXCEPT ![STDOUT] = table[n][out]]
             v   == [u EXCEPT ![STDIN] = u[in]]
  <2>1. 0 \in Fd /\ 1 \in Fd /\ fd[n] \in Fd \X Fd
    BY Constants DEF Fd, TypeOK
  <2>2. out \in Fd
    BY <2>1 DEF STDOUT
  <2>3. in \in Fd
    <3>1. n > 1 => n - 1 \in Stage
      BY Constants DEF Stage
    <3>2. n > 1 => fd[n - 1] \in Fd \X Fd
      BY <3>1 DEF TypeOK
    <3>3. QED
      BY <2>1, <3>2 DEF STDIN
  <2>4. u \in Tables
    BY <1>1, <2>2 DEF Tables
  <2>5. v \in Tables
    BY <2>4, <2>3 DEF Tables
  <2>6. Ends(n) \/ Goes(n, v, "redirect")
    BY <1>2 DEF DupEnds
  <2>7. QED
    BY <2>5, <2>6 DEF Places
<1>3. CASE Redirect(n)
  <2>1. prepare_redirect(table[n], redir[n]) \in Tables
    BY <1>1, Constants DEF prepare_redirect, Tables
  <2>2. QED
    BY <1>1, <1>3, <2>1 DEF Redirect, Places
<1>4. CASE CloseEnds(n)
  <2> DEFINE u == IF n < last THEN close_pipe_fd(table[n], fd[n]) ELSE table[n]
             v == IF n > 1 THEN close_pipe_fd(u, fd[n - 1]) ELSE u
  <2>1. u \in Tables
    BY <1>1, ClosePipe
  <2>2. v \in Tables
    BY <2>1, ClosePipe
  <2>3. Ends(n) \/ Goes(n, v, "run")
    BY <1>4 DEF CloseEnds
  <2>4. QED
    BY <2>2, <2>3 DEF Places
<1>5. QED
  BY <1>2, <1>3, <1>4

\* ... and no step takes one out of it.
LEMMA StepTyped == TypeOK /\ [Next]_vars => TypeOK'
<1> SUFFICES ASSUME TypeOK, [Next]_vars
             PROVE  TypeOK'
  OBVIOUS
<1>1. /\ limit \in 4..NFds /\ last \in 2..NStages
      /\ prog \in [Stage -> {"gen", "cat", "true"}] /\ redir \in [Stage -> 0..NFds]
      /\ pc \in {"pipe", "fork", "close", "wait", "done", "prompt", "exited"}
      /\ node \in Stage /\ fd \in [Stage -> Fd \X Fd]
      /\ table \in [0..NStages -> Tables] /\ at \in [Stage -> Places]
      /\ todo \in [Stage -> 0..Items \cup {1}] /\ buf \in [Stage -> 0..Capacity]
      /\ failed \in BOOLEAN
  BY DEF TypeOK, Tables, Places
<1>2. 0 \in Fd /\ 1 \in Stage /\ 2 \in Fd
  BY <1>1, Constants DEF Fd, Stage
<1>3. CASE MakePipe
  <2>1. fd' \in [Stage -> Fd \X Fd] /\ table' \in [0..NStages -> Tables]
    <3>1. CASE UNCHANGED <<fd, table>>
      BY <1>1, <3>1
    <3>2. CASE Cardinality(Free(table[Shell])) >= 2
      <4> DEFINE r == Min(Free(table[Shell]))
                 w == Min(Free(table[Shell]) \ {r})
      <4>1. Free(table[Shell]) \in SUBSET Fd /\ IsFiniteSet(Free(table[Shell]))
        <5>1. Free(table[Shell]) \in SUBSET (0..(limit - 1))
          BY DEF Free
        <5>2. IsFiniteSet(0..(limit - 1))
          BY <1>1, FS_Interval
        <5>3. 0..(limit - 1) \subseteq Fd
          BY <1>1, Constants DEF Fd
        <5>4. QED
          BY <5>1, <5>2, <5>3, FS_Subset
      <4>2. r \in Fd /\ w \in Fd
        <5>1. Free(table[Shell]) \in SUBSET Nat
          BY <4>1 DEF Fd
        <5>2. QED
          BY <3>2, <4>1, <5>1, Two
      <4>3. /\ fd' = [fd EXCEPT ![node] = <<r, w>>]
            /\ table' = [table EXCEPT ![Shell][r] = Rd(node), ![Shell][w] = Wr(node)]
        <5>1. Cardinality(Free(table[Shell])) \in Nat
          BY <4>1, FS_CardinalityType
        <5>2. QED
          BY <1>3, <3>2, <5>1 DEF MakePipe
      <4>4. [table[Shell] EXCEPT ![r] = Rd(node), ![w] = Wr(node)] \in Tables
        BY <1>1, Constants DEF Tables
      <4>5. fd' \in [Stage -> Fd \X Fd]
        BY <1>1, <4>2, <4>3
      <4>6. table' = [table EXCEPT ![Shell] = [table[Shell] EXCEPT ![r] = Rd(node), ![w] = Wr(node)]]
        BY <1>1, <4>3, Constants
      <4>7. QED
        BY <1>1, <4>4, <4>5, <4>6
    <3>3. QED
      BY <1>3, <3>1, <3>2 DEF MakePipe
  <2>2. failed' \in BOOLEAN
    BY <1>1, <1>3, Zenon DEF MakePipe
  <2>3. pc' = "fork" /\ UNCHANGED <<line, node, at, io>>
    BY <1>3 DEF MakePipe
  <2>4. QED
    BY <1>1, <2>1, <2>2, <2>3 DEF TypeOK, line, io, Tables, Places
<1>4. CASE Fork
  <2>1. table' \in [0..NStages -> Tables] /\ at' \in [Stage -> Places]
    BY <1>1, <1>4, Constants DEF Fork, Places
  <2>2. pc' = "close" /\ UNCHANGED <<line, node, fd, io, failed>>
    BY <1>4 DEF Fork
  <2>3. QED
    BY <1>1, <2>1, <2>2 DEF TypeOK, line, io, Tables, Places
<1>5. CASE ForkFails \/ EndOfInput
  <2>1. table' \in [0..NStages -> Tables]
    BY <1>1, <1>5, Constants DEF ForkFails, EndOfInput
  <2>2. pc' = "exited" /\ UNCHANGED <<line, node, fd, at, io, failed>>
    BY <1>5 DEF ForkFails, EndOfInput
  <2>3. QED
    BY <1>1, <2>1, <2>2 DEF TypeOK, line, io, Tables, Places
<1>6. CASE CloseBehind
  <2>1. table' \in [0..NStages -> Tables]
    <3>1. close_pipe_fd(table[Shell], fd[node - 1]) \in Tables
      BY <1>1, Constants, ClosePipe
    <3>2. QED
      BY <1>1, <1>6, <3>1, Constants DEF CloseBehind
  <2>2. node' \in Stage /\ pc' \in {"pipe", "fork", "wait"}
    <3>1. CASE node < last
      <4>1. node' = node + 1 /\ pc' \in {"pipe", "fork"}
        BY <1>6, <3>1 DEF CloseBehind
      <4>2. node + 1 \in Stage
        BY <1>1, <3>1, Constants DEF Stage
      <4>3. QED
        BY <4>1, <4>2
    <3>2. CASE ~(node < last)
      BY <1>2, <1>6, <3>2 DEF CloseBehind
    <3>3. QED
      BY <3>1, <3>2
  <2>3. UNCHANGED <<line, fd, at, io, failed>>
    BY <1>6 DEF CloseBehind
  <2>4. QED
    BY <1>1, <2>1, <2>2, <2>3 DEF TypeOK, line, io, Tables, Places
<1>7. CASE Wait
  <2>1. at' \in [Stage -> Places]
    BY <1>1, <1>7 DEF Wait, Places
  <2>2. node' \in Stage /\ pc' \in {"wait", "done"}
    BY <1>1, <1>7, Constants DEF Wait, Stage
  <2>3. UNCHANGED <<line, fd, table, io, failed>>
    BY <1>7 DEF Wait
  <2>4. QED
    BY <1>1, <2>1, <2>2, <2>3 DEF TypeOK, line, io, Tables, Places
<1>8. CASE FreeTree
  <2>1. todo' \in [Stage -> 0..Items \cup {1}]
    BY <1>8, WorkTyped DEF FreeTree
  <2>2. prog' \in [Stage -> {"gen", "cat", "true"}] /\ redir' \in [Stage -> 0..NFds]
    BY <1>8, Constants DEF FreeTree, NoRedirect
  <2>3. pc' = "prompt" /\ node' \in Stage /\ fd' \in [Stage -> Fd \X Fd]
    BY <1>2, <1>8 DEF FreeTree
  <2>4. at' \in [Stage -> Places] /\ buf' \in [Stage -> 0..Capacity]
    BY <1>8, Constants DEF FreeTree, Places
  <2>5. UNCHANGED <<limit, last, table, failed>>
    BY <1>8 DEF FreeTree
  <2>6. QED
    BY <1>1, <2>1, <2>2, <2>3, <2>4, <2>5 DEF TypeOK, Tables, Places
<1>9. CASE NextLine
  <2>1. /\ last' \in 2..NStages
        /\ prog' \in [Stage -> {"gen", "cat", "true"}] /\ redir' \in [Stage -> 0..NFds]
    BY <1>9, LineTyped DEF NextLine, LineStart
  <2>2. todo' \in [Stage -> 0..Items \cup {1}]
    BY <1>9, WorkTyped DEF NextLine, LineStart
  <2>3. pc' = "pipe" /\ node' \in Stage /\ fd' \in [Stage -> Fd \X Fd]
    BY <1>2, <1>9 DEF NextLine, LineStart
  <2>4. at' \in [Stage -> Places] /\ buf' \in [Stage -> 0..Capacity]
    BY <1>9, Constants DEF NextLine, LineStart, Places
  <2>5. failed' \in BOOLEAN
    BY <1>9, Zenon DEF NextLine, LineStart
  <2>6. UNCHANGED <<limit, table>>
    BY <1>9 DEF NextLine
  <2>7. QED
    BY <1>1, <2>1, <2>2, <2>3, <2>4, <2>5, <2>6 DEF TypeOK, Tables, Places
<1>10. ASSUME NEW n \in Stage, StageStep(n)
       PROVE  TypeOK'
  <2>1. UNCHANGED <<line, pc, node, fd, failed>>
    BY <1>10, StageAlone
  <2>2. CASE DupEnds(n) \/ Redirect(n) \/ CloseEnds(n)
    <3>1. table' \in [0..NStages -> Tables] /\ at' \in [Stage -> Places]
      BY <2>2, GoesOn, Moves
    <3>2. UNCHANGED io
      BY <2>2 DEF DupEnds, Redirect, CloseEnds
    <3>3. QED
      BY <1>1, <2>1, <3>1, <3>2 DEF TypeOK, line, io, Tables, Places
  <2>3. CASE ReadEnd(n) \/ WriteBroken(n) \/ Finish(n)
    <3>1. table' \in [0..NStages -> Tables] /\ at' \in [Stage -> Places]
      BY <2>3, GoesOn DEF ReadEnd, WriteBroken, Finish
    <3>2. UNCHANGED io
      BY <2>3 DEF ReadEnd, WriteBroken, Finish
    <3>3. QED
      BY <1>1, <2>1, <3>1, <3>2 DEF TypeOK, line, io, Tables, Places
  <2>4. CASE ReadItem(n)
    <3>1. todo' \in [Stage -> 0..Items \cup {1}] /\ UNCHANGED <<table, at>>
      BY <1>1, <2>4 DEF ReadItem
    <3>2. buf' \in [Stage -> 0..Capacity]
      <4>1. buf[In(n)] > 0 /\ buf' = [buf EXCEPT ![In(n)] = buf[In(n)] - 1]
        BY <2>4 DEF ReadItem
      <4>2. CASE In(n) \in Stage
        <5>1. buf[In(n)] \in 0..Capacity
          BY <1>1, <4>2
        <5>2. buf[In(n)] - 1 \in 0..Capacity
          BY <4>1, <5>1, Constants
        <5>3. QED
          BY <1>1, <4>1, <4>2, <5>2
      <4>3. CASE In(n) \notin Stage
        BY <1>1, <4>1, <4>3
      <4>4. QED
        BY <4>2, <4>3
    <3>3. QED
      BY <1>1, <2>1, <3>1, <3>2 DEF TypeOK, line, Tables, Places
  <2>5. CASE WriteItem(n)
    <3>1. todo' \in [Stage -> 0..Items \cup {1}] /\ UNCHANGED <<table, at>>
      <4>1. /\ todo[n] > 0 /\ todo' = [todo EXCEPT ![n] = todo[n] - 1]
            /\ UNCHANGED <<table, at>>
        BY <2>5 DEF WriteItem, Writes
      <4>2. todo[n] \in 0..Items \cup {1}
        BY <1>1
      <4>3. todo[n] - 1 \in 0..Items \cup {1}
        BY <4>1, <4>2, Constants
      <4>4. QED
        BY <1>1, <4>1, <4>3
    <3>2. buf' \in [Stage -> 0..Capacity]
      <4>1. \/ buf' = buf
            \/ buf[Out(n)] < Capacity /\ buf' = [buf EXCEPT ![Out(n)] = buf[Out(n)] + 1]
        BY <2>5 DEF WriteItem
      <4>2. CASE Out(n) \in Stage
        <5>1. buf[Out(n)] \in 0..Capacity
          BY <1>1, <4>2
        <5>2. buf[Out(n)] < Capacity => buf[Out(n)] + 1 \in 0..Capacity
          BY <5>1, Constants
        <5>3. QED
          BY <1>1, <4>1, <4>2, <5>2
      <4>3. CASE Out(n) \notin Stage
        BY <1>1, <4>1, <4>3
      <4>4. QED
        BY <4>2, <4>3
    <3>3. QED
      BY <1>1, <2>1, <3>1, <3>2 DEF TypeOK, line, Tables, Places
  <2>6. QED
    BY <1>10, <2>2, <2>3, <2>4, <2>5 DEF StageStep
<1>11. CASE UNCHANGED vars
  BY <1>11 DEF vars, TypeOK, Free
<1>12. QED
  BY <1>3, <1>4, <1>5, <1>6, <1>7, <1>8, <1>9, <1>10, <1>11 DEF Next, ShellStep

\* Every variable of a pipeline keeps its range, for any number of stages,
\* descriptors and lines: no descriptor a process uses is outside its table.
THEOREM PipelineTypeCorrect == Spec => []TypeOK
<1>1. Init => TypeOK
  BY InitTyped
<1>2. TypeOK /\ [Next]_vars => TypeOK'
  BY StepTyped
<1>3. QED
  BY <1>1, <1>2, PTL DEF Spec
-----------------------------------------------------------------------------
\* The shell's table when it turns to stage k, p: the pipe in front of it.
Before(t, p, k, b, lim) == IF k = 1 THEN t = Inherited /\ ~b ELSE Carry(t, p, k, b, lim)

\* The pipe behind the stage it turns to is not made yet ...
Turned == node < last /\ fd[node] = <<0, 0>>
          /\ Before(table[Shell], fd[node - 1], node, failed, limit)

\* ... or pipe() has been called, or there is none behind the last stage.
Forking ==
  \/ /\ node < last
     /\ \E t \in Tables, b \in BOOLEAN :
          /\ Before(t, fd[node - 1], node, b, limit)
          /\ Piped(t, table[Shell], fd[node], node, b, failed, limit)
  \/ node = last /\ Carry(table[Shell], fd[last - 1], last, failed, limit)

\* What the shell has of the pipes of a line, from the first step to the last.
ShellHas ==
  /\ pc \in {"pipe", "fork", "close"} =>
       node <= last /\ \A n \in Stage : n > node => fd[n] = <<0, 0>>
  /\ pc = "pipe" => Turned
  /\ pc \in {"fork", "close"} => Forking
  /\ pc \in {"wait", "done", "prompt"} => Left(table[Shell], failed)

\* ShellHas is enough for what the shell is to have behind a line.
LEMMA LeftIsRestored == TypeOK /\ ShellHas => ShellTableRestored
<1> SUFFICES ASSUME Left(table[Shell], failed)
             PROVE  \/ ~failed /\ table[Shell] = Inherited
                    \/ /\ failed /\ table[Shell][STDIN] = None
                       /\ LET kept == {f \in Fd \ {STDIN} : table[Shell][f] # Inherited[f]}
                          IN  \A f, g \in kept :
                                f = g /\ \E n \in Stage : table[Shell][f] = Wr(n)
  BY DEF ShellHas, ShellTableRestored
<1>1. QED
  BY DEF Left

\* It holds when the first line starts ...
LEMMA InitHas == Init => ShellHas
<1> SUFFICES ASSUME Init
             PROVE  ShellHas
  OBVIOUS
<1>1. pc = "pipe" /\ node = 1 /\ last \in 2..NStages /\ 1 \in Stage
  BY LineTyped, Constants DEF Init, Stage
<1>2. table[Shell] = Inherited /\ ~failed /\ \A n \in Stage : fd[n] = <<0, 0>>
  BY Constants DEF Init
<1>3. Turned
  BY <1>1, <1>2 DEF Turned, Before
<1>4. QED
  BY <1>1, <1>2, <1>3 DEF ShellHas

\* What a call of pipe() makes of the shell's table, whether it fails or not.
LEMMA PipeMade ==
  ASSUME TypeOK, ShellHas, MakePipe
  PROVE  /\ Piped(table[Shell], table'[Shell], fd'[node], node, failed, failed', limit)
         /\ \A m : m # node => fd'[m] = fd[m]
<1>1. /\ node \in Stage /\ table[Shell] \in Tables
      /\ limit \in 4..NFds /\ fd[node] = <<0, 0>>
  BY Constants DEF TypeOK, ShellHas, Turned, Tables, MakePipe
<1>2. Free(table[Shell]) = FreeIn(table[Shell], limit)
  BY DEF Free, FreeIn
<1>3. CASE Cardinality(Free(table[Shell])) < 2 /\ failed' = TRUE /\ UNCHANGED <<fd, table>>
  BY <1>1, <1>2, <1>3 DEF Piped
<1>4. CASE /\ Cardinality(Free(table[Shell])) >= 2
           /\ LET r == Min(Free(table[Shell]))
                  w == Min(Free(table[Shell]) \ {r})
              IN  /\ fd' = [fd EXCEPT ![node] = <<r, w>>]
                  /\ table' = [table EXCEPT ![Shell][r] = Rd(node), ![Shell][w] = Wr(node)]
           /\ failed' = failed
  <2> DEFINE r == Min(Free(table[Shell]))
             w == Min(Free(table[Shell]) \ {r})
  <2>1. Free(table[Shell]) \in SUBSET Nat /\ IsFiniteSet(Free(table[Shell]))
    <3>1. Free(table[Shell]) \in SUBSET (0..(limit - 1)) /\ 0..(limit - 1) \subseteq Nat
      BY <1>1 DEF Free
    <3>2. IsFiniteSet(0..(limit - 1))
      BY <1>1, FS_Interval
    <3>3. QED
      BY <3>1, <3>2, FS_Subset
  <2>2. /\ r \in Free(table[Shell]) /\ w \in Free(table[Shell]) /\ r < w
        /\ \A f \in Free(table[Shell]) : r <= f
    BY <1>4, <2>1, Two
  <2>3. /\ fd' = [fd EXCEPT ![node] = <<r, w>>]
        /\ table' = [table EXCEPT ![Shell][r] = Rd(node), ![Shell][w] = Wr(node)]
    BY <1>4
  <2> HIDE DEF r, w
  <2>4. table'[Shell] = [table[Shell] EXCEPT ![r] = Rd(node), ![w] = Wr(node)]
    BY <1>1, <2>3, Constants DEF TypeOK
  <2>5. fd'[node] = <<r, w>> /\ \A m : m # node => fd'[m] = fd[m]
    BY <1>1, <2>3 DEF TypeOK
  <2>6. fd'[node][1] = r /\ fd'[node][2] = w
    BY <2>5
  <2>7. /\ r \in FreeIn(table[Shell], limit) /\ w \in FreeIn(table[Shell], limit)
        /\ \A f \in FreeIn(table[Shell], limit) : r <= f
    BY <1>2, <2>2
  <2>8. failed' = failed
    BY <1>4, Zenon
  <2>9. QED
    BY <2>2, <2>4, <2>5, <2>6, <2>7, <2>8, Zenon DEF Piped
<1>5. QED
  BY <1>3, <1>4, Zenon DEF MakePipe

\* ... when pipe() has been called, with success or without ...
LEMMA MakePipeHas == TypeOK /\ ShellHas /\ MakePipe => ShellHas'
<1> SUFFICES ASSUME TypeOK, ShellHas, MakePipe
             PROVE  ShellHas'
  OBVIOUS
<1>1. /\ node \in Stage /\ last \in 2..NStages /\ table[Shell] \in Tables
      /\ limit \in 4..NFds /\ failed \in BOOLEAN /\ node < last /\ fd[node] = <<0, 0>>
      /\ Before(table[Shell], fd[node - 1], node, failed, limit)
      /\ \A n \in Stage : n > node => fd[n] = <<0, 0>>
  BY Constants DEF TypeOK, ShellHas, Turned, Tables, MakePipe
<1>2. pc' = "fork" /\ node' = node /\ last' = last /\ limit' = limit
  BY DEF MakePipe, line
<1>4. /\ Piped(table[Shell], table'[Shell], fd'[node], node, failed, failed', limit)
      /\ \A m : m # node => fd'[m] = fd[m]
  BY PipeMade
<1>5. fd'[node - 1] = fd[node - 1]
  BY <1>1, <1>4 DEF Stage
<1>6. Forking'
  BY <1>1, <1>2, <1>4, <1>5 DEF Forking
<1>7. \A n \in Stage : n > node => fd'[n] = <<0, 0>>
  BY <1>1, <1>4 DEF Stage
<1>8. node' <= last'
  BY <1>1, <1>2 DEF Stage
<1>9. QED
  BY <1>2, <1>6, <1>7, <1>8 DEF ShellHas

\* ... when the pipe in front of the stage has been closed ...
LEMMA CloseBehindHas == TypeOK /\ ShellHas /\ CloseBehind => ShellHas'
<1> SUFFICES ASSUME TypeOK, ShellHas, CloseBehind
             PROVE  ShellHas'
  OBVIOUS
<1>1. /\ node \in Stage /\ last \in 2..NStages /\ limit \in 4..NFds /\ failed \in BOOLEAN
      /\ table[Shell] \in Tables /\ fd \in [Stage -> Fd \X Fd]
      /\ Forking /\ node <= last /\ \A n \in Stage : n > node => fd[n] = <<0, 0>>
      /\ NStages \in Nat /\ NFds \in Nat
  BY Constants DEF TypeOK, ShellHas, Tables, CloseBehind
<1>2. UNCHANGED <<limit, last, fd, failed>>
  BY DEF CloseBehind, line
<1>3. table'[Shell] = IF node = 1 THEN table[Shell] ELSE close_pipe_fd(table[Shell], fd[node - 1])
  BY Constants DEF CloseBehind, TypeOK
<1>4. node > 1 => node - 1 \in Stage /\ fd[node - 1] \in Fd \X Fd
  BY <1>1 DEF Stage
<1>5. CASE node < last
  <2>1. PICK t \in Tables, b \in BOOLEAN :
          /\ Before(t, fd[node - 1], node, b, limit)
          /\ Piped(t, table[Shell], fd[node], node, b, failed, limit)
    BY <1>1, <1>5 DEF Forking
  <2>2. Carry(table'[Shell], fd[node], node + 1, failed, limit)
    <3>1. CASE node = 1
      <4>1. t = Inherited /\ ~b
        BY <2>1, <3>1, Zenon DEF Before
      <4>2. Piped(Inherited, table[Shell], fd[1], 1, b, failed, limit)
        BY <2>1, <3>1, <4>1, Zenon
      <4>3. fd[1] \in Fd \X Fd
        BY <1>1, <3>1
      <4>4. Carry(table[Shell], fd[1], 2, failed, limit)
        BY <1>1, <4>1, <4>2, <4>3, FirstPipe
      <4>5. QED
        BY <1>3, <3>1, <4>4
    <3>2. CASE node # 1
      <4>1. node > 1 /\ fd[node] \in Fd \X Fd /\ fd[node - 1] \in Fd \X Fd
        BY <1>1, <1>4, <3>2 DEF Stage
      <4>2. Carry(t, fd[node - 1], node, b, limit)
        BY <2>1, <3>2, Zenon DEF Before
      <4>3. t \in [Fd -> Descriptions]
        BY DEF Tables
      <4>4. Carry(close_pipe_fd(table[Shell], fd[node - 1]), fd[node], node + 1, failed, limit)
        BY <1>1, <2>1, <4>1, <4>2, <4>3, CarryOn
      <4>5. QED
        BY <1>3, <3>2, <4>4
    <3>3. QED
      BY <3>1, <3>2
  <2>3. node' = node + 1 /\ pc' = IF node + 1 < last THEN "pipe" ELSE "fork"
    BY <1>5 DEF CloseBehind
  <2>4. node' <= last /\ node' # 1 /\ node' - 1 = node /\ node' \in Stage
    BY <1>1, <1>5, <2>3 DEF Stage
  <2>5. Carry(table'[Shell], fd'[node' - 1], node', failed', limit')
    BY <1>2, <2>2, <2>3, <2>4
  <2>6. \A n \in Stage : n > node' => fd'[n] = <<0, 0>>
    BY <1>1, <1>2, <2>3 DEF Stage
  <2>7. CASE node + 1 < last
    <3>1. pc' = "pipe" /\ node' < last' /\ fd'[node'] = <<0, 0>>
      BY <1>1, <1>2, <2>3, <2>4, <2>7 DEF Stage
    <3>2. Turned'
      BY <2>4, <2>5, <3>1 DEF Turned, Before
    <3>3. QED
      BY <1>2, <2>4, <2>6, <3>1, <3>2 DEF ShellHas
  <2>8. CASE ~(node + 1 < last)
    <3>1. pc' = "fork" /\ node' = last'
      BY <1>1, <1>2, <2>3, <2>4, <2>8 DEF Stage
    <3>2. Forking'
      BY <2>5, <3>1 DEF Forking
    <3>3. QED
      BY <1>2, <2>4, <2>6, <3>1, <3>2 DEF ShellHas
  <2>9. QED
    BY <2>7, <2>8
<1>6. CASE node = last
  <2>1. Carry(table[Shell], fd[last - 1], last, failed, limit)
    BY <1>1, <1>6 DEF Forking
  <2>2. node > 1 /\ pc' = "wait"
    BY <1>1, <1>6 DEF CloseBehind
  <2>3. table[Shell] \in [Fd -> Descriptions] /\ last \in Stage /\ last > 1 /\ fd[last - 1] \in Fd \X Fd
    BY <1>1, <1>4, <1>6, <2>2 DEF Tables
  <2>4. Left(close_pipe_fd(table[Shell], fd[last - 1]), failed)
    BY <1>1, <2>1, <2>3, LastPipe
  <2>5. Left(table'[Shell], failed')
    BY <1>2, <1>3, <1>6, <2>2, <2>4
  <2>6. QED
    BY <2>2, <2>5 DEF ShellHas
<1>7. QED
  BY <1>1, <1>5, <1>6 DEF Stage

\* ... and for a further line, which is read only if the table is whole.
LEMMA NextLineHas == TypeOK /\ ShellHas /\ NextLine => ShellHas'
<1> SUFFICES ASSUME TypeOK, ShellHas, NextLine
             PROVE  ShellHas'
  OBVIOUS
<1>1. table[Shell] = Inherited
  BY DEF NextLine, ShellHas, Left
<1>2. pc' = "pipe" /\ node' = 1 /\ last' \in 2..NStages /\ 1 \in Stage
  BY LineTyped, Constants DEF NextLine, LineStart, Stage
<1>3. table' = table /\ ~failed' /\ \A n \in Stage : fd'[n] = <<0, 0>>
  BY DEF NextLine, LineStart
<1>4. Turned'
  BY <1>1, <1>2, <1>3 DEF Turned, Before
<1>5. QED
  BY <1>2, <1>3, <1>4 DEF ShellHas

\* Everything ShellHas speaks of, but for where the shell is.
LEMMA HasStays ==
  ASSUME TypeOK, ShellHas,
         UNCHANGED <<limit, last, node, fd, failed>>, table'[Shell] = table[Shell],
         pc' = pc \/ (pc = "fork" /\ pc' = "close")
  PROVE  ShellHas'
BY DEF ShellHas, Turned, Forking

\* So no step breaks it.
LEMMA StepHas == TypeOK /\ ShellHas /\ [Next]_vars => ShellHas'
<1> SUFFICES ASSUME TypeOK, ShellHas, [Next]_vars
             PROVE  ShellHas'
  OBVIOUS
<1>1. CASE MakePipe
  BY <1>1, MakePipeHas
<1>2. CASE Fork
  <2>1. node \in Stage /\ node # Shell
    BY Constants DEF TypeOK
  <2>2. table'[Shell] = table[Shell]
    BY <1>2, <2>1, Constants DEF Fork, TypeOK
  <2>3. QED
    BY <1>2, <2>2, HasStays DEF Fork, line
<1>3. CASE ForkFails \/ EndOfInput
  BY <1>3 DEF ForkFails, EndOfInput, ShellHas
<1>4. CASE CloseBehind
  BY <1>4, CloseBehindHas
<1>5. CASE Wait \/ FreeTree
  <2>1. pc \in {"wait", "done"} /\ pc' \in {"wait", "done", "prompt"} /\ UNCHANGED <<table, failed>>
    BY <1>5 DEF Wait, FreeTree
  <2>2. QED
    BY <2>1 DEF ShellHas
<1>6. CASE NextLine
  BY <1>6, NextLineHas
<1>7. ASSUME NEW n \in Stage, StageStep(n)
      PROVE  ShellHas'
  <2>1. UNCHANGED <<line, pc, node, fd, failed>> /\ table'[Shell] = table[Shell]
    BY <1>7, StageAlone, Constants
  <2>2. QED
    BY <2>1, HasStays DEF line
<1>8. CASE UNCHANGED vars
  BY <1>8, HasStays DEF vars
<1>9. QED
  BY <1>1, <1>2, <1>3, <1>4, <1>5, <1>6, <1>7, <1>8 DEF Next, ShellStep

\* Behind every line, and while the shell waits for its stages, the shell has
\* the descriptors it had before, and none of a pipe; behind a pipe() that
\* failed it has lost its standard input and kept at most one writing end,
\* however many stages the line has and whatever the limit is.
THEOREM ShellRestored == Spec => []ShellTableRestored
<1>1. Init => TypeOK /\ ShellHas
  BY InitTyped, InitHas
<1>2. TypeOK /\ ShellHas /\ [Next]_vars => (TypeOK /\ ShellHas)'
  BY StepTyped, StepHas
<1>3. TypeOK /\ ShellHas => ShellTableRestored
  BY LeftIsRestored
<1>4. QED
  BY <1>1, <1>2, <1>3, PTL DEF Spec
-----------------------------------------------------------------------------
Plain == {None, Terminal, File}

\* Stage n will not get as far as its program: a pipe() next to it failed, or
\* both its pipes came to have the reading end 0.
Doomed(n) ==
  \/ n < last /\ fd[n][1] = fd[n][2]
  \/ n > 1 /\ fd[n - 1][1] = fd[n - 1][2]
  \/ n > 1 /\ n < last /\ fd[n][1] = 0 /\ fd[n - 1][1] = 0

\* The ends of pipes that stage n closes before it runs its program.
Held(n) ==
  {f \in Fd : \/ n < last /\ (f = fd[n][1] \/ f = fd[n][2])
              \/ n > 1 /\ (f = fd[n - 1][1] \/ f = fd[n - 1][2])}

\* They are not its standard output, and its standard input only by mistake.
Sound(n) ==
  /\ 1 \notin Held(n)
  /\ 0 \in Held(n) => failed /\ n > 1
  /\ \A f \in Fd : f > 1 /\ f \notin Held(n) => table[n][f] \in Plain

\* What it is forked with.
Fresh(n) ==
  /\ IF n < last THEN table[n][fd[n][2]] = Wr(n) ELSE table[n][1] = Terminal
  /\ IF n > 1 THEN table[n][fd[n - 1][1]] \in {Rd(n - 1), None} ELSE table[n][0] = Terminal

\* Its standard descriptors, with descriptor r redirected.
Wired(n, r) ==
  /\ table[n][0] = IF r = 0 THEN File ELSE IF n > 1 THEN Rd(n - 1) ELSE Terminal
  /\ table[n][1] = IF r = 1 THEN File ELSE IF n < last THEN Wr(n) ELSE Terminal

\* What its program runs with.
Runs(n) ==
  /\ \/ table[n][0] = IF redir[n] = 0 THEN File ELSE IF n > 1 THEN Rd(n - 1) ELSE Terminal
     \/ failed /\ n > 1 /\ table[n][0] = None
  /\ table[n][1] = IF redir[n] = 1 THEN File ELSE IF n < last THEN Wr(n) ELSE Terminal
  /\ \A f \in Fd : f > 1 => table[n][f] \in Plain

Grown(n) ==
  /\ at[n] = "dup" => Doomed(n) \/ (Sound(n) /\ Fresh(n))
  /\ at[n] = "redirect" => Doomed(n) \/ (Sound(n) /\ Wired(n, NoRedirect))
  /\ at[n] = "close" => Doomed(n) \/ (Sound(n) /\ Wired(n, redir[n]))
  /\ at[n] = "run" => Runs(n)

\* The stages there are no processes for.
Unborn ==
  /\ pc \in {"pipe", "fork"} => \A n \in Stage : n >= node => at[n] = "none"
  /\ pc = "close" => \A n \in Stage : n > node => at[n] = "none"
  /\ \A n \in Stage : n > last => at[n] = "none"

Stages == Unborn /\ \A n \in Stage : Grown(n)

\* A stage that gets past closing a pipe had both its ends, and has neither.
LEMMA CloseWorks ==
  ASSUME NEW t \in Tables, NEW p \in Fd \X Fd, ~close_fails(t, p)
  PROVE  /\ p[1] # p[2] /\ t[p[1]] # None
         /\ \A f \in Fd : close_pipe_fd(t, p)[f] = IF f = p[1] \/ f = p[2] THEN None ELSE t[f]
BY DEF close_fails, close_pipe_fd, Tables

\* A redirection changes one standard descriptor, and leaves no pipe where none was.
LEMMA RedirectWorks ==
  ASSUME NEW t \in Tables, NEW r \in Fd, limit \in 4..NFds, Free(t) # {},
         t[0] # None, t[1] # None
  PROVE  /\ \A f \in Fd : prepare_redirect(t, r)[f] \in {t[f], File, None}
         /\ prepare_redirect(t, r)[0] = IF r = 0 THEN File ELSE t[0]
         /\ prepare_redirect(t, r)[1] = IF r = 1 THEN File ELSE t[1]
<1> DEFINE m == Min(Free(t))
<1>1. Free(t) \in SUBSET Nat
  BY DEF Free
<1>2. m \in Free(t)
  BY <1>1, Least
<1>3. m \in Fd /\ t[m] = None /\ 0 \in Fd /\ 1 \in Fd
  BY <1>2, Constants DEF Free, Fd
<1>4. m # 0 /\ m # 1
  BY <1>3
<1> HIDE DEF m
<1>5. prepare_redirect(t, r) = LET u == [t EXCEPT ![m] = File, ![r] = File]
                               IN  IF m > 2 /\ r # STDIN THEN [u EXCEPT ![m] = None] ELSE u
  BY DEF prepare_redirect, m
<1>6. QED
  BY <1>3, <1>4, <1>5 DEF Tables

\* The table s that stage k is forked with, p and q its two pipes.
Endowed(s, k, p, q, c) ==
  /\ q[1] # 1 /\ q[2] > 1 /\ (q[1] = 0 => c /\ k > 1) /\ s[q[2]] = Wr(k)
  /\ k = 1 => s[0] = Terminal
  /\ k > 1 => p[1] # 1 /\ p[2] > 1 /\ (p[1] = 0 => c) /\ s[p[1]] \in {Rd(k - 1), None}
  /\ \A f \in Fd : f > 1 /\ f # q[1] /\ f # q[2] /\ (k > 1 => f # p[1] /\ f # p[2])
                     => s[f] \in Plain

\* When there is a pipe behind it ...
LEMMA Born ==
  ASSUME NEW t \in Tables, NEW s, NEW k \in Stage, NEW p, NEW q \in Fd \X Fd,
         NEW b \in BOOLEAN, NEW c \in BOOLEAN, NEW lim \in 4..NFds,
         k > 1 => p \in Fd \X Fd,
         Before(t, p, k, b, lim), Piped(t, s, q, k, b, c, lim),
         q[1] # q[2], k > 1 => p[1] # p[2] /\ ~(q[1] = 0 /\ p[1] = 0)
  PROVE  Endowed(s, k, p, q, c)
<1> SUFFICES /\ q[1] # 1 /\ q[2] > 1 /\ (q[1] = 0 => c /\ k > 1) /\ s[q[2]] = Wr(k)
             /\ k = 1 => s[0] = Terminal
             /\ k > 1 => p[1] # 1 /\ p[2] > 1 /\ (p[1] = 0 => c) /\ s[p[1]] \in {Rd(k - 1), None}
             /\ \A f \in Fd : f > 1 /\ f # q[1] /\ f # q[2] /\ (k > 1 => f # p[1] /\ f # p[2])
                                => s[f] \in Plain
  BY DEF Endowed
<1>1. /\ q[1] \in FreeIn(t, lim) /\ q[2] \in FreeIn(t, lim) /\ q[1] < q[2]
      /\ s = [t EXCEPT ![q[1]] = Rd(k), ![q[2]] = Wr(k)] /\ c = b
      /\ \A f \in FreeIn(t, lim) : q[1] <= f
  BY DEF Piped
<1>2. t[q[1]] = None /\ t[q[2]] = None /\ q[1] \in Fd /\ q[2] \in Fd
  BY <1>1 DEF FreeIn
<1>3. 0 \in Fd /\ 1 \in Fd /\ 2 \in Fd
  BY Constants DEF Fd
<1>4. \A f \in Fd : s[f] = IF f = q[2] THEN Wr(k) ELSE IF f = q[1] THEN Rd(k) ELSE t[f]
  BY <1>1, <1>2 DEF Tables
<1>5. t[1] = Terminal /\ t[2] = Terminal
  <2>1. Inherited[1] = Terminal /\ Inherited[2] = Terminal
    BY <1>3 DEF Inherited
  <2>2. QED
    BY <2>1, Zenon DEF Before, Carry
<1>6. q[1] # 1 /\ q[2] > 1 /\ q[2] > 2 /\ s[q[2]] = Wr(k)
  <2>1. q[1] # 1 /\ q[2] # 1 /\ q[2] # 2
    BY <1>2, <1>5, Descriptors
  <2>2. q[1] \in Nat /\ q[2] > q[1] /\ q[2] \in Nat
    BY <1>1, <1>2 DEF Fd
  <2>3. q[2] > 2
    BY <2>1, <2>2
  <2>4. QED
    BY <1>2, <1>4, <2>1, <2>2, <2>3
<1>7. CASE k = 1
  <2>1. t = Inherited
    BY <1>7 DEF Before
  <2>2. q[1] # 0 /\ s[0] = Terminal
    BY <1>2, <1>3, <1>4, <1>6, <2>1, Descriptors DEF Inherited
  <2>3. \A f \in Fd : t[f] \in Plain
    BY <2>1 DEF Inherited, Plain
  <2>4. QED
    BY <1>4, <1>6, <1>7, <2>2, <2>3
<1>8. CASE k # 1
  <2>1. Carry(t, p, k, b, lim) /\ k > 1 /\ p \in Fd \X Fd /\ p[1] # p[2]
    BY <1>8 DEF Before, Stage
  <2>2. CASE p[1] > 2
    <3>1. /\ p[2] > 2 /\ t[p[1]] = Rd(k - 1) /\ (t[0] # Terminal => b)
          /\ \A f \in Fd : f > 2 /\ f # p[1] /\ f # p[2] => t[f] = None
      BY <2>1, <2>2 DEF Carry
    <3>2. p[1] # q[1] /\ p[1] # q[2] /\ s[p[1]] = Rd(k - 1)
      BY <1>2, <1>4, <2>1, <3>1, Descriptors
    <3>3. q[1] = 0 => c
      BY <1>1, <1>2, <3>1, Descriptors
    <3>4. \A f \in Fd : f > 1 /\ f # q[1] /\ f # q[2] /\ f # p[1] /\ f # p[2] => s[f] \in Plain
      BY <1>4, <1>5, <3>1 DEF Fd, Plain
    <3>5. p[1] # 1 /\ p[1] # 0 /\ p[2] > 1
      BY <2>1, <2>2, <3>1 DEF Fd
    <3>6. s[p[1]] \in {Rd(k - 1), None}
      BY <3>2
    <3>7. QED
      BY <1>6, <1>8, <2>1, <3>3, <3>4, <3>5, <3>6, Zenon
  <2>3. CASE p[1] = 0 /\ p[2] > 2
    <3>1. /\ t[0] \in {Rd(k - 1), None} /\ (t[0] # Terminal => b)
          /\ \A f \in Fd : f > 2 /\ f # p[2] => t[f] = None
      BY <2>1, <2>3 DEF Carry
    <3>2. c /\ q[1] # 0 /\ q[2] # 0
      BY <1>1, <1>6, <2>1, <2>3, <3>1, Descriptors
    <3>3. s[p[1]] \in {Rd(k - 1), None}
      BY <1>3, <1>4, <2>3, <3>1, <3>2
    <3>4. \A f \in Fd : f > 1 /\ f # q[1] /\ f # q[2] /\ f # p[1] /\ f # p[2] => s[f] \in Plain
      BY <1>4, <1>5, <3>1 DEF Fd, Plain
    <3>5. p[1] # 1 /\ p[2] > 1
      BY <2>1, <2>3 DEF Fd
    <3>6. QED
      BY <1>6, <1>8, <2>1, <3>2, <3>3, <3>4, <3>5, Zenon
  <2>4. QED
    BY <2>1, <2>2, <2>3 DEF Carry
<1>9. QED
  BY <1>7, <1>8

\* ... and when there is none.
LEMMA BornLast ==
  ASSUME NEW s \in Tables, NEW k \in Stage, k > 1, NEW p \in Fd \X Fd,
         NEW b \in BOOLEAN, NEW lim \in 4..NFds,
         Carry(s, p, k, b, lim), p[1] # p[2]
  PROVE  /\ s[1] = Terminal /\ p[1] # 1 /\ p[2] > 1 /\ (p[1] = 0 => b)
         /\ s[p[1]] \in {Rd(k - 1), None}
         /\ \A f \in Fd : f > 1 /\ f # p[1] /\ f # p[2] => s[f] \in Plain
<1>1. /\ s[1] = Terminal /\ s[2] = Terminal /\ (s[0] # Terminal => b)
      /\ \/ /\ p[1] > 2 /\ p[2] > 2 /\ s[p[1]] = Rd(k - 1)
            /\ \A f \in Fd : f > 2 /\ f # p[1] /\ f # p[2] => s[f] = None
         \/ /\ p[1] = 0 /\ p[2] > 2 /\ s[0] \in {Rd(k - 1), None}
            /\ \A f \in Fd : f > 2 /\ f # p[2] => s[f] = None
  BY DEF Carry
<1>2. p[1] # 1 /\ p[2] > 1 /\ s[p[1]] \in {Rd(k - 1), None}
  <2>1. CASE p[1] > 2 /\ p[2] > 2 /\ s[p[1]] = Rd(k - 1)
    BY <2>1 DEF Fd
  <2>2. CASE p[1] = 0 /\ p[2] > 2 /\ s[0] \in {Rd(k - 1), None}
    BY <2>2 DEF Fd
  <2>3. QED
    BY <1>1, <2>1, <2>2
<1>3. p[1] = 0 => b
  BY <1>1, Descriptors
<1>4. \A f \in Fd : f > 1 /\ f # p[1] /\ f # p[2] => s[f] \in Plain
  BY <1>1 DEF Fd, Plain
<1>5. QED
  BY <1>1, <1>2, <1>3, <1>4
-----------------------------------------------------------------------------
\* A stage is not affected by what leaves its own process and pipes alone.
LEMMA GrownStays ==
  ASSUME NEW n \in Stage, Grown(n), at'[n] = at[n], table'[n] = table[n],
         redir'[n] = redir[n], last' = last,
         n < last => fd'[n] = fd[n], n > 1 => fd'[n - 1] = fd[n - 1],
         failed => failed'
  PROVE  Grown(n)'
<1>1. Doomed(n)' <=> Doomed(n)
  BY DEF Doomed
<1>2. Held(n)' = Held(n)
  BY DEF Held
<1>3. Sound(n) => Sound(n)'
  BY <1>2 DEF Sound
<1>4. Fresh(n) => Fresh(n)'
  BY DEF Fresh
<1>5. (Wired(n, NoRedirect) => Wired(n, NoRedirect)') /\ (Wired(n, redir[n]) => Wired(n, redir[n])')
  BY DEF Wired
<1>6. Runs(n) => Runs(n)'
  BY DEF Runs
<1>7. QED
  BY <1>1, <1>3, <1>4, <1>5, <1>6 DEF Grown

\* A stage is forked with its two pipes, or is doomed.
LEMMA ForkGrows ==
  ASSUME TypeOK, ShellHas, Fork
  PROVE  Grown(node)'
<1>1. /\ node \in Stage /\ last \in 2..NStages /\ limit \in 4..NFds /\ failed \in BOOLEAN
      /\ table[Shell] \in Tables /\ fd \in [Stage -> Fd \X Fd]
      /\ Forking /\ node <= last
  BY Constants DEF TypeOK, ShellHas, Tables, Fork
<1>2. UNCHANGED <<node, last, fd, failed>> /\ at'[node] = "dup" /\ table'[node] = table[Shell]
  BY <1>1, Constants DEF Fork, line, TypeOK
<1>3. node > 1 => node - 1 \in Stage /\ fd[node - 1] \in Fd \X Fd
  BY <1>1, Constants DEF Stage
<1>4. fd[node] \in Fd \X Fd /\ 0 \in Fd /\ 1 \in Fd
  BY <1>1, Constants DEF Fd
<1> DEFINE p == fd[node - 1]
           q == fd[node]
           s == table[Shell]
<1>5. SUFFICES ASSUME ~Doomed(node)
               PROVE  Sound(node)' /\ Fresh(node)'
  BY <1>2 DEF Grown, Doomed
<1>6. CASE node < last
  <2>1. PICK t \in Tables, b \in BOOLEAN :
          /\ Before(t, p, node, b, limit) /\ Piped(t, s, q, node, b, failed, limit)
    BY <1>1, <1>6 DEF Forking
  <2>2. q[1] # q[2] /\ (node > 1 => p[1] # p[2] /\ ~(q[1] = 0 /\ p[1] = 0))
    BY <1>5, <1>6 DEF Doomed
  <2>3. node > 1 => p \in Fd \X Fd
    BY <1>3
  <2> HIDE DEF p, q, s
  <2>4. q \in Fd \X Fd
    BY <1>4 DEF q
  <2>5. Endowed(s, node, p, q, failed)
    BY <1>1, <2>1, <2>2, <2>3, <2>4, Born
  <2>6. Held(node)' = {f \in Fd : f = q[1] \/ f = q[2] \/ (node > 1 /\ (f = p[1] \/ f = p[2]))}
    BY <1>2, <1>6 DEF Held, p, q, Fork
  <2>7. node' = node
    BY DEF Fork
  <2>8. Sound(node)'
    <3>1. 1 \notin Held(node)'
      BY <2>3, <2>4, <2>5, <2>6 DEF Fd, Endowed
    <3>2. 0 \in Held(node)' => failed /\ node > 1
      BY <2>3, <2>4, <2>5, <2>6 DEF Fd, Endowed
    <3>3. \A f \in Fd : f > 1 /\ f \notin Held(node)' => table'[node][f] \in Plain
      BY <1>2, <2>5, <2>6 DEF s, Endowed
    <3>4. QED
      BY <1>2, <2>7, <3>1, <3>2, <3>3 DEF Sound
  <2>9. Fresh(node)'
    BY <1>1, <1>2, <1>6, <2>5, <2>7 DEF Fresh, p, q, s, Stage, Endowed
  <2>10. QED
    BY <2>8, <2>9
<1>7. CASE node = last
  <2>1. Carry(s, p, node, failed, limit) /\ node > 1
    BY <1>1, <1>7 DEF Forking
  <2>2. p[1] # p[2] /\ p \in Fd \X Fd
    BY <1>3, <1>5, <2>1 DEF Doomed
  <2> HIDE DEF p, q, s
  <2>3. /\ s[1] = Terminal /\ p[1] # 1 /\ p[2] > 1 /\ (p[1] = 0 => failed)
        /\ s[p[1]] \in {Rd(node - 1), None}
        /\ \A f \in Fd : f > 1 /\ f # p[1] /\ f # p[2] => s[f] \in Plain
    BY <1>1, <2>1, <2>2, BornLast DEF s
  <2>4. Held(node)' = {f \in Fd : f = p[1] \/ f = p[2]} /\ node' = node
    BY <1>1, <1>2, <1>7, <2>1 DEF Held, p, Fork
  <2>5. Sound(node)'
    <3>1. 1 \notin Held(node)'
      BY <2>2, <2>3, <2>4 DEF Fd
    <3>2. 0 \in Held(node)' => failed /\ node > 1
      BY <2>1, <2>2, <2>3, <2>4 DEF Fd
    <3>3. \A f \in Fd : f > 1 /\ f \notin Held(node)' => table'[node][f] \in Plain
      BY <1>2, <2>3, <2>4 DEF s
    <3>4. QED
      BY <1>2, <2>4, <3>1, <3>2, <3>3 DEF Sound
  <2>6. Fresh(node)'
    BY <1>1, <1>2, <1>7, <2>1, <2>3, <2>4 DEF Fresh, p, s
  <2>7. QED
    BY <2>5, <2>6
<1>8. QED
  BY <1>1, <1>6, <1>7 DEF Stage

\* The two dup2() put its ends where its program looks for them.
LEMMA DupGrows ==
  ASSUME TypeOK, NEW n \in Stage, n <= last, Grown(n), DupEnds(n)
  PROVE  Grown(n)'
<1>1. UNCHANGED <<redir, last, fd, failed>> /\ at[n] = "dup"
  BY DEF DupEnds, line
<1>2. table[n] \in Tables /\ n \in 0..NStages /\ fd \in [Stage -> Fd \X Fd] /\ last \in Nat
      /\ 0 \in Fd /\ 1 \in Fd
  BY Constants DEF TypeOK, Tables, Fd
<1>3. CASE Ends(n)
  BY <1>2, <1>3 DEF Ends, Grown, TypeOK
<1>4. CASE ~Ends(n)
  <2> DEFINE t   == table[n]
             out == IF n < last THEN fd[n][2] ELSE STDOUT
             in  == IF n > 1 THEN fd[n - 1][1] ELSE STDIN
             u   == [t EXCEPT ![STDOUT] = t[out]]
             v   == [u EXCEPT ![STDIN] = u[in]]
  <2>1. Goes(n, v, "redirect") /\ t[out] # None /\ u[in] # None
    BY <1>4 DEF DupEnds
  <2>2. table'[n] = v /\ at'[n] = "redirect"
    BY <1>2, <2>1 DEF Goes, TypeOK
  <2>3. SUFFICES ASSUME ~Doomed(n)
                 PROVE  Sound(n)' /\ Wired(n, NoRedirect)'
    <3>1. Doomed(n)' <=> Doomed(n)
      BY <1>1 DEF Doomed
    <3>2. QED
      BY <2>2, <2>3, <3>1 DEF Grown
  <2>4. Sound(n) /\ Fresh(n)
    BY <1>1, <2>3 DEF Grown
  <2>5. out \in Fd /\ in \in Fd
    <3>1. n > 1 => n - 1 \in Stage
      BY Constants DEF Stage
    <3>2. (n > 1 => fd[n - 1] \in Fd \X Fd) /\ fd[n] \in Fd \X Fd
      BY <1>2, <3>1
    <3>3. QED
      BY <1>2, <3>2 DEF STDOUT, STDIN
  <2>6. in # 1
    BY <2>4, <2>5 DEF Sound, Held, STDIN
  <2>7. u[1] = t[out] /\ u[in] = t[in] /\ \A f \in Fd : f > 1 => u[f] = t[f]
    BY <1>2, <2>5, <2>6 DEF Tables, STDOUT
  <2>8. u \in [Fd -> {t[f] : f \in Fd}]
    BY <1>2, <2>5 DEF Tables
  <2>9. v[0] = t[in] /\ v[1] = t[out] /\ \A f \in Fd : f > 1 => v[f] = t[f]
    BY <1>2, <2>7, <2>8 DEF STDIN
  <2>10. t[out] = IF n < last THEN Wr(n) ELSE Terminal
    BY <2>4 DEF Fresh, STDOUT
  <2>11. t[in] = IF n > 1 THEN Rd(n - 1) ELSE Terminal
    BY <2>1, <2>4, <2>7 DEF Fresh, STDIN
  <2> HIDE DEF t, u, v, out, in
  <2>12. Held(n)' = Held(n)
    BY <1>1 DEF Held
  <2>13. Sound(n)'
    BY <1>1, <2>2, <2>4, <2>9, <2>12 DEF Sound, t
  <2>14. NoRedirect # 0 /\ NoRedirect # 1
    BY Constants DEF NoRedirect, TypeOK
  <2>15. Wired(n, NoRedirect)'
    BY <1>1, <2>2, <2>9, <2>10, <2>11, <2>14 DEF Wired, NoRedirect
  <2>16. QED
    BY <2>13, <2>15
<1>5. QED
  BY <1>3, <1>4

\* The redirections replace them.
LEMMA RedirectGrows ==
  ASSUME TypeOK, NEW n \in Stage, Grown(n), Redirect(n)
  PROVE  Grown(n)'
<1>1. UNCHANGED <<redir, last, fd, failed>> /\ at[n] = "redirect"
  BY DEF Redirect, line
<1>2. table[n] \in Tables /\ n \in 0..NStages /\ redir[n] \in 0..NFds /\ limit \in 4..NFds
  BY Constants DEF TypeOK, Tables
<1>3. CASE Ends(n)
  BY <1>2, <1>3 DEF Ends, Grown, TypeOK
<1>4. CASE ~Ends(n)
  <2>1. \/ redir[n] = NoRedirect /\ Goes(n, table[n], "close")
        \/ /\ redir[n] < limit /\ Free(table[n]) # {}
           /\ Goes(n, prepare_redirect(table[n], redir[n]), "close")
    BY <1>4 DEF Redirect
  <2>2. at'[n] = "close"
    BY <1>2, <2>1 DEF Goes, TypeOK
  <2>3. SUFFICES ASSUME ~Doomed(n)
                 PROVE  Sound(n)' /\ Wired(n, redir[n])'
    <3>1. Doomed(n)' <=> Doomed(n)
      BY <1>1 DEF Doomed
    <3>2. QED
      BY <1>1, <2>2, <2>3, <3>1 DEF Grown
  <2>4. Sound(n) /\ Wired(n, NoRedirect) /\ Held(n)' = Held(n)
    BY <1>1, <2>3 DEF Grown, Held
  <2>5. CASE redir[n] = NoRedirect /\ Goes(n, table[n], "close")
    <3>1. table'[n] = table[n]
      BY <1>2, <2>5 DEF Goes, TypeOK
    <3>2. QED
      BY <1>1, <2>4, <2>5, <3>1 DEF Sound, Wired
  <2>6. CASE /\ redir[n] < limit /\ Free(table[n]) # {}
             /\ Goes(n, prepare_redirect(table[n], redir[n]), "close")
    <3>1. table'[n] = prepare_redirect(table[n], redir[n])
      BY <1>2, <2>6 DEF Goes, TypeOK
    <3>2. NoRedirect # 0 /\ NoRedirect # 1 /\ redir[n] \in Fd
      BY <1>2, <2>6, Constants DEF NoRedirect, Fd
    <3>3. /\ table[n][0] = IF n > 1 THEN Rd(n - 1) ELSE Terminal
          /\ table[n][1] = IF n < last THEN Wr(n) ELSE Terminal
      BY <2>4, <3>2 DEF Wired
    <3>4. table[n][0] # None /\ table[n][1] # None
      BY <3>3, Descriptors
    <3>5. /\ \A f \in Fd : table'[n][f] \in {table[n][f], File, None}
          /\ table'[n][0] = IF redir[n] = 0 THEN File ELSE table[n][0]
          /\ table'[n][1] = IF redir[n] = 1 THEN File ELSE table[n][1]
      BY <1>2, <2>6, <3>1, <3>2, <3>4, RedirectWorks
    <3>6. Wired(n, redir[n])'
      BY <1>1, <3>3, <3>5 DEF Wired
    <3>7. Sound(n)'
      BY <1>1, <2>4, <3>5 DEF Sound, Plain
    <3>8. QED
      BY <3>6, <3>7
  <2>7. QED
    BY <2>1, <2>5, <2>6
<1>5. QED
  BY <1>3, <1>4

\* Closing the ends it holds leaves nothing else, and never gets past a doomed stage.
LEMMA CloseGrows ==
  ASSUME TypeOK, NEW n \in Stage, n <= last, Grown(n), CloseEnds(n)
  PROVE  Grown(n)' /\ (Doomed(n) => Ends(n))
<1>1. UNCHANGED <<redir, last, fd, failed>> /\ at[n] = "close"
  BY DEF CloseEnds, line
<1>2. table[n] \in Tables /\ n \in 0..NStages /\ fd \in [Stage -> Fd \X Fd] /\ 0 \in Fd /\ 1 \in Fd
  BY Constants DEF TypeOK, Tables, Fd
<1>3. CASE Ends(n)
  BY <1>2, <1>3 DEF Ends, Grown, TypeOK
<1>4. CASE ~Ends(n)
  <2> DEFINE t == table[n]
             q == fd[n]
             p == fd[n - 1]
             u == IF n < last THEN close_pipe_fd(t, q) ELSE t
             v == IF n > 1 THEN close_pipe_fd(u, p) ELSE u
  <2>1. /\ Goes(n, v, "run")
        /\ n < last => ~close_fails(t, q)
        /\ n > 1 => ~close_fails(u, p)
    BY <1>4 DEF CloseEnds
  <2>2. table'[n] = v /\ at'[n] = "run"
    BY <1>2, <2>1 DEF Goes, TypeOK
  <2>3. fd[n] \in Fd \X Fd /\ (n > 1 => n - 1 \in Stage /\ fd[n - 1] \in Fd \X Fd)
    BY <1>2, Constants DEF Stage
  <2>4. n < last => q[1] # q[2] /\ t[q[1]] # None
                    /\ \A f \in Fd : u[f] = IF f = q[1] \/ f = q[2] THEN None ELSE t[f]
    BY <1>2, <2>1, <2>3, CloseWorks
  <2>5. u \in Tables
    BY <1>2, ClosePipe
  <2> HIDE DEF u
  <2>6. n > 1 => p[1] # p[2] /\ u[p[1]] # None
                 /\ \A f \in Fd : v[f] = IF f = p[1] \/ f = p[2] THEN None ELSE u[f]
    BY <2>1, <2>3, <2>5, CloseWorks
  <2>7. ~(n < last) => u = t
    BY DEF u
  <2>8. ~(n > 1) => v = u
    OBVIOUS
  <2>9. ~Doomed(n)
    BY <1>2, <2>3, <2>4, <2>6 DEF Doomed
  <2>10. Sound(n) /\ Wired(n, redir[n])
    BY <1>1, <2>9 DEF Grown
  <2> HIDE DEF v
  <2>11. \A f \in Fd : v[f] = IF f \in Held(n) THEN None ELSE t[f]
    <3>1. \A f \in Fd : u[f] = IF n < last /\ (f = q[1] \/ f = q[2]) THEN None ELSE t[f]
      BY <2>4, <2>7
    <3>2. \A f \in Fd : v[f] = IF n > 1 /\ (f = p[1] \/ f = p[2]) THEN None ELSE u[f]
      BY <2>6, <2>8
    <3>3. QED
      BY <3>1, <3>2 DEF Held
  <2>12. v[1] = t[1] /\ (v[0] = t[0] \/ (failed /\ n > 1 /\ v[0] = None))
    BY <1>2, <2>10, <2>11 DEF Sound
  <2>13. \A f \in Fd : f > 1 => v[f] \in Plain
    BY <2>10, <2>11 DEF Sound, Plain
  <2>14. Runs(n)'
    BY <1>1, <2>2, <2>10, <2>12, <2>13 DEF Runs, Wired
  <2>15. QED
    BY <2>2, <2>9, <2>14 DEF Grown
<1>5. QED
  BY <1>3, <1>4

\* Running, a stage changes its descriptors only by ending.
LEMMA StageGrows ==
  ASSUME TypeOK, NEW n \in Stage, n <= last, Grown(n), StageStep(n)
  PROVE  Grown(n)'
<1>1. CASE DupEnds(n)
  BY <1>1, DupGrows
<1>2. CASE Redirect(n)
  BY <1>2, RedirectGrows
<1>3. CASE CloseEnds(n)
  BY <1>3, CloseGrows
<1>4. CASE ReadItem(n) \/ WriteItem(n)
  <2>1. UNCHANGED <<table, at>>
    BY <1>4 DEF ReadItem, WriteItem
  <2>2. UNCHANGED <<line, pc, node, fd, failed>>
    BY StageAlone
  <2>3. QED
    BY <2>1, <2>2, GrownStays DEF line
<1>5. CASE ReadEnd(n) \/ WriteBroken(n) \/ Finish(n)
  <2>1. Ends(n)
    BY <1>5 DEF ReadEnd, WriteBroken, Finish
  <2>2. at'[n] = "zombie"
    BY <2>1 DEF Ends, TypeOK
  <2>3. QED
    BY <2>2 DEF Grown
<1>6. QED
  BY <1>1, <1>2, <1>3, <1>4, <1>5 DEF StageStep

\* No stage has a process when the first line starts.
LEMMA InitStages == Init => Stages
BY Constants DEF Init, Stages, Unborn, Grown

\* No step of the shell or of a stage disturbs another stage.
LEMMA StepStages == TypeOK /\ ShellHas /\ Stages /\ [Next]_vars => Stages'
<1> SUFFICES ASSUME TypeOK, ShellHas, Stages, [Next]_vars
             PROVE  Stages'
  OBVIOUS
<1>1. /\ node \in Stage /\ last \in 2..NStages /\ fd \in [Stage -> Fd \X Fd]
      /\ at \in [Stage -> Places] /\ table \in [0..NStages -> Tables]
      /\ pc \in {"pipe", "fork", "close"} => node <= last
      /\ Unborn /\ \A n \in Stage : Grown(n)
      /\ Stage \subseteq Nat /\ NStages \in Nat
  BY Constants DEF TypeOK, ShellHas, Stages, Tables, Places, Stage
<1>2. CASE MakePipe
  <2>1. /\ pc = "pipe" /\ pc' = "fork" /\ UNCHANGED <<line, node, at, io>>
        /\ \A m \in Stage : m # node => fd'[m] = fd[m]
        /\ \A n \in Stage : table'[n] = table[n]
        /\ failed => failed'
    BY <1>1, <1>2, Constants DEF MakePipe
  <2>2. Unborn'
    BY <1>1, <2>1 DEF Unborn, line
  <2>3. ASSUME NEW n \in Stage
        PROVE  Grown(n)'
    <3>1. CASE n >= node
      <4>1. at'[n] = "none"
        BY <1>1, <2>1, <3>1 DEF Unborn
      <4>2. QED
        BY <4>1 DEF Grown
    <3>2. CASE n < node
      <4>1. fd'[n] = fd[n] /\ (n > 1 => fd'[n - 1] = fd[n - 1])
        BY <1>1, <2>1, <3>2 DEF Stage
      <4>2. QED
        BY <1>1, <2>1, <4>1, GrownStays DEF line
    <3>3. QED
      BY <1>1, <3>1, <3>2
  <2>4. QED
    BY <2>2, <2>3 DEF Stages
<1>3. CASE Fork
  <2>1. /\ pc = "fork" /\ pc' = "close" /\ UNCHANGED <<line, node, fd, io, failed>>
        /\ \A n \in Stage : n # node => table'[n] = table[n] /\ at'[n] = at[n]
    BY <1>1, <1>3, Constants DEF Fork
  <2>2. Unborn'
    BY <1>1, <2>1 DEF Unborn, line
  <2>3. ASSUME NEW n \in Stage
        PROVE  Grown(n)'
    <3>1. CASE n = node
      <4>1. Grown(node)'
        BY <1>3, ForkGrows
      <4>2. QED
        BY <2>1, <3>1, <4>1
    <3>2. CASE n # node
      BY <1>1, <2>1, <3>2, GrownStays DEF line
    <3>3. QED
      BY <3>1, <3>2
  <2>4. QED
    BY <2>2, <2>3 DEF Stages
<1>4. CASE ForkFails \/ CloseBehind \/ EndOfInput
  <2>1. /\ UNCHANGED <<line, fd, at, io, failed>>
        /\ \A n \in Stage : table'[n] = table[n]
    BY <1>1, <1>4, Constants DEF ForkFails, CloseBehind, EndOfInput
  <2>2. Unborn'
    <3>1. \/ pc' = "exited"
          \/ pc' = "wait"
          \/ pc = "close" /\ pc' \in {"pipe", "fork"} /\ node' = node + 1
      BY <1>4 DEF ForkFails, CloseBehind, EndOfInput
    <3>2. \A n \in Stage : n >= node + 1 => n > node
      BY <1>1
    <3>3. QED
      BY <1>1, <2>1, <3>1, <3>2 DEF Unborn, line
  <2>3. \A n \in Stage : Grown(n)'
    BY <1>1, <2>1, GrownStays DEF line
  <2>4. QED
    BY <2>2, <2>3 DEF Stages
<1>5. CASE Wait
  <2>1. /\ pc = "wait" /\ pc' \in {"wait", "done"} /\ UNCHANGED <<line, fd, table, io, failed>>
        /\ at[node] = "zombie" /\ at'[node] = "reaped"
        /\ \A n \in Stage : n # node => at'[n] = at[n]
    BY <1>1, <1>5 DEF Wait
  <2>2. Unborn'
    BY <1>1, <2>1 DEF Unborn, line
  <2>3. ASSUME NEW n \in Stage
        PROVE  Grown(n)'
    <3>1. CASE n = node
      BY <2>1, <3>1 DEF Grown
    <3>2. CASE n # node
      BY <1>1, <2>1, <3>2, GrownStays DEF line
    <3>3. QED
      BY <3>1, <3>2
  <2>4. QED
    BY <2>2, <2>3 DEF Stages
<1>6. CASE FreeTree \/ NextLine
  <2>1. \A n \in Stage : at'[n] = "none"
    BY <1>6 DEF FreeTree, NextLine, LineStart
  <2>2. QED
    BY <2>1 DEF Stages, Unborn, Grown
<1>7. ASSUME NEW n \in Stage, StageStep(n)
      PROVE  Stages'
  <2>1. /\ UNCHANGED <<line, pc, node, fd, failed>>
        /\ \A m \in Stage : m # n => table'[m] = table[m] /\ at'[m] = at[m]
    BY <1>7, StageAlone, Constants
  <2>2. at[n] # "none"
    BY <1>7 DEF StageStep, DupEnds, Redirect, CloseEnds, ReadItem, ReadEnd, WriteItem,
                WriteBroken, Finish, Reads, Writes
  <2>3. n <= last
    BY <1>1, <2>2 DEF Unborn
  <2>4. Unborn'
    BY <1>1, <2>1, <2>2 DEF Unborn, line
  <2>5. Grown(n)'
    BY <1>1, <1>7, <2>3, StageGrows
  <2>6. \A m \in Stage : m # n => Grown(m)'
    BY <1>1, <2>1, GrownStays DEF line
  <2>7. QED
    BY <2>4, <2>5, <2>6 DEF Stages
<1>8. CASE UNCHANGED vars
  <2>1. Unborn'
    BY <1>1, <1>8 DEF Unborn, vars
  <2>2. \A n \in Stage : Grown(n)'
    BY <1>1, <1>8, GrownStays DEF vars
  <2>3. QED
    BY <2>1, <2>2 DEF Stages
<1>9. QED
  BY <1>2, <1>3, <1>4, <1>5, <1>6, <1>7, <1>8 DEF Next, ShellStep

\* What a program runs with is what it is to run with.
LEMMA RunsWired == TypeOK /\ Stages => StagesWired
<1> SUFFICES ASSUME TypeOK, Stages, NEW n \in Stage, at[n] = "run"
             PROVE  /\ \/ table[n][STDIN] = CASE redir[n] = STDIN -> File
                                              [] redir[n] # STDIN /\ n > 1 -> Rd(n - 1)
                                              [] redir[n] # STDIN /\ n = 1 -> Terminal
                       \/ failed /\ n > 1 /\ table[n][STDIN] = None
                    /\ table[n][STDOUT] = CASE redir[n] = STDOUT -> File
                                            [] redir[n] # STDOUT /\ n < last -> Wr(n)
                                            [] redir[n] # STDOUT /\ n = last -> Terminal
                    /\ \A f \in Fd \ {STDIN, STDOUT} : table[n][f] \in {None, Terminal, File}
  BY DEF StagesWired
<1>1. Runs(n) /\ n <= last
  BY Constants DEF Stages, Unborn, Grown, TypeOK, Stage
<1>2. (n > 1 \/ n = 1) /\ (n < last \/ n = last)
  BY <1>1, Constants DEF TypeOK, Stage
<1>3. QED
  <2>1. \/ table[n][STDIN] = CASE redir[n] = STDIN -> File
                               [] redir[n] # STDIN /\ n > 1 -> Rd(n - 1)
                               [] redir[n] # STDIN /\ n = 1 -> Terminal
        \/ failed /\ n > 1 /\ table[n][STDIN] = None
    BY <1>1, <1>2 DEF Runs, STDIN
  <2>2. table[n][STDOUT] = CASE redir[n] = STDOUT -> File
                             [] redir[n] # STDOUT /\ n < last -> Wr(n)
                             [] redir[n] # STDOUT /\ n = last -> Terminal
    BY <1>1, <1>2, Constants DEF Runs, STDOUT, TypeOK
  <2>3. \A f \in Fd \ {STDIN, STDOUT} : table[n][f] \in {None, Terminal, File}
    BY <1>1, Constants DEF Runs, Plain, Fd, STDIN, STDOUT
  <2>4. QED
    BY <2>1, <2>2, <2>3

\* A program of a pipeline runs with its own ends of its own two pipes, or with
\* what it was redirected to, and with no other end of any pipe, for pipelines
\* and descriptor limits of any size, and if a pipe() fails never with a wrong
\* one.
THEOREM StagesAreWired == Spec => []StagesWired
<1>1. Init => TypeOK /\ ShellHas /\ Stages
  BY InitTyped, InitHas, InitStages
<1>2. TypeOK /\ ShellHas /\ Stages /\ [Next]_vars => (TypeOK /\ ShellHas /\ Stages)'
  BY StepTyped, StepHas, StepStages
<1>3. TypeOK /\ ShellHas /\ Stages => StagesWired
  BY RunsWired
<1>4. QED
  BY <1>1, <1>2, <1>3, PTL DEF Spec
-----------------------------------------------------------------------------
(* Pipeline implements Chain.                                              *)

\* The stages are started and waited for in their order.
InOrder ==
  /\ pc \in {"pipe", "fork", "close"} => \A n \in Stage : n < node => at[n] # "none"
  /\ pc = "close" => at[node] # "none"
  /\ pc \in {"wait", "done"} => \A n \in Stage : n <= last => at[n] # "none"
  /\ pc = "wait" => node <= last /\ \A n \in Stage : n < node => at[n] = "reaped"
  /\ pc = "done" => \A n \in Stage : n <= last => at[n] = "reaped"
  /\ pc = "prompt" => \A n \in Stage : at[n] = "none"

\* With enough descriptors no pipe() fails.
Plenty == Roomy => ~failed

\* Until the stage behind it is forked, the shell keeps the reading end of the
\* pipe behind a stage for it, unless the stage is doomed.
ShellReads ==
  /\ pc \in {"pipe", "fork"} /\ node > 1 /\ ~Doomed(node - 1) =>
       table[Shell][fd[node - 1][1]] = Rd(node - 1)
  /\ pc = "close" /\ node < last /\ fd[node][1] # fd[node][2] =>
       table[Shell][fd[node][1]] = Rd(node)

LEMMA InitOrder == Init => InOrder /\ Plenty /\ ShellReads
BY Constants DEF Init, InOrder, Plenty, ShellReads, Stage

\* A stage that takes a step is alive, and has been.
LEMMA StageAlive ==
  ASSUME TypeOK, NEW n \in Stage, StageStep(n)
  PROVE  /\ at[n] \in {"dup", "redirect", "close", "run"}
         /\ at'[n] \in {"redirect", "close", "run", "zombie"}
<1>1. at[n] \in {"dup", "redirect", "close", "run"}
  BY DEF StageStep, DupEnds, Redirect, CloseEnds, ReadItem, ReadEnd, WriteItem,
         WriteBroken, Finish, Reads, Writes
<1>0. at \in [Stage -> Places]
  BY DEF TypeOK, Places
<1>2. CASE ReadItem(n) \/ WriteItem(n)
  BY <1>2 DEF ReadItem, WriteItem, Reads, Writes
<1>3. CASE ReadEnd(n) \/ WriteBroken(n) \/ Finish(n)
  BY <1>0, <1>1, <1>3 DEF ReadEnd, WriteBroken, Finish, Ends
<1>4. CASE DupEnds(n) \/ Redirect(n) \/ CloseEnds(n)
  <2>1. Ends(n) \/ \E t, w : w \in {"redirect", "close", "run"} /\ Goes(n, t, w)
    BY <1>4 DEF DupEnds, Redirect, CloseEnds
  <2>2. QED
    BY <1>0, <1>1, <2>1 DEF Ends, Goes
<1>5. QED
  BY <1>1, <1>2, <1>3, <1>4 DEF StageStep

LEMMA StepOrder == TypeOK /\ ShellHas /\ InOrder /\ [Next]_vars => InOrder'
<1> SUFFICES ASSUME TypeOK, ShellHas, InOrder, [Next]_vars
             PROVE  InOrder'
  OBVIOUS
<1>1. /\ node \in Stage /\ last \in 2..NStages /\ at \in [Stage -> Places]
      /\ Stage \subseteq Nat /\ NStages \in Nat
      /\ pc \in {"pipe", "fork", "close"} => node <= last
  BY Constants DEF TypeOK, Places, Stage, ShellHas
<1>2. CASE MakePipe
  BY <1>2 DEF MakePipe, InOrder
<1>3. CASE Fork
  BY <1>1, <1>3 DEF Fork, InOrder, line
<1>4. CASE ForkFails \/ EndOfInput
  BY <1>4 DEF ForkFails, EndOfInput, InOrder
<1>5. CASE CloseBehind
  <2>1. pc = "close" /\ UNCHANGED <<last, at>>
    BY <1>5 DEF CloseBehind, line
  <2>2. CASE node < last
    <3>1. node' = node + 1 /\ pc' \in {"pipe", "fork"}
      BY <1>5, <2>2 DEF CloseBehind
    <3>2. \A n \in Stage : n < node + 1 => n < node \/ n = node
      BY <1>1
    <3>3. QED
      BY <2>1, <3>1, <3>2 DEF InOrder
  <2>3. CASE ~(node < last)
    <3>1. node' = 1 /\ pc' = "wait" /\ node = last
      BY <1>1, <1>5, <2>1, <2>3 DEF CloseBehind
    <3>2. \A n \in Stage : ~(n < 1) /\ (n <= last => n < node \/ n = node)
      BY <1>1, <3>1 DEF Stage
    <3>3. QED
      BY <1>1, <2>1, <3>1, <3>2 DEF InOrder
  <2>4. QED
    BY <2>2, <2>3
<1>6. CASE Wait
  <2>1. /\ pc = "wait" /\ last' = last /\ at'[node] = "reaped" /\ node <= last
        /\ \A n \in Stage : n # node => at'[n] = at[n]
    BY <1>1, <1>6 DEF Wait, line, InOrder
  <2>2. \A n \in Stage : n < node => at'[n] = "reaped"
    BY <1>1, <2>1 DEF InOrder
  <2>3. \A n \in Stage : n <= last => at'[n] # "none"
    BY <1>1, <2>1 DEF InOrder
  <2>4. CASE node < last
    <3>1. node' = node + 1 /\ pc' = "wait"
      BY <1>6, <2>1, <2>4 DEF Wait
    <3>2. \A n \in Stage : n < node + 1 => n < node \/ n = node
      BY <1>1
    <3>3. QED
      BY <1>1, <2>1, <2>2, <2>3, <2>4, <3>1, <3>2 DEF InOrder
  <2>5. CASE ~(node < last)
    <3>1. pc' = "done" /\ node = last
      BY <1>1, <1>6, <2>1, <2>5 DEF Wait
    <3>2. \A n \in Stage : n <= last => n < node \/ n = node
      BY <1>1, <3>1
    <3>3. QED
      BY <2>1, <2>2, <2>3, <3>1, <3>2 DEF InOrder
  <2>6. QED
    BY <2>4, <2>5
<1>7. CASE FreeTree
  BY <1>7 DEF FreeTree, InOrder
<1>8. CASE NextLine
  BY <1>8, Constants DEF NextLine, LineStart, InOrder, Stage
<1>9. ASSUME NEW n \in Stage, StageStep(n)
      PROVE  InOrder'
  <2>1. /\ UNCHANGED <<line, pc, node>>
        /\ at[n] \notin {"none", "reaped"} /\ at'[n] # "none"
        /\ \A m \in Stage : m # n => at'[m] = at[m]
    BY <1>9, StageAlone, StageAlive
  <2>2. QED
    BY <1>1, <2>1 DEF InOrder, line
<1>10. CASE UNCHANGED vars
  BY <1>10 DEF vars, InOrder
<1>11. QED
  BY <1>2, <1>3, <1>4, <1>5, <1>6, <1>7, <1>8, <1>9, <1>10 DEF Next, ShellStep

\* The shell's own table leaves room for a pipe.
LEMMA RoomForPipe ==
  ASSUME TypeOK, ShellHas, pc = "pipe", Roomy, ~failed
  PROVE  ~(Cardinality(Free(table[Shell])) < 2)
<1> DEFINE t == table[Shell]
           p == fd[node - 1]
<1>1. /\ limit \in 4..NFds /\ limit >= 7 /\ t \in Tables /\ NFds \in Nat
      /\ Before(t, p, node, failed, limit)
  BY Constants DEF TypeOK, Roomy, ShellHas, Turned, Tables
<1>2. 3..6 \subseteq 0..(limit - 1) /\ 3..6 \subseteq Fd
  BY <1>1 DEF Fd
<1> HIDE DEF t, p
<1>3. \E x, y \in 3..6 : x # y /\ t[x] = None /\ t[y] = None
  <2>1. CASE node = 1
    <3>1. t = Inherited
      BY <1>1, <2>1 DEF Before
    <3>2. 3 \in Fd /\ 4 \in Fd /\ 3 \in 3..6 /\ 4 \in 3..6
      BY <1>2
    <3>3. t[3] = None /\ t[4] = None
      BY <3>1, <3>2 DEF Inherited
    <3>4. QED
      BY <3>2, <3>3
  <2>2. CASE node # 1
    <3>1. Carry(t, p, node, failed, limit)
      BY <1>1, <2>2 DEF Before
    <3>2. t[0] = Terminal
      BY <3>1 DEF Carry
    <3>3. \A f \in Fd : f > 2 /\ f # p[1] /\ f # p[2] => t[f] = None
      BY <3>1, <3>2, Descriptors DEF Carry
    <3>4. \A f \in 3..6 : f # p[1] /\ f # p[2] => t[f] = None
      BY <1>2, <3>3
    <3>5. PICK x \in 3..5 : x # p[1] /\ x # p[2]
      <4>1. 3 \in 3..5 /\ 4 \in 3..5 /\ 5 \in 3..5 /\ 3 # 4 /\ 3 # 5 /\ 4 # 5
        OBVIOUS
      <4>2. QED
        BY <4>1
    <3>6. PICK y \in 3..6 : y # x /\ y # p[1] /\ y # p[2]
      <4>1. \E a, b, c \in 3..6 : a # x /\ b # x /\ c # x /\ a # b /\ a # c /\ b # c
        <5>1. \A a, b, c \in 3..6 : a < b /\ b < c => a # b /\ a # c /\ b # c
          OBVIOUS
        <5>2. CASE x = 3
          <6>1. 4 \in 3..6 /\ 5 \in 3..6 /\ 6 \in 3..6 /\ 4 < 5 /\ 5 < 6
            OBVIOUS
          <6>2. QED
            BY <5>1, <5>2, <6>1
        <5>3. CASE x = 4
          <6>1. 3 \in 3..6 /\ 5 \in 3..6 /\ 6 \in 3..6 /\ 3 < 5 /\ 5 < 6
            OBVIOUS
          <6>2. QED
            BY <5>1, <5>3, <6>1
        <5>4. CASE x = 5
          <6>1. 3 \in 3..6 /\ 4 \in 3..6 /\ 6 \in 3..6 /\ 3 < 4 /\ 4 < 6
            OBVIOUS
          <6>2. QED
            BY <5>1, <5>4, <6>1
        <5>5. QED
          BY <5>2, <5>3, <5>4
      <4>2. PICK a, b, c \in 3..6 : a # x /\ b # x /\ c # x /\ a # b /\ a # c /\ b # c
        BY <4>1
      <4>3. QED
        BY <4>2, Zenon
    <3>7. x \in 3..6
      OBVIOUS
    <3>8. QED
      BY <3>4, <3>5, <3>6, <3>7
  <2>3. QED
    BY <2>1, <2>2
<1>4. PICK x, y \in 3..6 : x # y /\ t[x] = None /\ t[y] = None
  BY <1>3
<1>5. x \in Free(t) /\ y \in Free(t)
  BY <1>2, <1>4 DEF Free
<1>6. IsFiniteSet(Free(t))
  <2>1. IsFiniteSet(0..(limit - 1)) /\ Free(t) \in SUBSET (0..(limit - 1))
    BY <1>1, FS_Interval DEF Free
  <2>2. QED
    BY <2>1, FS_Subset
<1>7. QED
  BY <1>4, <1>5, <1>6, One DEF t

LEMMA StepPlenty == TypeOK /\ ShellHas /\ Plenty /\ [Next]_vars => Plenty'
<1> SUFFICES ASSUME TypeOK, ShellHas, Plenty, [Next]_vars, Roomy'
             PROVE  ~failed'
  BY DEF Plenty
<1>1. CASE MakePipe
  <2>1. Roomy /\ pc = "pipe"
    BY <1>1 DEF MakePipe, line, Roomy
  <2>2. QED
    BY <1>1, <2>1, RoomForPipe DEF MakePipe, Plenty
<1>2. CASE Fork \/ ForkFails \/ CloseBehind \/ Wait \/ FreeTree \/ EndOfInput
  BY <1>2 DEF Fork, ForkFails, CloseBehind, Wait, FreeTree, EndOfInput, line, Roomy, Plenty
<1>3. CASE NextLine
  BY <1>3 DEF NextLine, LineStart
<1>4. ASSUME NEW n \in Stage, StageStep(n)
      PROVE  ~failed'
  BY <1>4, StageAlone DEF line, Roomy, Plenty
<1>5. CASE UNCHANGED vars
  BY <1>5 DEF vars, Roomy, Plenty
<1>6. QED
  BY <1>1, <1>2, <1>3, <1>4, <1>5 DEF Next, ShellStep

\* A pipe that was made: its two ends are in the shell's table, apart from each
\* other and from its standard output.
Drawn(t, s, k, q) ==
  /\ t[q[1]] = None /\ t[q[2]] = None /\ q[2] > 2 /\ s[1] = Terminal
  /\ \A f \in Fd : s[f] = IF f = q[2] THEN Wr(k) ELSE IF f = q[1] THEN Rd(k) ELSE t[f]

LEMMA PipeFacts ==
  ASSUME NEW t \in Tables, NEW s, NEW k \in Stage, NEW q \in Fd \X Fd,
         NEW p, NEW b \in BOOLEAN, NEW c \in BOOLEAN, NEW lim \in 4..NFds,
         Before(t, p, k, b, lim), Piped(t, s, q, k, b, c, lim), q[1] # q[2]
  PROVE  Drawn(t, s, k, q)
<1>1. /\ q[1] \in FreeIn(t, lim) /\ q[2] \in FreeIn(t, lim) /\ q[1] < q[2]
      /\ s = [t EXCEPT ![q[1]] = Rd(k), ![q[2]] = Wr(k)]
  BY DEF Piped
<1>2. t[q[1]] = None /\ t[q[2]] = None /\ q[1] \in Fd /\ q[2] \in Fd
  BY <1>1 DEF FreeIn
<1>3. t[1] = Terminal /\ t[2] = Terminal /\ 1 \in Fd /\ 2 \in Fd
  <2>1. 1 \in Fd /\ 2 \in Fd
    BY Constants DEF Fd
  <2>2. Inherited[1] = Terminal /\ Inherited[2] = Terminal
    BY <2>1 DEF Inherited
  <2>3. QED
    BY <2>1, <2>2, Zenon DEF Before, Carry
<1>4. \A f \in Fd : s[f] = IF f = q[2] THEN Wr(k) ELSE IF f = q[1] THEN Rd(k) ELSE t[f]
  BY <1>1, <1>2 DEF Tables
<1>5. q[1] # 1 /\ q[2] # 1 /\ q[2] # 2
  BY <1>2, <1>3, Descriptors
<1>6. q[2] > 2
  <2>1. q[1] \in Nat /\ q[2] \in Nat
    BY <1>2 DEF Fd
  <2>2. QED
    BY <1>1, <1>5, <2>1
<1>7. QED
  BY <1>2, <1>3, <1>4, <1>5, <1>6, Descriptors DEF Drawn

\* Behind a stage that is not doomed the shell closes nothing but the pipe in
\* front of it.
LEMMA CloseKeepsEnd ==
  ASSUME TypeOK, ShellHas, pc = "close", node < last, ~Doomed(node)
  PROVE  node > 1 => close_pipe_fd(table[Shell], fd[node - 1])[fd[node][1]] = Rd(node)
<1> SUFFICES ASSUME node > 1
             PROVE  close_pipe_fd(table[Shell], fd[node - 1])[fd[node][1]] = Rd(node)
  OBVIOUS
<1> DEFINE s == table[Shell]
           p == fd[node - 1]
           q == fd[node]
<1>1. /\ node \in Stage /\ limit \in 4..NFds /\ failed \in BOOLEAN /\ s \in Tables
      /\ q \in Fd \X Fd /\ p \in Fd \X Fd /\ Forking /\ node # last
  BY Constants DEF TypeOK, ShellHas, Tables, Stage
<1>2. q[1] # q[2] /\ p[1] # p[2] /\ ~(q[1] = 0 /\ p[1] = 0)
  BY DEF Doomed
<1>3. PICK t \in Tables, b \in BOOLEAN :
        /\ Before(t, p, node, b, limit) /\ Piped(t, s, q, node, b, failed, limit)
  BY <1>1 DEF Forking
<1>4. /\ t[q[1]] = None /\ t[q[2]] = None
      /\ \A f \in Fd : s[f] = IF f = q[2] THEN Wr(node) ELSE IF f = q[1] THEN Rd(node) ELSE t[f]
  <2>1. Drawn(t, s, node, q)
    BY <1>1, <1>2, <1>3, PipeFacts
  <2>2. QED
    BY <2>1 DEF Drawn
<1> HIDE DEF s, p, q
<1>5. Carry(t, p, node, b, limit)
  BY <1>3 DEF Before
<1>6. p[1] # q[1] /\ p[2] # q[1]
  <2>1. CASE p[1] > 2
    <3>1. t[p[1]] = Rd(node - 1) /\ t[p[2]] = Wr(node - 1)
      BY <1>2, <1>5, <2>1 DEF Carry
    <3>2. QED
      BY <1>4, <3>1, Descriptors
  <2>2. CASE p[1] = 0
    <3>1. t[p[2]] = Wr(node - 1)
      BY <1>2, <1>5, <2>2 DEF Carry
    <3>2. QED
      BY <1>2, <1>4, <2>2, <3>1, Descriptors
  <2>3. QED
    BY <1>2, <1>5, <2>1, <2>2 DEF Carry
<1>7. s[q[1]] = Rd(node)
  BY <1>1, <1>2, <1>4
<1>8. close_pipe_fd(s, p)[q[1]] = Rd(node)
  BY <1>1, <1>6, <1>7 DEF close_pipe_fd, Tables
<1>9. QED
  BY <1>8 DEF s, p, q

LEMMA StepReads ==
  TypeOK /\ TypeOK' /\ ShellHas /\ ShellReads /\ [Next]_vars => ShellReads'
<1> SUFFICES ASSUME TypeOK, TypeOK', ShellHas, ShellReads, [Next]_vars
             PROVE  ShellReads'
  OBVIOUS
<1>1. /\ node \in Stage /\ last \in 2..NStages /\ fd \in [Stage -> Fd \X Fd]
      /\ table[Shell] \in Tables /\ limit \in 4..NFds /\ failed \in BOOLEAN
      /\ pc \in {"pipe", "fork", "close"} => node <= last
      /\ Stage \subseteq Nat /\ NStages \in Nat
  <2>1. /\ node \in Stage /\ last \in 2..NStages /\ fd \in [Stage -> Fd \X Fd]
        /\ limit \in 4..NFds /\ failed \in BOOLEAN
    BY DEF TypeOK
  <2>2. table[Shell] \in Tables
    BY Constants DEF TypeOK, Tables
  <2>3. pc \in {"pipe", "fork", "close"} => node <= last
    BY DEF ShellHas
  <2>4. Stage \subseteq Nat /\ NStages \in Nat
    BY Constants DEF Stage
  <2>5. QED
    BY <2>1, <2>2, <2>3, <2>4
<1>2. CASE MakePipe
  <2>1. pc = "pipe" /\ pc' = "fork" /\ UNCHANGED <<node, last>>
    BY <1>2 DEF MakePipe, line
  <2> SUFFICES ASSUME node > 1, ~Doomed(node - 1)'
               PROVE  table'[Shell][fd'[node - 1][1]] = Rd(node - 1)
    BY <2>1 DEF ShellReads
  <2>2. /\ Piped(table[Shell], table'[Shell], fd'[node], node, failed, failed', limit)
        /\ \A m : m # node => fd'[m] = fd[m]
    BY <1>2, PipeMade
  <2>3. node - 1 \in Stage /\ node - 1 # node /\ node - 1 - 1 # node
    BY <1>1 DEF Stage
  <2>4. fd'[node - 1] = fd[node - 1] /\ fd'[node - 1 - 1] = fd[node - 1 - 1]
    BY <2>2, <2>3, Zenon
  <2>5. ~Doomed(node - 1)
    BY <2>1, <2>4 DEF Doomed
  <2>6. table[Shell][fd[node - 1][1]] = Rd(node - 1)
    BY <2>1, <2>5 DEF ShellReads
  <2>7. fd[node - 1] \in Fd \X Fd
    BY <1>1, <2>3
  <2>8. table'[Shell][fd[node - 1][1]] = table[Shell][fd[node - 1][1]]
    <3> DEFINE t == table[Shell]
               s == table'[Shell]
               q == fd'[node]
               f == fd[node - 1][1]
    <3>1. t[f] # None /\ f \in Fd
      BY <2>6, <2>7, Descriptors
    <3> HIDE DEF t, s, q, f
    <3>2. s = t \/ (q[1] \in FreeIn(t, limit) /\ q[2] \in FreeIn(t, limit)
                    /\ s = [t EXCEPT ![q[1]] = Rd(node), ![q[2]] = Wr(node)])
      BY <2>2 DEF Piped, t, s, q
    <3>3. s[f] = t[f]
      BY <1>1, <3>1, <3>2 DEF FreeIn, Tables, t
    <3>4. QED
      BY <3>3 DEF s, t, f
  <2>9. QED
    BY <2>4, <2>6, <2>8
<1>3. CASE Fork
  <2>1. /\ pc = "fork" /\ pc' = "close" /\ UNCHANGED <<node, last, fd>>
        /\ table'[Shell] = table[Shell]
    BY <1>1, <1>3, Constants DEF Fork, line, TypeOK
  <2> SUFFICES ASSUME node < last, fd[node][1] # fd[node][2]
               PROVE  table[Shell][fd[node][1]] = Rd(node)
    BY <2>1 DEF ShellReads
  <2>2. Forking /\ fd[node] \in Fd \X Fd
    BY <1>1, <2>1 DEF ShellHas
  <2>3. PICK t \in Tables, b \in BOOLEAN :
          /\ Before(t, fd[node - 1], node, b, limit)
          /\ Piped(t, table[Shell], fd[node], node, b, failed, limit)
    BY <1>1, <2>2 DEF Forking
  <2>4. \A f \in Fd : table[Shell][f] = IF f = fd[node][2] THEN Wr(node)
                                        ELSE IF f = fd[node][1] THEN Rd(node) ELSE t[f]
    <3>1. Drawn(t, table[Shell], node, fd[node])
      BY <1>1, <2>2, <2>3, PipeFacts
    <3>2. QED
      BY <3>1 DEF Drawn
  <2>5. QED
    BY <2>2, <2>4
<1>4. CASE CloseBehind
  <2>1. pc = "close" /\ UNCHANGED <<last, fd>>
    BY <1>4 DEF CloseBehind, line
  <2>2. CASE node < last
    <3>1. node' = node + 1 /\ pc' \in {"pipe", "fork"} /\ node' - 1 = node
      BY <1>1, <1>4, <2>2 DEF CloseBehind
    <3> SUFFICES ASSUME ~Doomed(node)
                 PROVE  table'[Shell][fd[node][1]] = Rd(node)
      BY <2>1, <3>1 DEF ShellReads, Doomed
    <3>2. CASE node = 1
      BY <1>4, <2>1, <2>2, <3>2 DEF CloseBehind, ShellReads, Doomed
    <3>3. CASE node # 1
      <4>1. table'[Shell] = close_pipe_fd(table[Shell], fd[node - 1])
        BY <1>4, <3>3, Constants DEF CloseBehind, TypeOK
      <4>2. node > 1
        BY <1>1, <3>3 DEF Stage
      <4>3. QED
        BY <2>1, <2>2, <4>1, <4>2, CloseKeepsEnd
    <3>4. QED
      BY <3>2, <3>3
  <2>3. CASE ~(node < last)
    BY <1>4, <2>3 DEF CloseBehind, ShellReads
  <2>4. QED
    BY <2>2, <2>3
<1>5. CASE ForkFails \/ Wait \/ FreeTree \/ EndOfInput
  BY <1>5 DEF ForkFails, Wait, FreeTree, EndOfInput, ShellReads
<1>6. CASE NextLine
  BY <1>6 DEF NextLine, LineStart, ShellReads
<1>7. ASSUME NEW n \in Stage, StageStep(n)
      PROVE  ShellReads'
  <2>1. UNCHANGED <<line, pc, node, fd>> /\ table'[Shell] = table[Shell]
    BY <1>7, StageAlone, Constants
  <2>2. QED
    BY <2>1 DEF ShellReads, Doomed, line
<1>8. CASE UNCHANGED vars
  BY <1>8 DEF vars, ShellReads, Doomed
<1>9. QED
  BY <1>2, <1>3, <1>4, <1>5, <1>6, <1>7, <1>8 DEF Next, ShellStep
-----------------------------------------------------------------------------
\* A stage that is being set up has the writing end of the pipe behind it, even
\* if it is doomed, and the reading end of the one in front of it until it
\* redirects its standard input, unless the stage before it is doomed.
HoldsEnd(n) ==
  n < last /\ fd[n][1] # fd[n][2] =>
    /\ at[n] \in {"dup", "redirect"} => (fd[n][2] > 2 /\ table[n][fd[n][2]] = Wr(n))
    /\ at[n] = "redirect" => table[n][1] = Wr(n)
    /\ at[n] = "close" => Wr(n) \in {table[n][fd[n][2]], table[n][1]}
HoldsStart(n) ==
  n > 1 /\ ~Doomed(n - 1) =>
    /\ at[n] = "dup" => fd[n - 1][1] # 1 /\ table[n][fd[n - 1][1]] = Rd(n - 1)
    /\ at[n] = "redirect" => table[n][0] = Rd(n - 1)
    /\ at[n] = "close" => redir[n] = 0 \/ table[n][0] = Rd(n - 1)
Open(n) ==
  /\ at[n] = "redirect" => table[n][0] # None /\ table[n][1] # None
  /\ at[n] = "run" => ~Doomed(n)
Linked(n) == HoldsEnd(n) /\ HoldsStart(n) /\ Open(n)

LEMMA LinkedStays ==
  ASSUME NEW n \in Stage, Linked(n), at'[n] = at[n], table'[n] = table[n],
         redir'[n] = redir[n], last' = last, fd'[n] = fd[n], fd'[n - 1] = fd[n - 1],
         fd'[n - 1 - 1] = fd[n - 1 - 1]
  PROVE  Linked(n)'
<1>1. HoldsEnd(n)'
  BY DEF Linked, HoldsEnd
<1>2. (Doomed(n)' <=> Doomed(n)) /\ (Doomed(n - 1)' <=> Doomed(n - 1))
  BY DEF Doomed
<1>3. HoldsStart(n)'
  BY <1>2 DEF Linked, HoldsStart
<1>4. Open(n)'
  BY <1>2 DEF Linked, Open
<1>5. QED
  BY <1>1, <1>3, <1>4 DEF Linked

\* A stage that is not being set up, and does not run.
LEMMA LinkedIdle ==
  ASSUME NEW n \in Stage, at'[n] \in {"none", "zombie", "reaped"}
  PROVE  Linked(n)'
BY DEF Linked, HoldsEnd, HoldsStart, Open

LEMMA ForkLinks ==
  ASSUME TypeOK, ShellHas, ShellReads, Fork
  PROVE  Linked(node)'
<1>1. /\ node \in Stage /\ last \in 2..NStages /\ limit \in 4..NFds /\ failed \in BOOLEAN
      /\ table[Shell] \in Tables /\ fd \in [Stage -> Fd \X Fd]
      /\ Forking /\ node <= last /\ pc = "fork" /\ NStages \in Nat /\ 1 \in Fd
  BY Constants DEF TypeOK, ShellHas, Tables, Fork, Fd
<1>2. /\ UNCHANGED <<node, last, fd, failed>> /\ at'[node] = "dup"
      /\ table'[node] = table[Shell]
  BY <1>1, Constants DEF Fork, line, TypeOK
<1>3. HoldsEnd(node)'
  <2> SUFFICES ASSUME node < last, fd[node][1] # fd[node][2]
               PROVE  fd[node][2] > 2 /\ table[Shell][fd[node][2]] = Wr(node)
    BY <1>2 DEF HoldsEnd
  <2>1. PICK t \in Tables, b \in BOOLEAN :
          /\ Before(t, fd[node - 1], node, b, limit)
          /\ Piped(t, table[Shell], fd[node], node, b, failed, limit)
    BY <1>1 DEF Forking, Stage
  <2>2. fd[node] \in Fd \X Fd
    BY <1>1
  <2>3. Drawn(t, table[Shell], node, fd[node])
    BY <1>1, <2>1, <2>2, PipeFacts
  <2>4. QED
    BY <2>2, <2>3 DEF Drawn
<1>4. HoldsStart(node)'
  <2> SUFFICES ASSUME node > 1, ~Doomed(node - 1)
               PROVE  fd[node - 1][1] # 1 /\ table[Shell][fd[node - 1][1]] = Rd(node - 1)
    BY <1>2 DEF HoldsStart, Doomed
  <2>1. table[Shell][fd[node - 1][1]] = Rd(node - 1)
    BY <1>1 DEF ShellReads
  <2>2. table[Shell][1] = Terminal
    <3>1. CASE node < last
      <4>1. PICK t \in Tables, b \in BOOLEAN :
              /\ Before(t, fd[node - 1], node, b, limit)
              /\ Piped(t, table[Shell], fd[node], node, b, failed, limit)
        BY <1>1, <3>1 DEF Forking, Stage
      <4>1a. Inherited[1] = Terminal
        BY <1>1 DEF Inherited
      <4>2. t[1] = Terminal
        BY <4>1, <4>1a, Zenon DEF Before, Carry
      <4>3. CASE fd[node][1] = fd[node][2]
        <5>1. fd[node] \in Fd \X Fd
          BY <1>1
        <5>2. ~(fd[node][1] < fd[node][2])
          BY <4>3, <5>1 DEF Fd
        <5>3. table[Shell] = t
          BY <4>1, <5>2 DEF Piped
        <5>4. QED
          BY <4>2, <5>3
      <4>4. CASE fd[node][1] # fd[node][2]
        <5>1. Drawn(t, table[Shell], node, fd[node])
          BY <1>1, <4>1, <4>4, PipeFacts
        <5>2. QED
          BY <5>1 DEF Drawn
      <4>5. QED
        BY <4>3, <4>4
    <3>2. CASE ~(node < last)
      BY <1>1, <3>2, Zenon DEF Forking, Carry
    <3>3. QED
      BY <3>1, <3>2
  <2>3. QED
    BY <2>1, <2>2, Descriptors
<1>5. Open(node)'
  BY <1>2 DEF Open
<1>6. QED
  BY <1>2, <1>3, <1>4, <1>5 DEF Linked, Fork

LEMMA DupLinks ==
  ASSUME TypeOK, NEW n \in Stage, Linked(n), DupEnds(n)
  PROVE  Linked(n)'
<1>1. UNCHANGED <<redir, last, fd>> /\ at[n] = "dup"
  BY DEF DupEnds, line
<1>2. table[n] \in Tables /\ n \in 0..NStages /\ fd \in [Stage -> Fd \X Fd]
      /\ 0 \in Fd /\ 1 \in Fd /\ Stage \subseteq Nat
  BY Constants DEF TypeOK, Tables, Fd, Stage
<1>3. CASE Ends(n)
  <2>1. at'[n] = "zombie"
    BY <1>3 DEF Ends, TypeOK
  <2>2. QED
    BY <2>1, LinkedIdle
<1>4. CASE ~Ends(n)
  <2> DEFINE t   == table[n]
             out == IF n < last THEN fd[n][2] ELSE STDOUT
             in  == IF n > 1 THEN fd[n - 1][1] ELSE STDIN
             u   == [t EXCEPT ![STDOUT] = t[out]]
             v   == [u EXCEPT ![STDIN] = u[in]]
  <2>1. Goes(n, v, "redirect") /\ t[out] # None /\ u[in] # None
    BY <1>4 DEF DupEnds
  <2>2. table'[n] = v /\ at'[n] = "redirect"
    BY <1>2, <2>1 DEF Goes, TypeOK
  <2>3. out \in Fd /\ in \in Fd
    <3>1. n > 1 => n - 1 \in Stage
      BY Constants DEF Stage
    <3>2. (n > 1 => fd[n - 1] \in Fd \X Fd) /\ fd[n] \in Fd \X Fd
      BY <1>2, <3>1
    <3>3. QED
      BY <1>2, <3>2 DEF STDOUT, STDIN
  <2> HIDE DEF out, in
  <2>4. /\ \A f \in Fd : u[f] = IF f = 1 THEN t[out] ELSE t[f]
        /\ u \in [Fd -> Descriptions]
    BY <1>2, <2>3 DEF Tables, STDOUT
  <2> HIDE DEF u
  <2>5. /\ v[0] = u[in] /\ v[1] = t[out]
        /\ \A f \in Fd : f > 1 => v[f] = t[f]
    BY <1>2, <2>4 DEF STDIN, Fd
  <2> HIDE DEF v
  <2>6. HoldsEnd(n)'
    <3> SUFFICES ASSUME n < last, fd[n][1] # fd[n][2]
                 PROVE  fd[n][2] > 2 /\ v[fd[n][2]] = Wr(n) /\ v[1] = Wr(n)
      BY <1>1, <2>2 DEF HoldsEnd
    <3>1. fd[n][2] > 2 /\ t[fd[n][2]] = Wr(n) /\ fd[n][2] \in Fd
      BY <1>1, <1>2 DEF Linked, HoldsEnd
    <3>2. v[fd[n][2]] = Wr(n)
      BY <2>5, <3>1 DEF Fd
    <3>3. out = fd[n][2]
      BY DEF out
    <3>4. QED
      BY <2>5, <3>1, <3>2, <3>3
  <2>7. HoldsStart(n)'
    <3> SUFFICES ASSUME n > 1, ~Doomed(n - 1)
                 PROVE  v[0] = Rd(n - 1)
      BY <1>1, <2>2 DEF HoldsStart, Doomed
    <3>0. in = fd[n - 1][1]
      BY DEF in
    <3>1. in # 1 /\ t[in] = Rd(n - 1)
      BY <1>1, <3>0 DEF Linked, HoldsStart
    <3>2. QED
      BY <2>3, <2>4, <2>5, <3>1
  <2>8. Open(n)'
    BY <2>1, <2>2, <2>5 DEF Open
  <2>9. QED
    BY <2>6, <2>7, <2>8 DEF Linked
<1>5. QED
  BY <1>3, <1>4

\* A redirection leaves alone what is open and not redirected.
LEMMA RedirectKeeps ==
  ASSUME NEW t \in Tables, NEW r \in Fd, limit \in 4..NFds, Free(t) # {},
         NEW f \in Fd, t[f] # None, f # r
  PROVE  prepare_redirect(t, r)[f] = t[f]
<1> DEFINE m == Min(Free(t))
<1>1. Free(t) \in SUBSET Nat
  BY DEF Free
<1>2. m \in Free(t)
  BY <1>1, Least
<1>3. m \in Fd /\ t[m] = None /\ m # f
  BY <1>2, Constants DEF Free, Fd
<1> HIDE DEF m
<1>4. prepare_redirect(t, r) = LET u == [t EXCEPT ![m] = File, ![r] = File]
                               IN  IF m > 2 /\ r # STDIN THEN [u EXCEPT ![m] = None] ELSE u
  BY DEF prepare_redirect, m
<1>5. QED
  BY <1>3, <1>4 DEF Tables

LEMMA RedirectLinks ==
  ASSUME TypeOK, NEW n \in Stage, Linked(n), Redirect(n)
  PROVE  Linked(n)'
<1>1. UNCHANGED <<redir, last, fd>> /\ at[n] = "redirect"
  BY DEF Redirect, line
<1>2. table[n] \in Tables /\ n \in 0..NStages /\ redir[n] \in 0..NFds /\ limit \in 4..NFds
      /\ fd \in [Stage -> Fd \X Fd] /\ 0 \in Fd /\ 1 \in Fd
  BY Constants DEF TypeOK, Tables, Fd
<1>3. CASE Ends(n)
  <2>1. at'[n] = "zombie"
    BY <1>3 DEF Ends, TypeOK
  <2>2. QED
    BY <2>1, LinkedIdle
<1>4. CASE ~Ends(n)
  <2>1. \/ redir[n] = NoRedirect /\ Goes(n, table[n], "close")
        \/ /\ redir[n] < limit /\ Free(table[n]) # {}
           /\ Goes(n, prepare_redirect(table[n], redir[n]), "close")
    BY <1>4 DEF Redirect
  <2>2. at'[n] = "close"
    BY <1>2, <2>1 DEF Goes, TypeOK
  <2>3. ASSUME NEW f \in Fd, table[n][f] # None, f # redir[n]
        PROVE  table'[n][f] = table[n][f]
    <3>1. CASE redir[n] = NoRedirect /\ Goes(n, table[n], "close")
      BY <1>2, <3>1 DEF Goes, TypeOK
    <3>2. CASE /\ redir[n] < limit /\ Free(table[n]) # {}
               /\ Goes(n, prepare_redirect(table[n], redir[n]), "close")
      <4>1. table'[n] = prepare_redirect(table[n], redir[n])
        BY <1>2, <3>2 DEF Goes, TypeOK
      <4>2. redir[n] \in Fd
        BY <1>2, <3>2, Constants DEF Fd
      <4>3. QED
        BY <1>2, <2>3, <3>2, <4>1, <4>2, RedirectKeeps
    <3>3. QED
      BY <2>1, <3>1, <3>2
  <2>4. HoldsEnd(n)'
    <3> SUFFICES ASSUME n < last, fd[n][1] # fd[n][2]
                 PROVE  Wr(n) \in {table'[n][fd[n][2]], table'[n][1]}
      BY <1>1, <2>2 DEF HoldsEnd
    <3>1. /\ fd[n][2] > 2 /\ fd[n][2] \in Fd
          /\ table[n][fd[n][2]] = Wr(n) /\ table[n][1] = Wr(n)
      BY <1>1, <1>2 DEF Linked, HoldsEnd
    <3>2. CASE redir[n] = 1
      BY <2>3, <3>1, <3>2, Descriptors
    <3>3. CASE redir[n] # 1
      BY <1>2, <2>3, <3>1, <3>3, Descriptors
    <3>4. QED
      BY <3>2, <3>3
  <2>5. HoldsStart(n)'
    <3> SUFFICES ASSUME n > 1, ~Doomed(n - 1), redir[n] # 0
                 PROVE  table'[n][0] = Rd(n - 1)
      BY <1>1, <2>2 DEF HoldsStart, Doomed
    <3>1. table[n][0] = Rd(n - 1)
      BY <1>1 DEF Linked, HoldsStart
    <3>2. QED
      BY <1>2, <2>3, <3>1, Descriptors
  <2>6. Open(n)'
    BY <2>2 DEF Open
  <2>7. QED
    BY <2>4, <2>5, <2>6 DEF Linked
<1>5. QED
  BY <1>3, <1>4

LEMMA CloseLinks ==
  ASSUME TypeOK, NEW n \in Stage, n <= last, Grown(n), CloseEnds(n)
  PROVE  Linked(n)'
<1>1. CASE Ends(n)
  <2>1. at'[n] = "zombie"
    BY <1>1 DEF Ends, TypeOK
  <2>2. QED
    BY <2>1, LinkedIdle
<1>2. CASE ~Ends(n)
  <2>1. ~Doomed(n) /\ UNCHANGED <<last, fd>>
    BY <1>2, CloseGrows DEF CloseEnds, line
  <2>2. at'[n] = "run"
    <3>1. \E t : Goes(n, t, "run")
      BY <1>2 DEF CloseEnds
    <3>2. QED
      BY <3>1 DEF Goes, TypeOK
  <2>3. ~Doomed(n)'
    BY <2>1 DEF Doomed
  <2>4. QED
    BY <2>2, <2>3 DEF Linked, HoldsEnd, HoldsStart, Open
<1>3. QED
  BY <1>1, <1>2
-----------------------------------------------------------------------------
\* A stage that has no redirection has both ends of its pipes until it closes
\* them, if there are enough descriptors.
Has(t, m) == /\ fd[m][1] > 2 /\ t[fd[m][1]] = Rd(m)
             /\ fd[m][2] > 2 /\ t[fd[m][2]] = Wr(m)
Full(n) ==
  Roomy /\ redir[n] = NoRedirect /\ at[n] \in {"dup", "redirect", "close"} =>
    /\ n < last => Has(table[n], n)
    /\ n > 1 => Has(table[n], n - 1)

\* What a stage has of its pipes.
Joined(n) == Linked(n) /\ Full(n)

LEMMA JoinedStays ==
  ASSUME NEW n \in Stage, Joined(n), at'[n] = at[n], table'[n] = table[n],
         limit' = limit, redir'[n] = redir[n], last' = last, fd'[n] = fd[n],
         fd'[n - 1] = fd[n - 1], fd'[n - 1 - 1] = fd[n - 1 - 1]
  PROVE  Joined(n)'
<1>1. Linked(n)'
  BY LinkedStays DEF Joined
<1>2. Full(n)'
  BY DEF Joined, Full, Has, Roomy, NoRedirect
<1>3. QED
  BY <1>1, <1>2 DEF Joined

LEMMA JoinedIdle ==
  ASSUME NEW n \in Stage, at'[n] \in {"none", "zombie", "reaped"}
  PROVE  Joined(n)'
BY LinkedIdle DEF Joined, Full

\* What the shell has in front of a stage if no pipe() has failed.
LEMMA CarryGood ==
  ASSUME NEW t \in Tables, NEW p, NEW k \in Stage, NEW lim,
         Carry(t, p, k, FALSE, lim)
  PROVE  /\ t[0] = Terminal /\ t[1] = Terminal /\ t[2] = Terminal
         /\ p[1] > 2 /\ t[p[1]] = Rd(k - 1)
         /\ p[2] > 2 /\ t[p[2]] = Wr(k - 1)
<1>1. t[0] = Terminal /\ t[1] = Terminal /\ t[2] = Terminal
  BY DEF Carry
<1>2. QED
  BY <1>1, Descriptors DEF Carry

LEMMA ForkFills ==
  ASSUME TypeOK, ShellHas, Plenty, Fork
  PROVE  Full(node)'
<1>1. /\ node \in Stage /\ last \in 2..NStages /\ limit \in 4..NFds /\ failed \in BOOLEAN
      /\ table[Shell] \in Tables /\ fd \in [Stage -> Fd \X Fd] /\ pc = "fork"
      /\ Forking /\ node <= last /\ 0 \in Fd /\ 1 \in Fd /\ 2 \in Fd
  BY Constants DEF TypeOK, ShellHas, Tables, Fork, Fd
<1>2. /\ UNCHANGED <<node, last, fd, redir, limit>> /\ at'[node] = "dup"
      /\ table'[node] = table[Shell]
  BY <1>1, Constants DEF Fork, line, TypeOK
<1> SUFFICES ASSUME Roomy
             PROVE  /\ node < last => Has(table[Shell], node)
                    /\ node > 1 => Has(table[Shell], node - 1)
  BY <1>2 DEF Full, Roomy, Has, NoRedirect
<1> DEFINE s == table[Shell]
           q == fd[node]
           p == fd[node - 1]
<1>3. ~failed
  BY DEF Plenty
<1>4. /\ node > 1 => node - 1 \in Stage /\ p \in Fd \X Fd
      /\ q \in Fd \X Fd
  BY <1>1, Constants DEF Stage
<1>5. CASE node < last
  <2>1. PICK t \in Tables, b \in BOOLEAN :
          /\ Before(t, p, node, b, limit) /\ Piped(t, s, q, node, b, failed, limit)
    BY <1>1, <1>5 DEF Forking
  <2> HIDE DEF s, q, p
  <2>2. /\ q[1] \in FreeIn(t, limit) /\ q[2] \in FreeIn(t, limit) /\ q[1] < q[2]
        /\ s = [t EXCEPT ![q[1]] = Rd(node), ![q[2]] = Wr(node)] /\ ~b
    BY <1>1, <1>3, <2>1 DEF Piped
  <2>3. /\ t[0] = Terminal /\ t[1] = Terminal /\ t[2] = Terminal
        /\ node > 1 => /\ p[1] > 2 /\ t[p[1]] = Rd(node - 1)
                       /\ p[2] > 2 /\ t[p[2]] = Wr(node - 1)
    <3>1. CASE node = 1
      <4>1. t = Inherited
        BY <2>1, <3>1 DEF Before
      <4>2. QED
        BY <1>1, <3>1, <4>1 DEF Inherited
    <3>2. CASE node # 1
      <4>1. Carry(t, p, node, FALSE, limit)
        BY <2>1, <2>2, <3>2 DEF Before
      <4>2. QED
        BY <1>1, <4>1, CarryGood
    <3>3. QED
      BY <3>1, <3>2
  <2>4. t[q[1]] = None /\ t[q[2]] = None
    BY <2>2 DEF FreeIn
  <2>5. q[1] > 2 /\ q[2] > 2 /\ q[1] # q[2]
    <3>1. q[1] \notin {0, 1, 2} /\ q[2] \notin {0, 1, 2}
      BY <2>3, <2>4, Descriptors
    <3>2. q[1] \in Nat /\ q[2] \in Nat
      BY <1>4 DEF Fd
    <3>3. QED
      BY <2>2, <3>1, <3>2
  <2>6. \A f \in Fd : s[f] = IF f = q[2] THEN Wr(node) ELSE IF f = q[1] THEN Rd(node) ELSE t[f]
    BY <1>4, <2>2, <2>5 DEF Tables
  <2>7. s[q[1]] = Rd(node) /\ s[q[2]] = Wr(node)
    BY <1>4, <2>5, <2>6
  <2>8. node > 1 => s[p[1]] = Rd(node - 1) /\ s[p[2]] = Wr(node - 1)
    <3> HAVE node > 1
    <3>1. t[p[1]] # None /\ t[p[2]] # None /\ p[1] \in Fd /\ p[2] \in Fd
      BY <1>4, <2>3, Descriptors
    <3>2. s[p[1]] = t[p[1]] /\ s[p[2]] = t[p[2]]
      BY <2>4, <2>6, <3>1
    <3>3. QED
      BY <2>3, <3>2
  <2>9. QED
    BY <2>3, <2>5, <2>7, <2>8 DEF Has, s, q, p
<1>6. CASE ~(node < last)
  <2>1. node = last /\ node > 1 /\ failed = FALSE /\ ~(node < last)
    BY <1>1, <1>3, <1>6, Constants DEF Stage
  <2>2. Carry(s, p, node, FALSE, limit)
    BY <1>1, <2>1 DEF Forking
  <2> HIDE DEF s, p, q
  <2>3. /\ p[1] > 2 /\ s[p[1]] = Rd(node - 1)
        /\ p[2] > 2 /\ s[p[2]] = Wr(node - 1)
    BY <1>1, <2>2, CarryGood DEF s
  <2>4. QED
    BY <2>1, <2>3 DEF Has, s, p
<1>7. QED
  BY <1>5, <1>6

\* The two dup2() and no redirection leave the pipes alone.
LEMMA DupFills ==
  ASSUME TypeOK, NEW n \in Stage, Full(n), DupEnds(n) \/ Redirect(n) \/ CloseEnds(n)
  PROVE  Full(n)'
<1>1. UNCHANGED <<redir, last, fd, limit>>
  BY DEF DupEnds, Redirect, CloseEnds, line
<1>2. table[n] \in Tables /\ n \in 0..NStages /\ fd \in [Stage -> Fd \X Fd] /\ limit \in 4..NFds
      /\ 0 \in Fd /\ 1 \in Fd /\ at \in [Stage -> Places] /\ Stage \subseteq Nat
  BY Constants DEF TypeOK, Tables, Fd, Places, Stage
<1>3. CASE \/ at'[n] \notin {"dup", "redirect", "close"}
           \/ redir[n] # NoRedirect
  BY <1>1, <1>3 DEF Full, NoRedirect
<1>4. CASE /\ at'[n] \in {"dup", "redirect", "close"}
           /\ redir[n] = NoRedirect
  <2>1. ~Ends(n) /\ ~CloseEnds(n)
    <3>1. ASSUME Ends(n)
          PROVE  FALSE
      BY <1>2, <1>4, <3>1 DEF Ends
    <3>2. ASSUME CloseEnds(n)
          PROVE  FALSE
      <4>1. PICK t : Goes(n, t, "run")
        BY <3>1, <3>2 DEF CloseEnds
      <4>2. QED
        BY <1>2, <1>4, <4>1 DEF Goes
    <3>3. QED
      BY <3>1, <3>2
  <2>2. at[n] \in {"dup", "redirect"} /\ \A f \in Fd : f > 2 => table'[n][f] = table[n][f]
    <3>1. CASE DupEnds(n)
      <4>1. PICK x, y : Goes(n, [[table[n] EXCEPT ![STDOUT] = x] EXCEPT ![STDIN] = y], "redirect")
        BY <2>1, <3>1 DEF DupEnds
      <4>2. table'[n] = [[table[n] EXCEPT ![STDOUT] = x] EXCEPT ![STDIN] = y]
        BY <1>2, <4>1 DEF Goes, TypeOK
      <4>3. at[n] = "dup"
        BY <3>1 DEF DupEnds
      <4>4. table'[n] = [[table[n] EXCEPT ![1] = x] EXCEPT ![0] = y]
        BY <4>2 DEF STDIN, STDOUT
      <4>5. \A f \in Fd : f > 2 => f # 0 /\ f # 1
        BY DEF Fd
      <4>6. QED
        BY <1>2, <4>3, <4>4, <4>5 DEF Tables
    <3>2. CASE Redirect(n)
      <4>1. ~(redir[n] < limit)
        BY <1>2, <1>4, Constants DEF NoRedirect
      <4>2. at[n] = "redirect" /\ Goes(n, table[n], "close")
        BY <1>4, <2>1, <3>2, <4>1 DEF Redirect
      <4>3. table'[n] = table[n]
        BY <1>2, <4>2 DEF Goes, TypeOK
      <4>4. QED
        BY <4>2, <4>3
    <3>3. QED
      BY <2>1, <3>1, <3>2
  <2>3. ASSUME NEW m \in Stage, Has(table[n], m)
        PROVE  Has(table'[n], m)
    BY <1>2, <2>2, <2>3 DEF Has
  <2>4. n > 1 => n - 1 \in Stage
    BY Constants DEF Stage
  <2>5. /\ Roomy /\ n < last => Has(table'[n], n)
        /\ Roomy /\ n > 1 => Has(table'[n], n - 1)
    BY <1>4, <2>2, <2>3, <2>4 DEF Full
  <2>6. QED
    BY <1>1, <2>5 DEF Full, Has, Roomy
<1>5. QED
  BY <1>3, <1>4

\* ... and closing them does not fail.
LEMMA FullCloses ==
  ASSUME TypeOK, NEW n \in Stage, Full(n), CloseEnds(n), Roomy, redir[n] = NoRedirect
  PROVE  at'[n] = "run"
<1>1. at[n] = "close" /\ table[n] \in Tables /\ fd \in [Stage -> Fd \X Fd] /\ Stage \subseteq Nat
      /\ n \in 0..NStages
  BY Constants DEF TypeOK, Tables, Stage, CloseEnds
<1> DEFINE t == table[n]
           q == fd[n]
           p == fd[n - 1]
           u == IF n < last THEN close_pipe_fd(t, q) ELSE t
<1>2. /\ n < last => t[q[1]] = Rd(n) /\ t[q[2]] = Wr(n)
      /\ n > 1 => t[p[1]] = Rd(n - 1) /\ t[p[2]] = Wr(n - 1)
  BY <1>1 DEF Full, Has
<1>3. q \in Fd \X Fd /\ (n > 1 => p \in Fd \X Fd /\ n - 1 # n)
  BY <1>1, Constants DEF Stage
<1> HIDE DEF p, q
<1>4. n < last => ~close_fails(t, q)
  BY <1>2, <1>3, Descriptors DEF close_fails
<1>5. n > 1 => ~close_fails(u, p)
  <2> HAVE n > 1
  <2>1. p[1] # p[2] /\ t[p[1]] # None /\ t[p[2]] # None /\ p[1] \in Fd /\ p[2] \in Fd
    BY <1>2, <1>3, Descriptors
  <2>2. u[p[1]] = t[p[1]] /\ u[p[2]] = t[p[2]]
    <3>1. CASE n < last
      <4>1. p[1] # q[1] /\ p[1] # q[2] /\ p[2] # q[1] /\ p[2] # q[2]
        BY <1>2, <1>3, <3>1, Descriptors
      <4>2. QED
        BY <1>1, <2>1, <3>1, <4>1 DEF close_pipe_fd, Tables
    <3>2. CASE ~(n < last)
      BY <3>2
    <3>3. QED
      BY <3>1, <3>2
  <2>3. QED
    BY <2>1, <2>2 DEF close_fails
<1>6. \E v : Goes(n, v, "run")
  BY <1>4, <1>5 DEF CloseEnds, p, q
<1>7. QED
  BY <1>6 DEF Goes, TypeOK

LEMMA StageJoins ==
  ASSUME TypeOK, NEW n \in Stage, n <= last, Grown(n), Joined(n), StageStep(n)
  PROVE  Joined(n)'
<1>1. CASE DupEnds(n) \/ Redirect(n) \/ CloseEnds(n)
  <2>1. Full(n)'
    BY <1>1, DupFills DEF Joined
  <2>2. Linked(n)'
    BY <1>1, DupLinks, RedirectLinks, CloseLinks DEF Joined
  <2>3. QED
    BY <2>1, <2>2 DEF Joined
<1>2. CASE ReadItem(n) \/ WriteItem(n)
  <2>1. UNCHANGED <<table, at>>
    BY <1>2 DEF ReadItem, WriteItem
  <2>2. UNCHANGED <<line, pc, node, fd, failed>>
    BY StageAlone
  <2>3. QED
    BY <2>1, <2>2, JoinedStays DEF line
<1>3. CASE ReadEnd(n) \/ WriteBroken(n) \/ Finish(n)
  <2>1. Ends(n)
    BY <1>3 DEF ReadEnd, WriteBroken, Finish
  <2>2. at'[n] = "zombie"
    BY <2>1 DEF Ends, TypeOK
  <2>3. QED
    BY <2>2, JoinedIdle
<1>4. QED
  BY <1>1, <1>2, <1>3 DEF StageStep

LEMMA StepJoined ==
  ASSUME TypeOK, ShellHas, Stages, Plenty, ShellReads, \A n \in Stage : Joined(n),
         [Next]_vars, NEW n \in Stage
  PROVE  Joined(n)'
<1>1. /\ node \in Stage /\ last \in 2..NStages /\ fd \in [Stage -> Fd \X Fd]
      /\ at \in [Stage -> Places] /\ table \in [0..NStages -> Tables]
      /\ Unborn /\ \A m \in Stage : Grown(m)
      /\ Stage \subseteq Nat /\ NStages \in Nat /\ n \in 0..NStages /\ n # Shell
      /\ Joined(n) /\ n \in Nat /\ Shell # node
  BY Constants DEF TypeOK, ShellHas, Stages, Tables, Places, Stage, Shell
<1>2. CASE MakePipe
  <2>1. /\ pc = "pipe" /\ UNCHANGED <<line, node, at>> /\ table'[n] = table[n]
        /\ \A m : m # node => fd'[m] = fd[m]
    <3>1. table'[n] = table[n]
      BY <1>1, <1>2 DEF MakePipe
    <3>2. \A m : m # node => fd'[m] = fd[m]
      BY <1>2, PipeMade
    <3>3. QED
      BY <1>2, <3>1, <3>2 DEF MakePipe
  <2>2. CASE n >= node
    <3>1. at'[n] = "none"
      BY <1>1, <2>1, <2>2 DEF Unborn
    <3>2. QED
      BY <3>1, JoinedIdle
  <2>3. CASE n < node
    <3>1. n # node /\ n - 1 # node /\ n - 1 - 1 # node
      BY <1>1, <2>3
    <3>2. fd'[n] = fd[n] /\ fd'[n - 1] = fd[n - 1] /\ fd'[n - 1 - 1] = fd[n - 1 - 1]
      BY <2>1, <3>1
    <3>3. QED
      BY <1>1, <2>1, <3>2, JoinedStays DEF line
  <2>4. QED
    BY <1>1, <2>2, <2>3
<1>3. CASE Fork
  <2>1. CASE n = node
    <3>1. Linked(node)' /\ Full(node)'
      BY <1>3, ForkLinks, ForkFills
    <3>2. node' = node
      BY <1>3 DEF Fork
    <3>3. Joined(node)'
      BY <3>1 DEF Joined
    <3>4. QED
      BY <2>1, <3>2, <3>3
  <2>2. CASE n # node
    <3>1. UNCHANGED <<line, fd>> /\ table'[n] = table[n] /\ at'[n] = at[n]
      BY <1>1, <1>3, <2>2 DEF Fork
    <3>2. QED
      BY <1>1, <3>1, JoinedStays DEF line
  <2>3. QED
    BY <2>1, <2>2
<1>4. CASE ForkFails \/ CloseBehind \/ EndOfInput
  <2>1. UNCHANGED <<line, fd, at>> /\ table'[n] = table[n]
    BY <1>1, <1>4 DEF ForkFails, CloseBehind, EndOfInput
  <2>2. QED
    BY <1>1, <2>1, JoinedStays DEF line
<1>5. CASE Wait
  <2>1. CASE n = node
    <3>1. at'[n] = "reaped"
      BY <1>1, <1>5, <2>1 DEF Wait
    <3>2. QED
      BY <3>1, JoinedIdle
  <2>2. CASE n # node
    <3>1. UNCHANGED <<line, fd, table>> /\ at'[n] = at[n]
      BY <1>1, <1>5, <2>2 DEF Wait
    <3>2. QED
      BY <1>1, <3>1, JoinedStays DEF line
  <2>3. QED
    BY <2>1, <2>2
<1>6. CASE FreeTree \/ NextLine
  <2>1. at'[n] = "none"
    BY <1>6 DEF FreeTree, NextLine, LineStart
  <2>2. QED
    BY <2>1, JoinedIdle
<1>7. ASSUME NEW m \in Stage, StageStep(m)
      PROVE  Joined(n)'
  <2>1. /\ UNCHANGED <<line, fd>>
        /\ m # n => table'[n] = table[n] /\ at'[n] = at[n]
    BY <1>1, <1>7, StageAlone
  <2>2. m <= last
    <3>1. at[m] # "none"
      BY <1>7, StageAlive
    <3>2. QED
      BY <1>1, <3>1 DEF Unborn
  <2>3. CASE m = n
    BY <1>1, <1>7, <2>2, <2>3, StageJoins
  <2>4. CASE m # n
    BY <1>1, <2>1, <2>4, JoinedStays DEF line
  <2>5. QED
    BY <2>3, <2>4
<1>8. CASE UNCHANGED vars
  BY <1>1, <1>8, JoinedStays DEF vars, line
<1>9. QED
  BY <1>2, <1>3, <1>4, <1>5, <1>6, <1>7, <1>8 DEF Next, ShellStep

\* The inductive invariant of the refinement.
Wiring == /\ TypeOK /\ ShellHas /\ Stages
          /\ InOrder /\ Plenty /\ ShellReads
          /\ \A n \in Stage : Joined(n)

LEMMA InitWiring == Init => Wiring
<1> SUFFICES ASSUME Init
             PROVE  Wiring
  OBVIOUS
<1>1. TypeOK /\ ShellHas /\ Stages /\ InOrder /\ Plenty /\ ShellReads
  BY InitTyped, InitHas, InitStages, InitOrder
<1>2. ASSUME NEW n \in Stage
      PROVE  Joined(n)
  BY DEF Init, Joined, Full, Linked, HoldsEnd, HoldsStart, Open
<1>3. QED
  BY <1>1, <1>2 DEF Wiring

LEMMA StepWiring == Wiring /\ [Next]_vars => Wiring'
<1> SUFFICES ASSUME Wiring, [Next]_vars
             PROVE  Wiring'
  OBVIOUS
<1>1. /\ TypeOK /\ ShellHas /\ Stages /\ InOrder /\ Plenty /\ ShellReads
      /\ \A n \in Stage : Joined(n)
  BY DEF Wiring
<1>2. TypeOK' /\ ShellHas' /\ Stages' /\ InOrder' /\ Plenty'
  BY <1>1, StepTyped, StepHas, StepStages, StepOrder, StepPlenty
<1>3. ShellReads'
  BY <1>1, <1>2, StepReads
<1>4. \A n \in Stage : Joined(n)'
  BY <1>1, StepJoined
<1>5. QED
  BY <1>2, <1>3, <1>4 DEF Wiring
-----------------------------------------------------------------------------
\* The chain's stages, and how it sees the line.
Lives == [n \in Stage |-> Life(n)]
From   == {n \in 2..last : redir[n] # STDIN}
Onto   == {n \in 1..(last - 1) : redir[n] # STDOUT}
Unsure == {n \in 1..last : ~Roomy \/ redir[n] # NoRedirect}

LEMMA SameStages ==
  Abstract!Stage = Stage /\ Abstract!Programs = [Stage -> {"gen", "cat", "true"}]
  /\ \A p : Abstract!Work(p) = Work(p)
BY DEF Abstract!Stage, Abstract!Programs, Abstract!Work, Stage, Work

LEMMA SameLine == UNCHANGED line => UNCHANGED Abstract!line
BY DEF line, Abstract!line, Roomy, NoRedirect

LEMMA LivesBut ==
  ASSUME NEW n \in Stage, \A m \in Stage : m # n => Life(m)' = Life(m)
  PROVE  Lives' = [Lives EXCEPT ![n] = Life(n)']
BY DEF Lives

\* The actions of the chain, in terms of the pipeline.
LEMMA IsStart ==
  ASSUME NEW n \in Stage, UNCHANGED <<line, io>>, Life(n) = "new", Life(n)' = "setup",
         \A m \in Stage : m # n => Life(m)' = Life(m)
  PROVE  Abstract!Next
<1>1. Lives' = [Lives EXCEPT ![n] = "setup"] /\ Lives[n] = "new"
  BY LivesBut DEF Lives
<1>2. Abstract!Start(n)
  BY <1>1, SameLine DEF Abstract!Start, Lives, io
<1>3. QED
  BY <1>2, SameStages DEF Abstract!Next

LEMMA IsRun ==
  ASSUME NEW n \in Stage, UNCHANGED <<line, io>>, Life(n) = "setup",
         Life(n)' = "up" \/ (n \in Unsure /\ Life(n)' = "deaf"),
         \A m \in Stage : m # n => Life(m)' = Life(m)
  PROVE  Abstract!Next
<1>1. Lives' = [Lives EXCEPT ![n] = Life(n)'] /\ Lives[n] = "setup"
  BY LivesBut DEF Lives
<1>2. Abstract!Run(n)
  BY <1>1, SameLine DEF Abstract!Run, Lives, io, Unsure
<1>3. QED
  BY <1>2, SameStages DEF Abstract!Next

LEMMA IsFail ==
  ASSUME NEW n \in Stage, UNCHANGED <<line, io>>, Life(n) = "setup", Life(n)' = "down",
         n \in Unsure, \A m \in Stage : m # n => Life(m)' = Life(m)
  PROVE  Abstract!Next
<1>1. Lives' = [Lives EXCEPT ![n] = "down"] /\ Lives[n] = "setup"
  BY LivesBut DEF Lives
<1>2. Abstract!Fail(n)
  BY <1>1, SameLine DEF Abstract!Fail, Lives, io, Unsure
<1>3. QED
  BY <1>2, SameStages DEF Abstract!Next

LEMMA IsRead ==
  ASSUME NEW n \in Stage, UNCHANGED line, Life(n) = "up", n \in From,
         prog[n] = "cat", todo[n] = 0, buf[n - 1] > 0,
         buf' = [buf EXCEPT ![n - 1] = @ - 1], todo' = [todo EXCEPT ![n] = 1],
         Lives' = Lives
  PROVE  Abstract!Next
<1>1. Lives[n] = "up"
  BY DEF Lives
<1>2. Abstract!Read(n)
  BY <1>1, SameLine DEF Abstract!Read, Lives, From
<1>3. QED
  BY <1>2, SameStages DEF Abstract!Next

LEMMA IsWrite ==
  ASSUME NEW n \in Stage, UNCHANGED line, Life(n) \in {"up", "deaf"}, todo[n] > 0,
         \/ n \notin Onto /\ buf' = buf
         \/ n \in Onto /\ buf[n] < Capacity /\ buf' = [buf EXCEPT ![n] = @ + 1],
         todo' = [todo EXCEPT ![n] = @ - 1], Lives' = Lives
  PROVE  Abstract!Next
<1>1. Lives[n] \in {"up", "deaf"}
  BY DEF Lives
<1>2. Abstract!Write(n)
  BY <1>1, SameLine DEF Abstract!Write, Abstract!Up, Lives, Onto
<1>3. QED
  BY <1>2, SameStages DEF Abstract!Next

\* What lets a stage stop, in terms of the pipeline.
Ended(n) == \/ prog[n] # "cat"
            \/ Life(n) = "deaf"
            \/ n \notin From
            \/ /\ buf[n - 1] = 0 /\ n - 1 \in Stage
               /\ \/ Life(n - 1) = "down"
                  \/ Life(n - 1) \in {"up", "deaf"} /\ n - 1 \notin Onto
Broken(n) == /\ n \in Onto /\ n + 1 \in Stage
             /\ \/ Life(n + 1) \in {"down", "deaf"}
                \/ Life(n + 1) # "new" /\ n + 1 \notin From

LEMMA IsStop ==
  ASSUME NEW n \in Stage, UNCHANGED <<line, io>>,
         Life(n) \in {"up", "deaf"}, Life(n)' = "down",
         (todo[n] = 0 /\ Ended(n)) \/ (todo[n] > 0 /\ Broken(n)),
         \A m \in Stage : m # n => Life(m)' = Life(m)
  PROVE  Abstract!Next
<1>1. Lives' = [Lives EXCEPT ![n] = "down"] /\ \A m \in Stage : Lives[m] = Life(m)
  BY LivesBut DEF Lives
<1>2. Abstract!Up(n)
  BY <1>1 DEF Abstract!Up, Lives
<1>3. Ended(n) => Abstract!EndOfInput(n)
  BY <1>1 DEF Ended, Abstract!EndOfInput, Abstract!Leaves, Abstract!Up, Lives, From, Onto
<1>4. Broken(n) => Abstract!NoReader(n)
  BY <1>1 DEF Broken, Abstract!NoReader, Lives, From, Onto
<1>5. Abstract!Stop(n)
  BY <1>1, <1>2, <1>3, <1>4, SameLine DEF Abstract!Stop, Lives, io
<1>6. QED
  BY <1>5, SameStages DEF Abstract!Next

LEMMA IsGiveUp ==
  ASSUME UNCHANGED <<line, io>>,
         \A n \in Stage : Life(n)' = IF Life(n) = "new" THEN "down" ELSE Life(n)
  PROVE  Abstract!Next
<1>1. Lives' = [n \in Stage |-> IF Lives[n] = "new" THEN "down" ELSE Lives[n]]
  BY DEF Lives
<1>2. Abstract!GiveUp
  BY <1>1, SameLine, SameStages DEF Abstract!GiveUp, Lives, io
<1>3. QED
  BY <1>2 DEF Abstract!Next

\* A line the chain does not notice, and what it takes for one.
LEMMA IsStutter == UNCHANGED <<line, io, Lives>> => UNCHANGED Abstract!vars
BY SameLine DEF Abstract!vars, Lives, io

LEMMA LinePipelines ==
  ASSUME NEW lim \in 4..NFds, NEW l \in 2..NStages,
         NEW p \in [Stage -> {"gen", "cat", "true"}], NEW r \in [Stage -> 0..NFds]
  PROVE  [last |-> l, prog |-> p,
          from   |-> {n \in 2..l : r[n] # STDIN},
          onto   |-> {n \in 1..(l - 1) : r[n] # STDOUT},
          unsure |-> {n \in 1..l : ~(lim >= 7) \/ r[n] # NoRedirect}] \in Abstract!Pipelines
<1>1. NStages \in Nat /\ NoRedirect # STDIN /\ NoRedirect # STDOUT
  BY Constants DEF NoRedirect, STDIN, STDOUT
<1>2. 1..l \subseteq Stage /\ 2..l \subseteq Stage /\ 1..(l - 1) \subseteq Stage /\ l \in Stage
  BY <1>1 DEF Stage
<1> DEFINE from   == {n \in 2..l : r[n] # STDIN}
           onto   == {n \in 1..(l - 1) : r[n] # STDOUT}
           unsure == {n \in 1..l : ~(lim >= 7) \/ r[n] # NoRedirect}
<1>3. /\ from \in SUBSET Stage /\ onto \in SUBSET Stage /\ unsure \in SUBSET Stage
      /\ from \subseteq 2..l /\ onto \subseteq 1..(l - 1)
  BY <1>2
<1>4. ASSUME NEW n \in (1..l) \ unsure
      PROVE  (n > 1 => n \in from) /\ (n < l => n \in onto)
  <2>1. r[n] = NoRedirect
    OBVIOUS
  <2>2. QED
    BY <1>1, <2>1
<1> HIDE DEF from, onto, unsure
<1>5. [last |-> l, prog |-> p, from |-> from, onto |-> onto, unsure |-> unsure]
        \in Abstract!Pipelines
  BY <1>2, <1>3, <1>4, SameStages DEF Abstract!Pipelines
<1>6. QED
  BY <1>5 DEF from, onto, unsure
-----------------------------------------------------------------------------
\* A stage that has a process.
LEMMA BornFacts ==
  ASSUME Wiring, NEW n \in Stage, at[n] # "none"
  PROVE  /\ n <= last /\ n \in Nat /\ last \in 2..NStages /\ NStages \in Nat
         /\ at[n] \in Places /\ table[n] \in Tables /\ n \in 0..NStages
         /\ Grown(n) /\ Linked(n) /\ Full(n)
         /\ pc \in {"pipe", "fork"} => n < node
         /\ pc = "close" => n <= node
         /\ pc # "prompt"
<1>1. TypeOK /\ Unborn /\ Grown(n) /\ Joined(n) /\ InOrder
  BY DEF Wiring, Stages
<1>2. node \in Nat /\ n \in Nat /\ last \in 2..NStages /\ NStages \in Nat
  BY <1>1, Constants DEF TypeOK, Stage
<1>3. QED
  BY <1>1, <1>2, Constants DEF Unborn, Joined, InOrder, TypeOK, Places, Tables, Stage

\* A running program that nobody writes to, though it reads the pipe in front of it.
LEMMA NoWriter ==
  ASSUME Wiring, NEW n \in Stage, n > 1, at[n] = "run", Writers(n - 1) = {}
  PROVE  /\ n - 1 \in Stage
         /\ Life(n - 1) = "down" \/ (at[n - 1] = "run" /\ redir[n - 1] = STDOUT)
<1> DEFINE m == n - 1
<1>1. m \in Stage /\ m < n /\ n <= last /\ m < last /\ m \in 0..NStages /\ n - 1 = m
  BY BornFacts, Constants DEF Stage
<1> HIDE DEF m
<1>2. fd[m][1] # fd[m][2]
  <2>1. Linked(n) /\ n - 1 = m
    BY <1>1, BornFacts
  <2>2. ~Doomed(n)
    BY <2>1 DEF Linked, Open
  <2>3. QED
    BY <2>1, <2>2 DEF Doomed
<1>3. \A f \in Fd : table[m][f] # Wr(m)
  BY <1>1 DEF Writers
<1>4. at[m] = "none" => Life(m) = "down"
  <2> HAVE at[m] = "none"
  <2>0. /\ pc \in {"pipe", "fork"} => n < node
        /\ pc = "close" => n <= node
        /\ pc # "prompt"
    <3>1. at[n] # "none"
      OBVIOUS
    <3>2. QED
      BY <3>1, BornFacts
  <2>1. /\ pc \in {"pipe", "fork"} => n < node
        /\ pc = "close" => n <= node
        /\ pc # "prompt" /\ node \in Nat /\ m \in Nat /\ n \in Nat
    BY <1>1, <2>0, Constants DEF Wiring, TypeOK, Stage
  <2>2. pc \in {"pipe", "fork", "close", "wait", "done", "prompt", "exited"} /\ InOrder
    BY DEF Wiring, TypeOK
  <2>3. pc \notin {"pipe", "fork", "close"}
    BY <1>1, <2>1, <2>2 DEF InOrder
  <2>4. pc \notin {"wait", "done"}
    <3>1. m <= last
      BY <1>1, BornFacts
    <3>2. QED
      BY <1>1, <2>2, <3>1 DEF InOrder
  <2>5. pc = "exited"
    BY <2>1, <2>2, <2>3, <2>4
  <2>6. QED
    BY <2>5 DEF Life
<1>5. at[m] # "none" => at[m] \in {"run", "zombie", "reaped"}
  <2> HAVE at[m] # "none"
  <2>1. Linked(m) /\ at[m] \in Places
    BY <1>1, BornFacts
  <2>2. 1 \in Fd /\ fd[m] \in Fd \X Fd
    BY <1>1, Constants DEF Wiring, TypeOK, Fd
  <2>3. QED
    BY <1>1, <1>2, <1>3, <2>1, <2>2 DEF Linked, HoldsEnd, Places
<1>6. at[m] = "run" => redir[m] = STDOUT
  <2> HAVE at[m] = "run"
  <2>1. at[m] # "none"
    OBVIOUS
  <2>2. Grown(m)
    BY <1>1, <2>1, BornFacts
  <2>3. Runs(m) /\ 1 \in Fd
    BY <2>2, Constants DEF Grown, Wiring, TypeOK, Fd
  <2>4. QED
    BY <1>1, <1>3, <2>3 DEF Runs, STDOUT
<1>7. at[m] \in {"zombie", "reaped"} => Life(m) = "down"
  BY DEF Life
<1>8. QED
  BY <1>1, <1>4, <1>5, <1>6, <1>7

\* A running program whose output nobody reads, though it goes to the pipe behind it.
LEMMA NoReading ==
  ASSUME Wiring, NEW n \in Stage, n < last, at[n] = "run", Readers(n) = {}
  PROVE  /\ n + 1 \in Stage
         /\ \/ Life(n + 1) \in {"down", "deaf"}
            \/ Life(n + 1) # "new" /\ redir[n + 1] = STDIN
<1> DEFINE k == n + 1
<1>1. /\ k \in Stage /\ n < k /\ k <= last /\ k \in 0..NStages /\ k - 1 = n /\ n + 1 = k
      /\ n \in Nat /\ last \in Nat /\ k > 1
  BY BornFacts, Constants DEF Stage
<1> HIDE DEF k
<1>2. ~Doomed(n) /\ fd[n][1] # fd[n][2] /\ fd[n] \in Fd \X Fd /\ 0 \in Fd
  <2>1. Linked(n)
    BY BornFacts
  <2>2. ~Doomed(n)
    BY <2>1 DEF Linked, Open
  <2>3. QED
    BY <2>2, Constants DEF Doomed, Wiring, TypeOK, Fd
<1>3. \A p \in 0..NStages : \A f \in Fd : table[p][f] # Rd(n)
  BY DEF Readers
<1>4. at[k] = "none" => Life(k) = "down"
  <2> HAVE at[k] = "none"
  <2>0. /\ pc \in {"pipe", "fork"} => n < node
        /\ pc = "close" => n <= node
        /\ pc # "prompt"
    <3>1. at[n] # "none"
      OBVIOUS
    <3>2. QED
      BY <3>1, BornFacts
  <2>1. /\ pc \in {"pipe", "fork"} => n < node
        /\ pc = "close" => n <= node
        /\ pc # "prompt" /\ node \in Nat /\ k \in Nat /\ n \in Nat
    BY <1>1, <2>0, Constants DEF Wiring, TypeOK, Stage
  <2>2. /\ pc \in {"pipe", "fork", "close", "wait", "done", "prompt", "exited"}
        /\ InOrder /\ ShellReads /\ Shell \in 0..NStages /\ node \in Stage
    BY Constants DEF Wiring, TypeOK, Shell
  <2>3. pc \notin {"pipe", "fork"}
    <3>1. ASSUME pc \in {"pipe", "fork"}
          PROVE  FALSE
      <4>1. ~(k < node)
        BY <1>1, <2>2, <3>1 DEF InOrder
      <4>2. node - 1 = n /\ node > 1
        BY <1>1, <2>1, <3>1, <4>1
      <4>3. table[Shell][fd[n][1]] = Rd(n)
        BY <1>2, <2>2, <3>1, <4>2 DEF ShellReads
      <4>4. QED
        BY <1>2, <1>3, <2>2, <4>3
    <3>2. QED
      BY <3>1
  <2>4. pc # "close"
    <3>1. ASSUME pc = "close"
          PROVE  FALSE
      <4>1. ~(k < node) /\ k # node
        BY <1>1, <2>2, <3>1 DEF InOrder
      <4>2. node = n
        BY <1>1, <2>1, <3>1, <4>1
      <4>3. table[Shell][fd[n][1]] = Rd(n)
        BY <1>2, <2>2, <3>1, <4>2 DEF ShellReads
      <4>4. QED
        BY <1>2, <1>3, <2>2, <4>3
    <3>2. QED
      BY <3>1
  <2>5. pc \notin {"wait", "done"}
    BY <1>1, <2>2 DEF InOrder
  <2>6. pc = "exited"
    BY <2>1, <2>2, <2>3, <2>4, <2>5
  <2>7. QED
    BY <2>6 DEF Life
<1>5. CASE at[k] \in {"dup", "redirect", "close"}
  <2>1. HoldsStart(k)
    BY <1>1, <1>5, BornFacts DEF Linked
  <2>2. at[k] = "close" /\ redir[k] = 0
    BY <1>1, <1>2, <1>3, <1>5, <2>1 DEF HoldsStart
  <2>3. Life(k) = "setup"
    BY <2>2 DEF Life
  <2>4. QED
    BY <1>1, <2>2, <2>3 DEF STDIN
<1>6. CASE at[k] = "run"
  <2>1. Runs(k)
    BY <1>1, <1>6, BornFacts DEF Grown
  <2>2. redir[k] = 0 \/ table[k][0] = None
    BY <1>1, <1>2, <1>3, <2>1 DEF Runs
  <2>3. redir[k] # 0 => Life(k) = "deaf"
    BY <1>6, <2>2 DEF Life, STDIN
  <2>4. Life(k) # "new"
    BY <1>6 DEF Life
  <2>5. QED
    BY <1>1, <2>2, <2>3, <2>4 DEF STDIN
<1>7. CASE at[k] \in {"zombie", "reaped"}
  <2>1. Life(k) = "down"
    BY <1>7 DEF Life
  <2>2. QED
    BY <1>1, <2>1
<1>8. at[k] \in {"none", "dup", "redirect", "close", "run", "zombie", "reaped"}
  BY <1>1 DEF Wiring, TypeOK
<1>9. QED
  BY <1>1, <1>4, <1>5, <1>6, <1>7, <1>8

\* A stage that has both its pipes moves its ends where they belong.
LEMMA FullDups ==
  ASSUME Wiring, NEW n \in Stage, DupEnds(n), Roomy, redir[n] = NoRedirect
  PROVE  at'[n] = "redirect"
<1>1. at[n] = "dup" /\ at \in [Stage -> Places]
  BY DEF DupEnds, Wiring, TypeOK, Places
<1>1a. /\ Grown(n) /\ Full(n) /\ table[n] \in Tables /\ n \in Nat /\ n <= last
      /\ last \in 2..NStages /\ NStages \in Nat
  BY <1>1, BornFacts
<1>2. /\ Grown(n) /\ Full(n) /\ table[n] \in Tables /\ n \in Nat /\ n <= last /\ last \in Nat
      /\ 0 \in Fd /\ 1 \in Fd
  BY <1>1a, Constants DEF Wiring, TypeOK, Fd
<1>3. /\ n < last => Has(table[n], n) /\ fd[n] \in Fd \X Fd
      /\ n > 1 => Has(table[n], n - 1) /\ fd[n - 1] \in Fd \X Fd /\ n - 1 \in Stage
  BY <1>1, <1>2, Constants DEF Full, Wiring, TypeOK, Stage
<1>4. ~Doomed(n)
  BY <1>2, <1>3, Descriptors DEF Doomed, Has
<1>5. Fresh(n)
  BY <1>1, <1>2, <1>4 DEF Grown
<1> DEFINE t   == table[n]
           out == IF n < last THEN fd[n][2] ELSE STDOUT
           in  == IF n > 1 THEN fd[n - 1][1] ELSE STDIN
           u   == [t EXCEPT ![STDOUT] = t[out]]
<1>6. t[out] # None
  BY <1>3, <1>5, Descriptors DEF Fresh, Has, STDOUT
<1>7. t[in] # None /\ in # 1 /\ in \in Fd
  BY <1>2, <1>3, <1>5, Descriptors DEF Fresh, Has, STDIN
<1> HIDE DEF out, in
<1>8. u[in] # None
  BY <1>2, <1>7 DEF Tables, STDOUT
<1> HIDE DEF u
<1>9. \E v : Goes(n, v, "redirect")
  BY <1>6, <1>8 DEF DupEnds, u, out, in
<1>10. QED
  BY <1>1, <1>9 DEF Goes

\* Only a stage that is redirected, or lacks descriptors, ends before its program.
LEMMA FailsUnsure ==
  ASSUME Wiring, NEW n \in Stage, DupEnds(n) \/ Redirect(n) \/ CloseEnds(n),
         at'[n] = "zombie"
  PROVE  n \in Unsure
<1>1. at[n] # "none" /\ at \in [Stage -> Places] /\ TypeOK
  BY DEF DupEnds, Redirect, CloseEnds, Wiring, TypeOK, Places
<1>2. n \in 1..last /\ Full(n)
  BY <1>1, BornFacts DEF Stage
<1> SUFFICES ASSUME Roomy, redir[n] = NoRedirect
             PROVE  FALSE
  BY <1>2 DEF Unsure
<1>3. CASE DupEnds(n)
  BY <1>3, FullDups
<1>4. CASE Redirect(n)
  <2>1. limit \in 4..NFds
    BY <1>1 DEF TypeOK
  <2>2. ~(redir[n] < limit)
    BY <2>1, Constants DEF NoRedirect
  <2>3. Goes(n, table[n], "close")
    BY <1>4, <2>2 DEF Redirect
  <2>4. QED
    BY <1>1, <2>3 DEF Goes
<1>5. CASE CloseEnds(n)
  BY <1>1, <1>2, <1>5, FullCloses
<1>6. QED
  BY <1>3, <1>4, <1>5

\* Only such a stage finds no input when its program runs.
LEMMA DeafUnsure ==
  ASSUME Wiring, NEW n \in Stage, Life(n) = "deaf"
  PROVE  n \in Unsure
<1>1. at[n] = "run" /\ table[n][0] = None /\ redir[n] # 0
  <2>1. at[n] \in Places
    BY DEF Wiring, TypeOK, Places
  <2>2. QED
    BY <2>1 DEF Life, Places, STDIN
<1>2. n \in 1..last /\ Runs(n)
  BY <1>1, BornFacts DEF Stage, Grown
<1>3. failed
  BY <1>1, <1>2, Descriptors DEF Runs
<1>4. ~Roomy
  BY <1>3 DEF Wiring, Plenty
<1>5. QED
  BY <1>2, <1>4 DEF Unsure
-----------------------------------------------------------------------------
LEMMA LifeStays ==
  ASSUME NEW m \in Stage, UNCHANGED line, at'[m] = at[m], table'[m] = table[m],
         pc' \in {"prompt", "exited"} <=> pc \in {"prompt", "exited"}
  PROVE  Life(m)' = Life(m)
BY DEF line, Life

\* The steps of the shell, as steps of the chain.
LEMMA ShellAsChain ==
  ASSUME Wiring, ShellStep
  PROVE  Abstract!Next \/ UNCHANGED Abstract!vars
<1>1. /\ node \in Stage /\ at \in [Stage -> Places] /\ table \in [0..NStages -> Tables]
      /\ TypeOK /\ Unborn /\ InOrder /\ ShellHas
      /\ \A n \in Stage : n \in 0..NStages /\ n # Shell /\ n \in Nat
  <2>1. node \in Stage /\ at \in [Stage -> Places] /\ table \in [0..NStages -> Tables]
    BY DEF Wiring, Stages, TypeOK, Places, Tables
  <2>2. TypeOK /\ Unborn /\ InOrder /\ ShellHas
    BY DEF Wiring, Stages
  <2>3. \A n \in Stage : n \in 0..NStages /\ n # Shell /\ n \in Nat
    BY Constants DEF Stage, Shell
  <2>4. QED
    BY <2>1, <2>2, <2>3
<1>2. CASE MakePipe \/ CloseBehind
  <2>1. /\ UNCHANGED <<line, io, at>> /\ \A n \in Stage : table'[n] = table[n]
        /\ pc \in {"pipe", "close"} /\ pc' \in {"pipe", "fork", "wait"}
    BY <1>1, <1>2 DEF MakePipe, CloseBehind
  <2>2. \A n \in Stage : Life(n)' = Life(n)
    BY <2>1, LifeStays
  <2>3. Lives' = Lives
    BY <2>2 DEF Lives
  <2>4. QED
    BY <2>1, <2>3, IsStutter
<1>3. CASE Fork
  <2>0. PICK n \in Stage : n = node
    BY <1>1
  <2>1. /\ UNCHANGED <<line, io>> /\ pc = "fork" /\ pc' = "close" /\ at'[n] = "dup"
        /\ \A m \in Stage : m # n => at'[m] = at[m] /\ table'[m] = table[m]
    BY <1>1, <1>3, <2>0 DEF Fork
  <2>2. \A m \in Stage : m # n => Life(m)' = Life(m)
    BY <2>1, LifeStays
  <2>3. Life(n) = "new"
    <3>1. at[n] = "none" /\ ~(n > last)
      <4>1. last \in Nat /\ n \in Nat /\ n <= last
        BY <1>1, <2>0, <2>1, Constants DEF TypeOK, ShellHas, Stage
      <4>2. QED
        BY <1>1, <2>0, <2>1, <4>1 DEF Unborn
    <3>2. QED
      BY <2>1, <3>1 DEF Life
  <2>4. Life(n)' = "setup"
    BY <2>1 DEF Life
  <2>5. QED
    BY <2>1, <2>2, <2>3, <2>4, IsStart
<1>4. CASE ForkFails
  <2>1. /\ UNCHANGED <<line, io, at>> /\ pc = "fork" /\ pc' = "exited"
        /\ \A n \in Stage : table'[n] = table[n]
    BY <1>1, <1>4 DEF ForkFails
  <2>2. ASSUME NEW n \in Stage
        PROVE  Life(n)' = IF Life(n) = "new" THEN "down" ELSE Life(n)
    <3>1. at[n] \in Places
      BY <1>1
    <3>2. CASE at[n] = "none"
      BY <2>1, <3>2 DEF Life
    <3>3. CASE at[n] # "none"
      BY <2>1, <3>1, <3>3 DEF Life, line, Places
    <3>4. QED
      BY <3>2, <3>3
  <2>3. QED
    BY <2>1, <2>2, IsGiveUp
<1>5. CASE Wait
  <2>1. /\ UNCHANGED <<line, io, table>> /\ pc = "wait" /\ pc' \in {"wait", "done"}
        /\ at[node] = "zombie" /\ at'[node] = "reaped"
        /\ \A n \in Stage : n # node => at'[n] = at[n]
    BY <1>1, <1>5 DEF Wait
  <2>2. ASSUME NEW n \in Stage
        PROVE  Life(n)' = Life(n)
    <3>1. CASE n = node
      BY <2>1, <3>1 DEF Life
    <3>2. CASE n # node
      BY <2>1, <3>2, LifeStays
    <3>3. QED
      BY <3>1, <3>2
  <2>3. Lives' = Lives
    BY <2>2 DEF Lives
  <2>4. QED
    BY <2>1, <2>3, IsStutter
<1>6. QED
  BY <1>2, <1>3, <1>4, <1>5 DEF ShellStep

LEMMA LineAsChain ==
  ASSUME TypeOK
  PROVE  Abstract!ThisLine \in Abstract!Pipelines
<1>1. /\ limit \in 4..NFds /\ last \in 2..NStages
      /\ prog \in [Stage -> {"gen", "cat", "true"}] /\ redir \in [Stage -> 0..NFds]
  BY DEF TypeOK
<1>2. QED
  BY <1>1, LinePipelines DEF Abstract!ThisLine, Roomy

\* A line ends for the chain when it is freed, and the next one starts.
LEMMA LinesAsChain ==
  ASSUME Wiring, Wiring', FreeTree \/ NextLine
  PROVE  Abstract!Next
<1>0. TypeOK /\ TypeOK' /\ Unborn /\ InOrder /\ pc \in {"done", "prompt"}
  BY DEF Wiring, Stages, FreeTree, NextLine
<1>1. last \in Nat /\ Stage \subseteq Nat /\ last' \in 2..NStages
  BY <1>0, Constants DEF TypeOK, Stage
<1>2. \A n \in Stage : Life(n) = "down"
  <2> TAKE n \in Stage
  <2>1. CASE pc = "done"
    <3>1. CASE n <= last
      BY <1>0, <2>1, <3>1 DEF InOrder, Life
    <3>2. CASE n > last
      BY <1>0, <3>2 DEF Unborn, Life
    <3>3. QED
      BY <1>1, <3>1, <3>2
  <2>2. CASE pc = "prompt"
    BY <2>2, <1>0 DEF InOrder, Life
  <2>3. QED
    BY <1>0, <2>1, <2>2
<1>3. Lives = [n \in Stage |-> "down"]
  BY <1>2 DEF Lives
<1>4. Abstract!Over
  BY <1>2, SameStages DEF Abstract!Over
<1>5. (Abstract!ThisLine \in Abstract!Pipelines)'
  <2>1. /\ limit' \in 4..NFds /\ last' \in 2..NStages
        /\ prog' \in [Stage -> {"gen", "cat", "true"}] /\ redir' \in [Stage -> 0..NFds]
    BY <1>0 DEF TypeOK
  <2>2. QED
    BY <2>1, LinePipelines DEF Abstract!ThisLine, Roomy, NoRedirect
<1>6. /\ todo' = Work(prog') /\ buf' = [n \in Stage |-> 0]
      /\ \A n \in Stage : at'[n] = "none"
  BY DEF FreeTree, NextLine, LineStart
<1>7. Abstract!AnyLine
  BY <1>4, <1>5, <1>6, SameStages DEF Abstract!AnyLine
<1>8. CASE FreeTree
  <2>1. pc' = "prompt"
    BY <1>8 DEF FreeTree
  <2>2. \A n \in Stage : Life(n)' = "down"
    BY <1>6, <2>1 DEF Life
  <2>3. Lives' = Lives
    BY <1>3, <2>2 DEF Lives
  <2>4. Abstract!Forget
    BY <1>7, <2>3 DEF Abstract!Forget, Lives
  <2>5. QED
    BY <2>4 DEF Abstract!Next
<1>9. CASE NextLine
  <2>1. pc' = "pipe"
    BY <1>9 DEF NextLine, LineStart
  <2>2. \A n \in Stage : Life(n)' = IF n <= last' THEN "new" ELSE "down"
    <3>1. last' \in Nat
      BY <1>1, Constants
    <3>2. \A n \in Stage : n <= last' <=> ~(n > last')
      BY <1>1, <3>1
    <3>3. QED
      BY <1>6, <2>1, <3>2 DEF Life
  <2>3. Lives' = [n \in Stage |-> IF n <= last' THEN "new" ELSE "down"]
    BY <2>2 DEF Lives
  <2>4. Abstract!NewLine
    BY <1>7, <2>3, SameStages DEF Abstract!NewLine, Abstract!Fresh, Lives
  <2>5. QED
    BY <2>4 DEF Abstract!Next
<1>10. QED
  BY <1>8, <1>9

LEMMA EndAsChain ==
  ASSUME Wiring, EndOfInput
  PROVE  UNCHANGED Abstract!vars
<1>1. /\ UNCHANGED <<line, io, at>> /\ pc = "prompt" /\ pc' = "exited"
      /\ \A n \in Stage : at[n] = "none"
  BY DEF EndOfInput, Wiring, InOrder
<1>2. \A n \in Stage : Life(n)' = Life(n)
  BY <1>1 DEF Life
<1>3. QED
  BY <1>1, <1>2, IsStutter DEF Lives
-----------------------------------------------------------------------------
\* What the others are for the chain does not change with a step of a stage.
LEMMA OthersStay ==
  ASSUME TypeOK, NEW n \in Stage, StageStep(n)
  PROVE  /\ UNCHANGED line
         /\ \A m \in Stage : m # n => Life(m)' = Life(m)
<1>1. UNCHANGED <<line, pc>>
  BY StageAlone
<1>2. ASSUME NEW m \in Stage, m # n
      PROVE  Life(m)' = Life(m)
  <2>1. m \in 0..NStages
    BY Constants DEF Stage
  <2>2. at'[m] = at[m] /\ table'[m] = table[m]
    BY <1>2, <2>1, StageAlone
  <2>3. QED
    BY <1>1, <2>2, LifeStays
<1>3. QED
  BY <1>1, <1>2

\* A stage that is being set up goes on, or is up, deaf, or down.
LEMMA SetupAsChain ==
  ASSUME Wiring, Wiring', NEW n \in Stage, DupEnds(n) \/ Redirect(n) \/ CloseEnds(n)
  PROVE  Abstract!Next \/ UNCHANGED Abstract!vars
<1>1. /\ UNCHANGED <<line, io>> /\ TypeOK
      /\ at[n] \in {"dup", "redirect", "close"}
      /\ StageStep(n)
  BY DEF DupEnds, Redirect, CloseEnds, Wiring, StageStep
<1>2. /\ \A m \in Stage : m # n => Life(m)' = Life(m)
      /\ at'[n] \in {"redirect", "close", "run", "zombie"}
  BY <1>1, OthersStay, StageAlive
<1>3. Life(n) = "setup"
  BY <1>1 DEF Life
<1>4. CASE at'[n] \in {"redirect", "close"}
  <2>1. Life(n)' = "setup"
    BY <1>4 DEF Life
  <2>2. \A m \in Stage : Life(m)' = Life(m)
    BY <1>2, <1>3, <2>1
  <2>3. QED
    BY <1>1, <2>2, IsStutter DEF Lives
<1>5. CASE at'[n] = "run"
  <2>1. Life(n)' \in {"up", "deaf"}
    BY <1>5 DEF Life
  <2>2. Life(n)' = "deaf" => n \in Unsure
    <3>1. (Life(n) = "deaf" => n \in Unsure)'
      BY DeafUnsure, PTL
    <3>2. Unsure' = Unsure
      BY <1>1 DEF Unsure, Roomy, line, NoRedirect
    <3>3. QED
      BY <3>1, <3>2
  <2>3. QED
    BY <1>1, <1>2, <1>3, <2>1, <2>2, IsRun
<1>6. CASE at'[n] = "zombie"
  <2>1. n \in Unsure
    BY <1>6, FailsUnsure
  <2>2. Life(n)' = "down"
    BY <1>6 DEF Life
  <2>3. QED
    BY <1>1, <1>2, <1>3, <2>1, <2>2, IsFail
<1>7. QED
  BY <1>2, <1>4, <1>5, <1>6

\* What a running program finds as its standard input and output.
LEMMA RunFacts ==
  ASSUME Wiring, NEW n \in Stage, at[n] = "run"
  PROVE  /\ Life(n) \in {"up", "deaf"} /\ n <= last /\ n \in Nat /\ last \in Nat
         /\ In(n) # 0 => In(n) = n - 1 /\ Life(n) = "up" /\ n \in From
         /\ In(n) = 0 => Life(n) = "deaf" \/ n \notin From
         /\ Out(n) # 0 => Out(n) = n /\ n \in Onto
         /\ Out(n) = 0 => n \notin Onto
<1>1. Runs(n) /\ n <= last /\ n \in Nat /\ last \in 2..NStages /\ NStages \in Nat /\ n >= 1
  BY BornFacts DEF Grown, Stage
<1>2. Life(n) = IF table[n][0] = None /\ redir[n] # 0 THEN "deaf" ELSE "up"
  BY DEF Life, STDIN
<1>3. /\ In(n) = IF table[n][0][1] = "rd" THEN table[n][0][2] ELSE 0
      /\ Out(n) = IF table[n][1][1] = "wr" THEN table[n][1][2] ELSE 0
  BY DEF In, Out, STDIN, STDOUT
<1>4. /\ n \in From <=> n > 1 /\ redir[n] # 0
      /\ n \in Onto <=> n < last /\ redir[n] # 1
  BY <1>1 DEF From, Onto, STDIN, STDOUT
<1>5. /\ \/ redir[n] = 0 /\ In(n) = 0 /\ Life(n) = "up"
         \/ redir[n] # 0 /\ n > 1 /\ In(n) = n - 1 /\ Life(n) = "up"
         \/ n = 1 /\ In(n) = 0 /\ Life(n) = "up"
         \/ redir[n] # 0 /\ In(n) = 0 /\ Life(n) = "deaf"
         \/ redir[n] = 0 /\ In(n) = 0
  BY <1>1, <1>2, <1>3 DEF Runs, File, Terminal, None, Rd
<1>6. \/ redir[n] = 1 /\ Out(n) = 0
      \/ redir[n] # 1 /\ n < last /\ Out(n) = n
      \/ n = last /\ Out(n) = 0
  BY <1>1, <1>3 DEF Runs, File, Terminal, Wr
<1>7. QED
  BY <1>1, <1>2, <1>4, <1>5, <1>6

\* A running program reads, writes, or stops.
LEMMA ProgramAsChain ==
  ASSUME Wiring, NEW n \in Stage,
         \/ ReadItem(n) \/ ReadEnd(n) \/ WriteItem(n) \/ WriteBroken(n) \/ Finish(n)
  PROVE  Abstract!Next
<1>1. at[n] = "run" /\ TypeOK /\ StageStep(n)
  BY DEF ReadItem, ReadEnd, WriteItem, WriteBroken, Finish, Reads, Writes, Wiring, StageStep
<1>2. /\ Life(n) \in {"up", "deaf"} /\ n <= last /\ n \in Nat /\ last \in Nat
      /\ In(n) # 0 => In(n) = n - 1 /\ Life(n) = "up" /\ n \in From
      /\ In(n) = 0 => Life(n) = "deaf" \/ n \notin From
      /\ Out(n) # 0 => Out(n) = n /\ n \in Onto
      /\ Out(n) = 0 => n \notin Onto
  BY <1>1, RunFacts
<1>3. UNCHANGED line /\ \A m \in Stage : m # n => Life(m)' = Life(m)
  BY <1>1, OthersStay
<1>4. ASSUME ReadItem(n) \/ WriteItem(n)
      PROVE  Lives' = Lives
  <2>1. UNCHANGED <<line, pc, at, table>>
    BY <1>4 DEF ReadItem, WriteItem
  <2>2. \A m \in Stage : Life(m)' = Life(m)
    BY <2>1, LifeStays
  <2>3. QED
    BY <2>2 DEF Lives
<1>5. CASE ReadItem(n)
  <2>1. /\ prog[n] = "cat" /\ todo[n] = 0 /\ In(n) # 0 /\ buf[In(n)] > 0
        /\ buf' = [buf EXCEPT ![In(n)] = @ - 1] /\ todo' = [todo EXCEPT ![n] = 1]
    BY <1>5 DEF ReadItem, Reads
  <2>2. In(n) = n - 1 /\ Life(n) = "up" /\ n \in From
    BY <1>2, <2>1
  <2>3. buf[n - 1] > 0 /\ buf' = [buf EXCEPT ![n - 1] = @ - 1]
    BY <2>1, <2>2
  <2>4. QED
    BY <1>3, <1>4, <1>5, <2>1, <2>2, <2>3, IsRead
<1>6. CASE WriteItem(n)
  <2>1. todo[n] > 0 /\ todo' = [todo EXCEPT ![n] = @ - 1]
    BY <1>6 DEF WriteItem, Writes
  <2>2. \/ n \notin Onto /\ buf' = buf
        \/ n \in Onto /\ buf[n] < Capacity /\ buf' = [buf EXCEPT ![n] = @ + 1]
    <3>1. CASE Out(n) = 0
      BY <1>2, <1>6, <3>1 DEF WriteItem
    <3>2. CASE Out(n) # 0
      <4>1. Out(n) = n /\ n \in Onto
        BY <1>2, <3>2
      <4>2. buf[Out(n)] < Capacity /\ buf' = [buf EXCEPT ![Out(n)] = @ + 1]
        BY <1>6, <3>2 DEF WriteItem
      <4>3. QED
        BY <4>1, <4>2
    <3>3. QED
      BY <3>1, <3>2
  <2>3. QED
    BY <1>2, <1>3, <1>4, <1>6, <2>1, <2>2, IsWrite
<1>7. CASE ReadEnd(n) \/ WriteBroken(n) \/ Finish(n)
  <2>1. UNCHANGED io /\ Life(n)' = "down"
    <3>1. UNCHANGED io /\ Ends(n)
      BY <1>7 DEF ReadEnd, WriteBroken, Finish
    <3>2. at'[n] = "zombie"
      BY <1>1, <3>1 DEF Ends, TypeOK
    <3>3. QED
      BY <3>1, <3>2 DEF Life
  <2>2. (todo[n] = 0 /\ Ended(n)) \/ (todo[n] > 0 /\ Broken(n))
    <3>1. CASE ReadEnd(n)
      <4>1. todo[n] = 0 /\ (In(n) # 0 => buf[In(n)] = 0 /\ Writers(In(n)) = {})
        BY <3>1 DEF ReadEnd, Reads
      <4>2. CASE In(n) = 0
        BY <1>2, <4>1, <4>2 DEF Ended
      <4>3. CASE In(n) # 0
        <5>1. In(n) = n - 1 /\ n \in From
          BY <1>2, <4>3
        <5>2. buf[n - 1] = 0 /\ Writers(n - 1) = {} /\ n > 1
          BY <4>1, <4>3, <5>1 DEF From
        <5>3. /\ n - 1 \in Stage
              /\ Life(n - 1) = "down" \/ (at[n - 1] = "run" /\ redir[n - 1] = STDOUT)
          BY <1>1, <5>2, NoWriter
        <5>4. ASSUME at[n - 1] = "run", redir[n - 1] = STDOUT
              PROVE  Life(n - 1) \in {"up", "deaf"} /\ n - 1 \notin Onto
          BY <5>4 DEF Life, Onto
        <5>5. QED
          BY <4>1, <5>2, <5>3, <5>4 DEF Ended
      <4>4. QED
        BY <4>2, <4>3
    <3>2. CASE WriteBroken(n)
      <4>1. todo[n] > 0 /\ Out(n) # 0 /\ Readers(Out(n)) = {}
        BY <3>2 DEF WriteBroken, Writes
      <4>2. Out(n) = n /\ n \in Onto
        BY <1>2, <4>1
      <4>3. Readers(n) = {} /\ n < last
        BY <1>2, <4>1, <4>2 DEF Onto
      <4>4. /\ n + 1 \in Stage
            /\ \/ Life(n + 1) \in {"down", "deaf"}
               \/ Life(n + 1) # "new" /\ redir[n + 1] = STDIN
        BY <1>1, <4>3, NoReading
      <4>5. QED
        BY <4>1, <4>2, <4>4 DEF Broken, From
    <3>3. CASE Finish(n)
      BY <3>3 DEF Finish, Ended
    <3>4. QED
      BY <1>7, <3>1, <3>2, <3>3
  <2>3. QED
    BY <1>2, <1>3, <2>1, <2>2, IsStop
<1>8. QED
  BY <1>5, <1>6, <1>7
-----------------------------------------------------------------------------
LEMMA InitAsChain == Init => Abstract!Init
<1> SUFFICES ASSUME Init
             PROVE  Abstract!Init
  OBVIOUS
<1>1. TypeOK
  BY InitTyped
<1>2. last \in Nat /\ Stage \subseteq Nat
  BY <1>1, Constants DEF TypeOK, Stage
<1>3. pc = "pipe" /\ \A n \in Stage : at[n] = "none"
  BY DEF Init
<1>4. \A n \in Stage : Life(n) = IF n <= last THEN "new" ELSE "down"
  <2>1. \A n \in Stage : n <= last <=> ~(n > last)
    BY <1>2
  <2>2. QED
    BY <1>3, <2>1 DEF Life
<1>5. Lives = Abstract!Fresh(last)
  BY <1>4, SameStages DEF Lives, Abstract!Fresh
<1>6. todo = Work(prog) /\ buf = [n \in Stage |-> 0]
  BY DEF Init
<1>7. QED
  BY <1>1, <1>5, <1>6, LineAsChain, SameStages DEF Abstract!Init, Lives

LEMMA StepAsChain == Wiring /\ Wiring' /\ [Next]_vars => [Abstract!Next]_(Abstract!vars)
<1> SUFFICES ASSUME Wiring, Wiring', [Next]_vars
             PROVE  Abstract!Next \/ UNCHANGED Abstract!vars
  OBVIOUS
<1>1. CASE ShellStep
  BY <1>1, ShellAsChain
<1>2. CASE FreeTree \/ NextLine
  BY <1>2, LinesAsChain
<1>3. CASE EndOfInput
  BY <1>3, EndAsChain
<1>4. ASSUME NEW n \in Stage, StageStep(n)
      PROVE  Abstract!Next \/ UNCHANGED Abstract!vars
  <2>1. CASE DupEnds(n) \/ Redirect(n) \/ CloseEnds(n)
    BY <2>1, SetupAsChain
  <2>2. CASE \/ ReadItem(n) \/ ReadEnd(n) \/ WriteItem(n) \/ WriteBroken(n) \/ Finish(n)
    BY <2>2, ProgramAsChain
  <2>3. QED
    BY <1>4, <2>1, <2>2 DEF StageStep
<1>5. CASE UNCHANGED vars
  <2>1. UNCHANGED <<line, io>> /\ UNCHANGED <<at, table, pc>>
    BY <1>5 DEF vars, line, io
  <2>2. \A n \in Stage : Life(n)' = Life(n)
    BY <2>1, LifeStays
  <2>3. QED
    BY <2>1, <2>2, IsStutter DEF Lives
<1>6. QED
  BY <1>1, <1>2, <1>3, <1>4, <1>5 DEF Next

\* However the kernel numbers the descriptors, and whichever pipe() or fork()
\* fails, a pipeline is a chain of processes and bounded FIFO buffers: a stage
\* reads the end of its input, or is stopped by SIGPIPE, only when the stage
\* before it, or behind it, is down or has turned away from it.
THEOREM PipelineIsChain == Spec => ImplementsChain
<1>1. Init => Abstract!Init
  BY InitAsChain
<1>2. Init => Wiring
  BY InitWiring
<1>3. Wiring /\ [Next]_vars => Wiring'
  BY StepWiring
<1>4. Wiring /\ Wiring' /\ [Next]_vars => [Abstract!Next]_(Abstract!vars)
  BY StepAsChain
<1>5. QED
  BY <1>1, <1>2, <1>3, <1>4, PTL DEF Spec, ImplementsChain, Abstract!Spec
-----------------------------------------------------------------------------
(* No stage is left blocked.                                               *)

\* A process that is not there yet, or no longer, has no descriptors.
HoldNothing == \A n \in Stage : at[n] \in {"none", "zombie", "reaped"} => table[n] = Closed

\* A program that reads the pipe in front of it was not given the reading end 0.
Reading == \A n \in Stage : at[n] = "run" /\ n > 1 /\ table[n][0] # None => fd[n - 1][1] # 0

\* The shell keeps the writing end only of a pipe whose reading end was 0.
Kept == \A n \in Stage, f \in Fd :
  table[Shell][f] = Wr(n) /\ fd[n][1] # 0 =>
    pc \in {"pipe", "fork", "close"} /\ n >= node - 1

\* No stage is waited for before its turn.
Unwaited ==
  /\ pc \in {"pipe", "fork", "close"} => \A n \in Stage : at[n] # "reaped"
  /\ pc = "wait" => \A n \in Stage : n >= node => at[n] # "reaped"

\* What no step of a line leaves behind.
Behind == /\ HoldNothing /\ Reading /\ Kept /\ Unwaited
          /\ pc = "exited" => table[Shell] = Closed
          /\ \A n \in Stage : n >= last => fd[n] = <<0, 0>>

LEMMA InitBehind == Init => Behind
<1> SUFFICES ASSUME Init
             PROVE  Behind
  OBVIOUS
<1>1. \A n \in Stage : n \in 0..NStages /\ n # Shell /\ at[n] = "none" /\ fd[n] = <<0, 0>>
  BY Constants DEF Init, Shell
<1>2. HoldNothing
  BY <1>1 DEF Init, HoldNothing
<1>3. Kept
  BY <1>1 DEF Kept
<1>4. QED
  BY <1>1, <1>2, <1>3 DEF Init, Behind, Reading, Unwaited

\* The shell closes a pipe for good whose reading end is not 0.
LEMMA ClosesBoth ==
  ASSUME NEW t \in Tables, NEW s \in Tables, NEW p \in Fd \X Fd, NEW q \in Fd \X Fd,
         NEW k \in Stage, k > 1, NEW b \in BOOLEAN, NEW c \in BOOLEAN, NEW lim \in 4..NFds,
         Carry(t, p, k, b, lim), s = t \/ Piped(t, s, q, k, b, c, lim), p[1] # 0
  PROVE  \A f \in Fd : close_pipe_fd(s, p)[f] # Wr(k - 1)
<1>1. /\ p[1] \in Fd /\ p[2] \in Fd /\ p[1] # p[2] /\ p[1] > 2
      /\ t[p[1]] = Rd(k - 1) /\ t[p[2]] = Wr(k - 1)
      /\ \A f \in Fd : f > 2 /\ f # p[1] /\ f # p[2] => t[f] = None
      /\ t[0] \in {Terminal, None} /\ t[1] = Terminal /\ t[2] = Terminal
  BY DEF Carry
<1>2. \A f \in Fd : f # p[2] => t[f] # Wr(k - 1)
  <2> TAKE f \in Fd
  <2>1. f \in {0, 1, 2} \/ f > 2
    BY DEF Fd
  <2>2. QED
    BY <1>1, <2>1, Descriptors
<1>3. s[p[1]] # None /\ \A f \in Fd : f # p[2] => s[f] # Wr(k - 1)
  <2>1. CASE s = t
    BY <1>1, <1>2, <2>1, Descriptors
  <2>2. CASE /\ q[1] \in FreeIn(t, lim) /\ q[2] \in FreeIn(t, lim)
             /\ s = [t EXCEPT ![q[1]] = Rd(k), ![q[2]] = Wr(k)]
    <3>1. k # k - 1 /\ k \in Nat
      BY Constants DEF Stage
    <3>2. \A f \in Fd : s[f] \in {Rd(k), Wr(k), t[f]}
      BY <2>2 DEF Tables
    <3>3. p[1] # q[1] /\ p[1] # q[2]
      BY <1>1, <2>2, Descriptors DEF FreeIn
    <3>4. QED
      BY <1>1, <1>2, <2>2, <3>1, <3>2, <3>3, Descriptors DEF Tables
  <2>3. QED
    BY <2>1, <2>2 DEF Piped
<1>4. close_pipe_fd(s, p) = [s EXCEPT ![p[1]] = None, ![p[2]] = None]
  BY <1>3 DEF close_pipe_fd
<1>5. QED
  BY <1>1, <1>3, <1>4, Descriptors DEF Tables

LEMMA ShellBehind ==
  ASSUME Wiring, Behind, CloseBehind
  PROVE  Behind'
<1>1. /\ node \in Stage /\ last \in 2..NStages /\ node <= last /\ pc = "close"
      /\ table[Shell] \in Tables /\ limit \in 4..NFds /\ failed \in BOOLEAN
      /\ TypeOK /\ ShellHas /\ Forking /\ InOrder
      /\ \A n \in Stage : n \in Nat /\ n \in 0..NStages /\ n # Shell /\ fd[n] \in Fd \X Fd
  <2>1. TypeOK /\ ShellHas /\ Forking /\ InOrder /\ pc = "close"
    BY DEF Wiring, ShellHas, CloseBehind
  <2>2. /\ node \in Stage /\ last \in 2..NStages
        /\ limit \in 4..NFds /\ failed \in BOOLEAN
        /\ fd \in [Stage -> Fd \X Fd] /\ table \in [0..NStages -> Tables]
    BY <2>1 DEF TypeOK, Tables
  <2>3. node <= last
    BY <2>1 DEF ShellHas
  <2>4. \A n \in Stage : n \in Nat /\ n \in 0..NStages /\ n # Shell /\ fd[n] \in Fd \X Fd
    BY <2>2, Constants DEF Stage, Shell
  <2>5. table[Shell] \in Tables
    BY <2>2, Constants DEF Shell
  <2>6. QED
    BY <2>1, <2>2, <2>3, <2>4, <2>5
<1>2. UNCHANGED <<line, fd, at>> /\ \A n \in Stage : table'[n] = table[n]
  BY <1>1 DEF CloseBehind, TypeOK
<1>3. table'[Shell] = IF node = 1 THEN table[Shell]
                      ELSE close_pipe_fd(table[Shell], fd[node - 1])
  BY <1>1, Constants DEF CloseBehind, TypeOK
<1>4. \/ node < last /\ node' = node + 1 /\ pc' \in {"pipe", "fork"}
      \/ node = last /\ node' = 1 /\ pc' = "wait"
  BY <1>1 DEF CloseBehind
<1>5. ASSUME node > 1, fd[node - 1][1] # 0
      PROVE  \A f \in Fd : table'[Shell][f] # Wr(node - 1)
  <2>1. node - 1 \in Stage /\ fd[node - 1] \in Fd \X Fd
    <3>1. node - 1 \in Stage
      BY <1>1, <1>5, Constants DEF Stage
    <3>2. QED
      BY <1>1, <3>1
  <2>2. \E t \in Tables, b \in BOOLEAN :
           /\ Carry(t, fd[node - 1], node, b, limit)
           /\ \/ table[Shell] = t
              \/ Piped(t, table[Shell], fd[node], node, b, failed, limit)
    BY <1>1, <1>5 DEF Forking, Before
  <2>3. \A f \in Fd : close_pipe_fd(table[Shell], fd[node - 1])[f] # Wr(node - 1)
    BY <1>1, <1>5, <2>1, <2>2, ClosesBoth
  <2>4. QED
    BY <1>1, <1>3, <1>5, <2>3
<1>6. \A n \in Stage, f \in Fd : table'[Shell][f] = Wr(n) => table[Shell][f] = Wr(n)
  <2>1. node # 1 => fd[node - 1] \in Fd \X Fd
    BY <1>1, Constants DEF Stage
  <2>2. QED
    BY <1>1, <1>3, <2>1, Descriptors DEF close_pipe_fd, Tables
<1>7. Kept'
  <2> SUFFICES ASSUME NEW n \in Stage, NEW f \in Fd, table'[Shell][f] = Wr(n), fd[n][1] # 0
               PROVE  pc' \in {"pipe", "fork", "close"} /\ n >= node' - 1
    BY <1>2 DEF Kept
  <2>1. n >= node - 1
    BY <1>6 DEF Behind, Kept
  <2>2. n < last
    BY <1>1 DEF Behind
  <2>3. n >= node
    <3> SUFFICES ASSUME n < node
                 PROVE  FALSE
      BY <1>1
    <3>1. n = node - 1 /\ node > 1
      BY <1>1, <2>1, Constants DEF Stage
    <3>2. QED
      BY <1>5, <3>1
  <2>4. QED
    BY <1>1, <1>4, <2>2, <2>3
<1>8. Unwaited'
  BY <1>1, <1>2, <1>4 DEF Behind, Unwaited
<1>9. QED
  BY <1>1, <1>2, <1>4, <1>7, <1>8 DEF Behind, HoldNothing, Reading, line

\* A stage's step.
LEMMA StageBehind ==
  ASSUME Wiring, Behind, NEW n \in Stage, StageStep(n)
  PROVE  Behind'
<1>1. /\ TypeOK /\ n \in 0..NStages /\ n # Shell /\ 0 \in Fd
      /\ \A m \in Stage : m \in 0..NStages /\ m # Shell /\ m \in Nat
  BY Constants DEF Wiring, TypeOK, Shell, Stage, Fd
<1>2. /\ UNCHANGED <<line, pc, node, fd, failed>>
      /\ \A p \in 0..NStages : p # n => table'[p] = table[p]
      /\ \A m \in Stage : m # n => at'[m] = at[m]
  BY <1>1, StageAlone
<1>3. /\ at[n] \in {"dup", "redirect", "close", "run"}
      /\ at'[n] \in {"redirect", "close", "run", "zombie"}
  BY <1>1, StageAlive
<1>4. table'[Shell] = table[Shell]
  BY <1>1, <1>2, Constants
<1>5. CASE Ends(n)
  <2>1. table'[n] = Closed /\ at'[n] = "zombie"
    BY <1>1, <1>5 DEF Ends, TypeOK
  <2>2. QED
    BY <1>1, <1>2, <1>3, <1>4, <2>1 DEF Behind, HoldNothing, Reading, Kept, Unwaited, line
<1>6. CASE ~Ends(n)
  <2>1. at'[n] # "zombie"
    <3>1. CASE ReadItem(n) \/ WriteItem(n)
      BY <1>3, <3>1 DEF ReadItem, WriteItem, Reads, Writes
    <3>2. CASE DupEnds(n) \/ Redirect(n) \/ CloseEnds(n)
      <4>1. \E t, w : Goes(n, t, w) /\ w # "zombie"
        BY <1>6, <3>2 DEF DupEnds, Redirect, CloseEnds
      <4>2. QED
        BY <1>1, <4>1 DEF Goes, TypeOK
    <3>3. QED
      BY <1>6, <3>1, <3>2 DEF StageStep, ReadEnd, WriteBroken, Finish
  <2>2. Reading'
    <3> SUFFICES ASSUME at'[n] = "run", n > 1, table'[n][0] # None
                 PROVE  fd[n - 1][1] # 0
      <4>1. \A m \in Stage : m # n => at'[m] = at[m] /\ table'[m] = table[m] /\ fd' = fd
        BY <1>1, <1>2
      <4>2. QED
        BY <1>2, <4>1 DEF Behind, Reading
    <3>1. CASE CloseEnds(n)
      <4>1. table[n] \in Tables /\ fd \in [Stage -> Fd \X Fd] /\ n - 1 \in Stage
        BY <1>1, Constants DEF TypeOK, Tables, Stage
      <4> DEFINE u == IF n < last THEN close_pipe_fd(table[n], fd[n]) ELSE table[n]
      <4>2. u \in Tables
        BY <4>1, ClosePipe
      <4> HIDE DEF u
      <4>3. Goes(n, close_pipe_fd(u, fd[n - 1]), "run") /\ ~close_fails(u, fd[n - 1])
        BY <1>6, <3>1 DEF CloseEnds, u
      <4>4. table'[n] = close_pipe_fd(u, fd[n - 1])
        BY <1>1, <4>3 DEF Goes, TypeOK
      <4>5. \A f \in Fd : (f = fd[n - 1][1]) => close_pipe_fd(u, fd[n - 1])[f] = None
        BY <4>1, <4>2, <4>3, CloseWorks
      <4>6. QED
        BY <1>1, <4>4, <4>5
    <3>2. CASE at[n] = "run" /\ table'[n] = table[n]
      BY <3>2 DEF Behind, Reading
    <3>3. QED
      <4>1. CASE ReadItem(n) \/ WriteItem(n)
        BY <3>2, <4>1 DEF ReadItem, WriteItem, Reads, Writes
      <4>2. CASE DupEnds(n)
        <5>1. \E t : Goes(n, t, "redirect")
          BY <1>6, <4>2 DEF DupEnds
        <5>2. QED
          BY <5>1, <1>1 DEF Goes, TypeOK
      <4>3. CASE Redirect(n)
        <5>1. \E t : Goes(n, t, "close")
          BY <1>6, <4>3 DEF Redirect
        <5>2. QED
          BY <5>1, <1>1 DEF Goes, TypeOK
      <4>4. QED
        BY <1>6, <3>1, <4>1, <4>2, <4>3 DEF StageStep, ReadEnd, WriteBroken, Finish
  <2>3. HoldNothing' /\ Unwaited' /\ Kept'
    BY <1>1, <1>2, <1>3, <1>4, <2>1 DEF Behind, HoldNothing, Kept, Unwaited, line
  <2>4. QED
    BY <1>2, <1>4, <2>2, <2>3 DEF Behind, line
<1>7. QED
  BY <1>5, <1>6

\* The shell's steps but CloseBehind.
LEMMA OthersBehind ==
  ASSUME Wiring, Behind,
         \/ MakePipe \/ Fork \/ ForkFails \/ Wait \/ FreeTree \/ NextLine \/ EndOfInput
  PROVE  Behind'
<1>1. /\ node \in Stage /\ last \in 2..NStages /\ at \in [Stage -> Places]
      /\ TypeOK /\ ShellHas /\ InOrder /\ Unborn /\ table \in [0..NStages -> Tables]
      /\ \A n \in Stage : n \in Nat /\ n \in 0..NStages /\ n # Shell
      /\ Shell \in 0..NStages
  BY Constants DEF Wiring, TypeOK, Tables, Stage, Shell, Stages, Places
<1>2. CASE MakePipe
  <2>1. /\ pc = "pipe" /\ pc' = "fork" /\ UNCHANGED <<line, node, at>> /\ node < last
        /\ \A n \in Stage : n # node => fd'[n] = fd[n]
    BY <1>1, <1>2, PipeMade DEF MakePipe, ShellHas, Turned
  <2>2. \A n \in Stage : table'[n] = table[n]
    BY <1>1, <1>2 DEF MakePipe
  <2>3. \A n \in Stage : at[n] = "run" => n < node
    BY <1>1, <2>1 DEF Unborn
  <2>4. Reading'
    <3> SUFFICES ASSUME NEW n \in Stage, at[n] = "run", n > 1, table[n][0] # None
                 PROVE  fd'[n - 1][1] # 0
      BY <2>1, <2>2 DEF Reading
    <3>1. n - 1 \in Stage /\ n - 1 # node
      BY <1>1, <2>3, Constants DEF Stage
    <3>2. QED
      BY <2>1, <3>1 DEF Behind, Reading
  <2>5. Kept'
    <3> SUFFICES ASSUME NEW n \in Stage, NEW f \in Fd, table'[Shell][f] = Wr(n),
                        fd'[n][1] # 0, n < node - 1
                 PROVE  FALSE
      BY <1>1, <2>1 DEF Kept
    <3>1. fd'[n] = fd[n] /\ node # n
      BY <1>1, <2>1
    <3>2. \/ table'[Shell] = table[Shell]
          \/ \E r, w : table'[Shell] = [table[Shell] EXCEPT ![r] = Rd(node), ![w] = Wr(node)]
      <4>1. Piped(table[Shell], table'[Shell], fd'[node], node, failed, failed', limit)
        BY <1>1, <1>2, PipeMade
      <4>2. QED
        BY <4>1 DEF Piped
    <3>3. table[Shell] \in Tables
      BY <1>1
    <3>4. table'[Shell][f] \in {table[Shell][f], Rd(node), Wr(node)}
      BY <3>2, <3>3 DEF Tables
    <3>5. table[Shell][f] = Wr(n)
      BY <3>1, <3>4, Descriptors
    <3>6. QED
      BY <1>1, <3>1, <3>5 DEF Behind, Kept
  <2>6. HoldNothing' /\ Unwaited'
    BY <2>1, <2>2 DEF Behind, HoldNothing, Unwaited
  <2>7. \A n \in Stage : n >= last => fd'[n] = <<0, 0>>
    BY <1>1, <2>1 DEF Behind
  <2>8. QED
    BY <2>1, <2>4, <2>5, <2>6, <2>7 DEF Behind, line
<1>3. CASE Fork
  <2>1. /\ pc = "fork" /\ pc' = "close" /\ UNCHANGED <<line, node, fd>>
        /\ at'[node] = "dup" /\ \A n \in Stage : n # node => at'[n] = at[n]
        /\ table'[Shell] = table[Shell]
        /\ \A n \in Stage : n # node => table'[n] = table[n]
    BY <1>1, <1>3 DEF Fork
  <2>2. HoldNothing' /\ Unwaited' /\ Reading' /\ Kept'
    BY <1>1, <2>1 DEF Behind, HoldNothing, Unwaited, Reading, Kept
  <2>3. QED
    BY <2>1, <2>2 DEF Behind, line
<1>4. CASE ForkFails \/ EndOfInput
  <2>1. /\ pc' = "exited" /\ table'[Shell] = Closed /\ UNCHANGED <<line, node, fd, at>>
        /\ \A n \in Stage : table'[n] = table[n]
    BY <1>1, <1>4 DEF ForkFails, EndOfInput
  <2>2. Kept'
    BY <2>1, Descriptors DEF Kept, Closed
  <2>3. HoldNothing' /\ Unwaited' /\ Reading'
    BY <2>1 DEF Behind, HoldNothing, Unwaited, Reading
  <2>4. QED
    BY <2>1, <2>2, <2>3 DEF Behind, line
<1>5. CASE Wait
  <2>1. /\ pc = "wait" /\ UNCHANGED <<line, fd, table>> /\ at[node] = "zombie"
        /\ at'[node] = "reaped" /\ \A n \in Stage : n # node => at'[n] = at[n]
        /\ \/ pc' = "done"
           \/ pc' = "wait" /\ node' = node + 1
    BY <1>1, <1>5 DEF Wait
  <2>2. HoldNothing' /\ Reading'
    BY <2>1 DEF Behind, HoldNothing, Reading
  <2>3. Unwaited'
    BY <1>1, <2>1 DEF Behind, Unwaited
  <2>4. Kept'
    BY <2>1 DEF Behind, Kept
  <2>5. QED
    BY <2>1, <2>2, <2>3, <2>4 DEF Behind, line
<1>6. CASE FreeTree
  <2>1. /\ pc = "done" /\ pc' = "prompt" /\ UNCHANGED <<table, last>>
        /\ \A n \in Stage : at'[n] = "none" /\ fd'[n] = <<0, 0>>
    BY <1>6 DEF FreeTree
  <2>2. \A n \in Stage : at[n] \in {"none", "reaped"}
    <3>1. \A n \in Stage : n <= last \/ n > last
      BY <1>1, Constants
    <3>2. QED
      BY <1>1, <2>1, <3>1 DEF InOrder, Unborn
  <2>3. QED
    BY <2>1, <2>2 DEF Behind, HoldNothing, Reading, Kept, Unwaited
<1>7. CASE NextLine
  <2>1. /\ pc = "prompt" /\ pc' = "pipe" /\ UNCHANGED table
        /\ \A n \in Stage : at'[n] = "none" /\ fd'[n] = <<0, 0>>
    BY <1>7 DEF NextLine, LineStart
  <2>2. \A n \in Stage : at[n] = "none"
    BY <1>1, <2>1 DEF InOrder
  <2>3. QED
    BY <2>1, <2>2 DEF Behind, HoldNothing, Reading, Kept, Unwaited
<1>8. QED
  BY <1>2, <1>3, <1>4, <1>5, <1>6, <1>7

LEMMA StepBehind == Wiring /\ Behind /\ [Next]_vars => Behind'
<1> SUFFICES ASSUME Wiring, Behind, [Next]_vars
             PROVE  Behind'
  OBVIOUS
<1>1. CASE UNCHANGED vars
  BY <1>1 DEF vars, Behind, HoldNothing, Reading, Kept, Unwaited
<1>2. QED
  BY <1>1, ShellBehind, StageBehind, OthersBehind DEF Next, ShellStep
-----------------------------------------------------------------------------
\* Stage n can take a step: the guards of StageStep(n).
CanStep(n) ==
  \/ at[n] \in {"dup", "redirect", "close"}
  \/ Reads(n) /\ (In(n) # 0 => buf[In(n)] > 0 \/ Writers(In(n)) = {})
  \/ Writes(n) /\ (Out(n) # 0 => buf[Out(n)] < Capacity \/ Readers(Out(n)) = {})
  \/ at[n] = "run" /\ prog[n] # "cat" /\ todo[n] = 0

Alive == {n \in Stage : at[n] \in {"dup", "redirect", "close", "run"}}

\* Behind the last fork, some stage can go on as long as there is one, and
\* then the shell can.
NeverStuck ==
  pc \in {"wait", "done", "prompt", "exited"} =>
    \/ \E n \in Stage : CanStep(n)
    \/ Alive = {} /\ (pc = "wait" => at[node] = "zombie")

\* Only stages that can step do.
LEMMA StepsCan == \A n \in Stage : TypeOK /\ StageStep(n) => CanStep(n)
BY DEF TypeOK, StageStep, DupEnds, Redirect, CloseEnds, ReadItem, ReadEnd, WriteItem, WriteBroken,
       Finish, CanStep, Reads, Writes

\* A pipe that somebody holds the reading end of has the stage behind it running.
LEMMA WhoReads ==
  ASSUME Wiring, Behind, pc \in {"wait", "done", "prompt", "exited"},
         \A n \in Stage : at[n] \notin {"dup", "redirect", "close"},
         NEW m \in Stage, Readers(m) # {}
  PROVE  m + 1 \in Stage /\ at[m + 1] = "run" /\ table[m + 1][0] = Rd(m)
<1>1. PICK p \in 0..NStages, f \in Fd : table[p][f] = Rd(m)
  BY DEF Readers
<1>2. TypeOK /\ ShellTableRestored /\ Stages
  BY LeftIsRestored DEF Wiring
<1>3. p # Shell
  <2>1. pc = "exited" => table[Shell] = Closed
    BY DEF Behind
  <2>2. table[Shell] # Closed => table[Shell][f] # Rd(m)
    BY <1>2, <2>1, Descriptors DEF ShellTableRestored, Inherited, STDIN
  <2>3. QED
    BY <1>1, <2>2, Descriptors DEF Closed
<1>4. p \in Stage
  BY <1>3, Constants DEF Shell, Stage
<1>5. at[p] = "run"
  <2>1. at[p] \notin {"none", "zombie", "reaped"}
    BY <1>1, <1>4, Descriptors DEF Behind, HoldNothing, Closed
  <2>2. QED
    BY <1>2, <1>4, <2>1 DEF TypeOK
<1>6. Runs(p) /\ p \in Nat /\ m \in Nat
  BY <1>2, <1>4, <1>5, Constants DEF Stages, Grown, Stage
<1>7. f = 0 /\ table[p][0] = Rd(p - 1)
  <2>1. f \in {0, 1} \/ f > 1
    BY DEF Fd
  <2>2. QED
    BY <1>1, <1>6, <2>1, Descriptors DEF Runs, Plain
<1>8. p - 1 = m
  BY <1>1, <1>7, Descriptors
<1>9. p = m + 1
  BY <1>6, <1>8
<1>10. QED
  BY <1>1, <1>4, <1>5, <1>7, <1>9

\* A pipe that somebody holds the writing end of has the stage in front of it
\* running, unless its reading end was 0 and the shell has lost it.
LEMMA WhoWrites ==
  ASSUME Wiring, Behind, pc \in {"wait", "done", "prompt", "exited"},
         \A n \in Stage : at[n] \notin {"dup", "redirect", "close"},
         NEW m \in Stage, Writers(m) # {}, fd[m][1] # 0
  PROVE  at[m] = "run"
<1>1. PICK p \in 0..NStages, f \in Fd : table[p][f] = Wr(m)
  BY DEF Writers
<1>2. TypeOK /\ Stages
  BY DEF Wiring
<1>3. p # Shell
  BY <1>1 DEF Behind, Kept
<1>4. p \in Stage
  BY <1>3, Constants DEF Shell, Stage
<1>5. at[p] = "run"
  <2>1. at[p] \notin {"none", "zombie", "reaped"}
    BY <1>1, <1>4, Descriptors DEF Behind, HoldNothing, Closed
  <2>2. QED
    BY <1>2, <1>4, <2>1 DEF TypeOK
<1>6. Runs(p)
  BY <1>2, <1>4, <1>5 DEF Stages, Grown
<1>7. p = m
  <2>1. f \in {0, 1} \/ f > 1
    BY DEF Fd
  <2>2. QED
    BY <1>1, <1>6, <2>1, Descriptors DEF Runs, Plain
<1>8. QED
  BY <1>5, <1>7

\* What a running program that cannot go on waits for.
LEMMA BlockedBy ==
  ASSUME Wiring, Behind, pc \in {"wait", "done", "prompt", "exited"},
         \A m \in Stage : ~CanStep(m), NEW n \in Stage, at[n] = "run"
  PROVE  \/ /\ todo[n] > 0 /\ buf[n] >= Capacity
            /\ n + 1 \in Stage /\ at[n + 1] = "run" /\ In(n + 1) = n
         \/ /\ todo[n] = 0 /\ In(n) = n - 1 /\ buf[n - 1] = 0
            /\ n - 1 \in Stage /\ at[n - 1] = "run"
<1>1. /\ TypeOK /\ todo[n] \in Nat /\ n \in Nat /\ n >= 1 /\ NStages \in Nat
      /\ Capacity \in Nat /\ \A m \in Stage : buf[m] \in Nat /\ buf[m] <= Capacity
      /\ Items \in Nat
  BY Constants DEF Wiring, TypeOK, Stage
<1>2. \A m \in Stage : at[m] \notin {"dup", "redirect", "close"}
  BY DEF CanStep
<1>3. /\ In(n) # 0 => In(n) = n - 1
      /\ Out(n) # 0 => Out(n) = n
  BY RunFacts
<1>4. CASE todo[n] > 0
  <2>1. Out(n) # 0 /\ ~(buf[Out(n)] < Capacity) /\ Readers(Out(n)) # {}
    BY <1>4 DEF CanStep, Writes
  <2>2. ~(buf[n] < Capacity) /\ Readers(n) # {}
    BY <1>3, <2>1
  <2>3. n + 1 \in Stage /\ at[n + 1] = "run" /\ table[n + 1][0] = Rd(n)
    BY <1>2, <2>2, WhoReads
  <2>4. In(n + 1) = n
    BY <2>3 DEF In, Rd, STDIN
  <2>5. QED
    BY <1>1, <1>4, <2>2, <2>3, <2>4
<1>5. CASE todo[n] = 0
  <2>1. Reads(n)
    BY <1>5 DEF CanStep, Reads
  <2>2. In(n) # 0 /\ ~(buf[In(n)] > 0) /\ Writers(In(n)) # {}
    BY <2>1 DEF CanStep
  <2>3. In(n) = n - 1 /\ n > 1
    BY <1>1, <1>3, <2>2
  <2>4. n - 1 \in Stage
    BY <1>1, <2>3 DEF Stage
  <2>5. ~(buf[n - 1] > 0) /\ Writers(n - 1) # {}
    BY <2>2, <2>3
  <2>6. table[n][0] # None
    BY <2>2 DEF In, None, STDIN
  <2>7. fd[n - 1][1] # 0
    BY <2>3, <2>6 DEF Behind, Reading
  <2>8. at[n - 1] = "run"
    BY <1>2, <2>4, <2>5, <2>7, WhoWrites
  <2>9. buf[n - 1] = 0
    BY <1>1, <2>4, <2>5
  <2>10. QED
    BY <1>5, <2>3, <2>4, <2>8, <2>9
<1>6. QED
  BY <1>1, <1>4, <1>5

\* The last stage that has something to write would wait for one that waits for
\* what is there; so all wait for input, the first of them for nobody.
LEMMA SomeStageSteps == Wiring /\ Behind => NeverStuck
<1> SUFFICES ASSUME Wiring, Behind, pc \in {"wait", "done", "prompt", "exited"},
                    \A n \in Stage : ~CanStep(n)
             PROVE  Alive = {} /\ (pc = "wait" => at[node] = "zombie")
  BY DEF NeverStuck
<1>1. /\ TypeOK /\ InOrder /\ NStages \in Nat /\ Capacity \in Nat \ {0} /\ node \in Stage
      /\ \A n \in Stage : n \in Nat /\ n >= 1 /\ n <= NStages
  BY Constants, PipelineAssumption DEF Wiring, TypeOK, Stage
<1> DEFINE Run == {n \in Stage : at[n] = "run"}
<1>2. ASSUME NEW n \in Run, todo[n] > 0
      PROVE  n + 1 \in Run /\ todo[n + 1] > 0
  <2>1. /\ buf[n] >= Capacity /\ n + 1 \in Stage /\ at[n + 1] = "run" /\ In(n + 1) = n
    BY <1>2, BlockedBy
  <2>2. buf[n] # 0
    BY <1>1, <2>1 DEF TypeOK
  <2>3. (n + 1) - 1 = n
    BY <1>1
  <2>4. todo[n + 1] > 0
    BY <2>1, <2>2, <2>3, BlockedBy
  <2>5. QED
    BY <2>1, <2>4
<1>3. ASSUME NEW n \in Run
      PROVE  ~(todo[n] > 0)
  <2> DEFINE S == {j \in Nat : \E k \in Run : todo[k] > 0 /\ j = NStages - k}
  <2>1. ASSUME NEW j \in S
        PROVE  \E i \in S : i < j
    <3>1. PICK k \in Run : todo[k] > 0 /\ j = NStages - k
      OBVIOUS
    <3>2. k + 1 \in Run /\ todo[k + 1] > 0
      BY <1>2, <3>1
    <3>3. k + 1 <= NStages /\ k \in Nat
      BY <1>1, <3>2
    <3>4. NStages - (k + 1) \in Nat /\ NStages - (k + 1) < j
      BY <1>1, <3>1, <3>3
    <3>5. QED
      BY <3>2, <3>4
  <2>2. S \in SUBSET Nat /\ (todo[n] > 0 => NStages - n \in S)
    BY <1>1
  <2> HIDE DEF S
  <2>3. S = {}
    <3> SUFFICES ASSUME S # {}
                 PROVE  FALSE
      OBVIOUS
    <3>1. PICK j \in S : \A i \in S : j <= i
      BY <2>2, Least
    <3>2. PICK i \in S : i < j
      BY <2>1
    <3>3. j \in Nat /\ i \in Nat /\ j <= i
      BY <2>2, <3>1
    <3>4. QED
      BY <3>2, <3>3
  <2>4. QED
    BY <2>2, <2>3
<1>4. ASSUME NEW n \in Run
      PROVE  n - 1 \in Run
  BY <1>3, BlockedBy
<1>5. Run = {}
  <2> SUFFICES ASSUME Run # {}
               PROVE  FALSE
    OBVIOUS
  <2>1. Run \in SUBSET Nat
    BY <1>1
  <2> HIDE DEF Run
  <2>2. PICK n \in Run : \A m \in Run : n <= m
    BY <2>1, Least
  <2>3. n - 1 \in Run /\ n \in Nat
    BY <1>4, <2>1
  <2>4. n <= n - 1
    BY <2>2, <2>3
  <2>5. QED
    BY <2>3, <2>4
<1>6. Alive = {}
  BY <1>5 DEF Alive, CanStep
<1>7. pc = "wait" => at[node] = "zombie"
  <2> HAVE pc = "wait"
  <2>1. at[node] \notin {"none", "reaped"}
    BY <1>1 DEF InOrder, Behind, Unwaited
  <2>2. QED
    BY <1>1, <1>6, <2>1 DEF Alive, TypeOK
<1>8. QED
  BY <1>6, <1>7

\* A pipeline does not deadlock, however many stages it has and whatever its
\* pipes hold, also behind a failed pipe() or fork(): behind the last fork some
\* stage can go on as long as there is one, and then the shell can reap the one
\* it waits for.
THEOREM NoStageStuck == Spec => []NeverStuck
<1>1. Init => Wiring /\ Behind
  BY InitWiring, InitBehind
<1>2. Wiring /\ Behind /\ [Next]_vars => (Wiring /\ Behind)'
  BY StepWiring, StepBehind
<1>3. Wiring /\ Behind => NeverStuck
  BY SomeStageSteps
<1>4. QED
  BY <1>1, <1>2, <1>3, PTL DEF Spec
-----------------------------------------------------------------------------
\* What is left to do of a line: for the shell the calls of execute_pipe(), for
\* a stage the steps of set_pipe() and of its program.  An item counts more the
\* more stages it has before it, and less in a pipe than in front of one.
Rank(where) == CASE where = "none"     -> 6
                 [] where = "dup"      -> 5
                 [] where = "redirect" -> 4
                 [] where = "close"    -> 3
                 [] where = "run"      -> 2
                 [] where = "zombie"   -> 1
                 [] OTHER              -> 0

ShellOwes == CASE pc = "pipe"  -> 3 * (NStages - node) + 3
               [] pc = "fork"  -> 3 * (NStages - node) + 2
               [] pc = "close" -> 3 * (NStages - node) + 1
               [] OTHER        -> 0

Owes(n) == Rank(at[n]) + todo[n] * (2 * (NStages - n) + 2) + buf[n] * (2 * (NStages - n) + 1)

Owed == [p \in 0..NStages |-> IF p = Shell THEN ShellOwes ELSE Owes(p)]

\* What they all owe, as so many single steps.
Steps(owed) == UNION {{p} \X (1..owed[p]) : p \in 0..NStages}

Remaining == Cardinality(Steps(Owed))

Debts == [0..NStages -> Nat]

\* There are finitely many of them ...
LEMMA StepsFinite ==
  ASSUME NEW w \in Debts
  PROVE  IsFiniteSet(Steps(w)) /\ Cardinality(Steps(w)) \in Nat
<1> DEFINE f == [p \in 0..NStages |-> {p} \X (1..w[p])]
           S == {{p} \X (1..w[p]) : p \in 0..NStages}
<1>1. f \in Surjection(0..NStages, S)
  BY DEF Surjection
<1>2. IsFiniteSet(0..NStages)
  BY Constants, FS_Interval
<1>3. IsFiniteSet(S)
  BY <1>1, <1>2, FS_Surjection
<1>4. ASSUME NEW T \in S
      PROVE  IsFiniteSet(T)
  <2>1. PICK p \in 0..NStages : T = {p} \X (1..w[p])
    OBVIOUS
  <2>2. IsFiniteSet({p}) /\ IsFiniteSet(1..w[p])
    <3>1. 1 \in Int /\ w[p] \in Int
      BY DEF Debts
    <3>2. IsFiniteSet(1..w[p])
      BY <3>1, FS_Interval
    <3>3. QED
      BY <3>2, FS_Singleton
  <2>3. QED
    BY <2>1, <2>2, FS_Product
<1>5. IsFiniteSet(UNION S)
  BY <1>3, <1>4, FS_UNION
<1>6. QED
  BY <1>5, FS_CardinalityType DEF Steps

\* ... and fewer when one process owes less, and none more.
LEMMA Fewer ==
  ASSUME NEW w \in Debts, NEW u \in Debts, \A p \in 0..NStages : u[p] <= w[p],
         NEW i \in 0..NStages, u[i] < w[i]
  PROVE  Cardinality(Steps(u)) < Cardinality(Steps(w))
<1>1. Steps(u) \in SUBSET Steps(w)
  <2> SUFFICES ASSUME NEW s \in Steps(u)
               PROVE  s \in Steps(w)
    OBVIOUS
  <2>1. PICK p \in 0..NStages : s \in {p} \X (1..u[p])
    BY DEF Steps
  <2>2. 1..u[p] \subseteq 1..w[p]
    BY DEF Debts
  <2>3. s \in {p} \X (1..w[p])
    BY <2>1, <2>2
  <2>4. QED
    BY <2>3 DEF Steps
<1>2. <<i, w[i]>> \in Steps(w)
  <2>1. <<i, w[i]>> \in {i} \X (1..w[i])
    BY DEF Debts
  <2>2. QED
    BY <2>1 DEF Steps
<1>3. <<i, w[i]>> \notin Steps(u)
  <2> SUFFICES ASSUME <<i, w[i]>> \in Steps(u)
               PROVE  FALSE
    OBVIOUS
  <2>1. PICK p \in 0..NStages : <<i, w[i]>> \in {p} \X (1..u[p])
    BY DEF Steps
  <2>2. p = i /\ w[i] <= u[i]
    BY <2>1 DEF Debts
  <2>3. QED
    BY <2>2 DEF Debts
<1>4. Cardinality(Steps(u)) <= Cardinality(Steps(w)) /\ Cardinality(Steps(u)) # Cardinality(Steps(w))
  BY <1>1, <1>2, <1>3, StepsFinite, FS_Subset
<1>5. QED
  BY <1>4, StepsFinite

\* The steps of two processes, and those of the others.
LEMMA Apart ==
  ASSUME NEW w \in Debts, NEW i \in 0..NStages, NEW j \in 0..NStages, i # j
  PROVE  LET Others == Steps([w EXCEPT ![i] = 0, ![j] = 0])
         IN  /\ Cardinality(Others) \in Nat
             /\ Cardinality(Steps(w)) = Cardinality(Others) + w[i] + w[j]
<1> DEFINE v == [w EXCEPT ![i] = 0, ![j] = 0]
           A == {i} \X (1..w[i])
           B == {j} \X (1..w[j])
<1>1. v \in Debts /\ w[i] \in Nat /\ w[j] \in Nat
  BY DEF Debts
<1>2. \A p \in 0..NStages : v[p] = IF p = i \/ p = j THEN 0 ELSE w[p]
  BY DEF Debts
<1> HIDE DEF v
<1>3. Steps(w) = Steps(v) \cup (A \cup B)
  <2>1. ASSUME NEW s \in Steps(w)
        PROVE  s \in Steps(v) \cup (A \cup B)
    <3>1. PICK p \in 0..NStages : s \in {p} \X (1..w[p])
      BY DEF Steps
    <3>2. CASE p = i \/ p = j
      BY <3>1, <3>2
    <3>3. CASE p # i /\ p # j
      BY <1>2, <3>1, <3>3 DEF Steps
    <3>4. QED
      BY <3>2, <3>3
  <2>2. ASSUME NEW s \in Steps(v)
        PROVE  s \in Steps(w)
    <3>1. PICK p \in 0..NStages : s \in {p} \X (1..v[p])
      BY DEF Steps
    <3>2. p # i /\ p # j
      BY <1>2, <3>1
    <3>3. QED
      BY <1>2, <3>1, <3>2 DEF Steps
  <2>3. A \subseteq Steps(w) /\ B \subseteq Steps(w)
    BY DEF Steps
  <2>4. QED
    BY <2>1, <2>2, <2>3
<1>4. Steps(v) \cap (A \cup B) = {}
  <2> SUFFICES ASSUME NEW s \in Steps(v)
               PROVE  s \notin A \cup B
    OBVIOUS
  <2>1. PICK p \in 0..NStages : s \in {p} \X (1..v[p])
    BY DEF Steps
  <2>2. p # i /\ p # j
    BY <1>2, <2>1
  <2>3. QED
    BY <2>1, <2>2
<1>5. A \cap B = {}
  OBVIOUS
<1>6. /\ IsFiniteSet(A) /\ Cardinality(A) = w[i]
      /\ IsFiniteSet(B) /\ Cardinality(B) = w[j]
  <2>1. ASSUME NEW p, NEW k \in Nat
        PROVE  IsFiniteSet({p} \X (1..k)) /\ Cardinality({p} \X (1..k)) = k
    <3>1. IsFiniteSet({p}) /\ Cardinality({p}) = 1
      BY FS_Singleton
    <3>2. IsFiniteSet(1..k) /\ Cardinality(1..k) = k
      <4>1. 1 \in Int /\ k \in Int /\ (1 > k => k = 0) /\ k - 1 + 1 = k
        OBVIOUS
      <4>2. /\ IsFiniteSet(1..k)
            /\ Cardinality(1..k) = IF 1 > k THEN 0 ELSE k - 1 + 1
        BY <4>1, FS_Interval
      <4>3. QED
        BY <4>1, <4>2
    <3> DEFINE P == {p}
               K == 1..k
    <3> HIDE DEF P, K
    <3>3. IsFiniteSet(P) /\ Cardinality(P) = 1 /\ IsFiniteSet(K) /\ Cardinality(K) = k
      BY <3>1, <3>2 DEF P, K
    <3>4. IsFiniteSet(P \X K) /\ Cardinality(P \X K) = Cardinality(P) * Cardinality(K)
      BY <3>3, FS_Product, Zenon
    <3>5. IsFiniteSet(P \X K) /\ Cardinality(P \X K) = k
      BY <3>3, <3>4
    <3>6. QED
      BY <3>5 DEF P, K
  <2>2. QED
    BY <1>1, <2>1
<1>7. IsFiniteSet(A \cup B) /\ Cardinality(A \cup B) = w[i] + w[j]
  BY <1>1, <1>5, <1>6, FS_Union, FS_EmptySet
<1>8. IsFiniteSet(Steps(v)) /\ Cardinality(Steps(v)) \in Nat
  BY <1>1, StepsFinite
<1>9. Cardinality(Steps(w)) = Cardinality(Steps(v)) + (w[i] + w[j])
  <2>1. Cardinality(Steps(v) \cup (A \cup B)) =
          Cardinality(Steps(v)) + Cardinality(A \cup B) - Cardinality({})
    BY <1>4, <1>7, <1>8, FS_Union
  <2>2. QED
    BY <1>1, <1>3, <1>7, <1>8, <2>1, FS_EmptySet
<1>10. Cardinality(Steps(w)) = Cardinality(Steps(v)) + w[i] + w[j]
  BY <1>1, <1>8, <1>9
<1>11. QED
  BY <1>8, <1>10 DEF v

\* Between two processes it is what they owe together that counts.
LEMMA Traded ==
  ASSUME NEW w \in Debts, NEW u \in Debts, NEW i \in 0..NStages, NEW j \in 0..NStages, i # j,
         \A p \in 0..NStages : p # i /\ p # j => u[p] = w[p], u[i] + u[j] < w[i] + w[j]
  PROVE  Cardinality(Steps(u)) < Cardinality(Steps(w))
<1> DEFINE v == [w EXCEPT ![i] = 0, ![j] = 0]
<1>1. v = [u EXCEPT ![i] = 0, ![j] = 0]
  BY DEF Debts
<1>2. /\ Cardinality(Steps(v)) \in Nat
      /\ Cardinality(Steps(w)) = Cardinality(Steps(v)) + w[i] + w[j]
  BY Apart
<1>3. Cardinality(Steps(u)) = Cardinality(Steps(v)) + u[i] + u[j]
  BY <1>1, Apart
<1>4. w[i] \in Nat /\ w[j] \in Nat /\ u[i] \in Nat /\ u[j] \in Nat
  BY DEF Debts
<1>5. QED
  BY <1>2, <1>3, <1>4

\* What every process owes is a number ...
OwesNumbers ==
  /\ Owed \in Debts /\ Shell \in 0..NStages /\ ShellOwes \in Nat
  /\ \A n \in Stage : n \in 0..NStages /\ n # Shell /\ Owes(n) \in Nat

LEMMA DebtsTyped == TypeOK => OwesNumbers
<1> SUFFICES ASSUME TypeOK
             PROVE  OwesNumbers
  OBVIOUS
<1>1. NStages \in Nat /\ node \in 1..NStages
  BY Constants DEF TypeOK, Stage
<1>2. ShellOwes \in Nat
  BY <1>1 DEF ShellOwes
<1>3. ASSUME NEW n \in Stage
      PROVE  n \in 0..NStages /\ n # Shell /\ Owes(n) \in Nat
  <2>1. n \in 1..NStages
    BY DEF Stage
  <2>2. todo[n] \in Nat /\ buf[n] \in Nat
    BY Constants DEF TypeOK
  <2>3. 2 * (NStages - n) + 2 \in Nat /\ 2 * (NStages - n) + 1 \in Nat
    BY <1>1, <2>1
  <2>4. ASSUME NEW a \in Nat, NEW b \in Nat
        PROVE  a * b \in Nat
    BY <2>4
  <2>5. todo[n] * (2 * (NStages - n) + 2) \in Nat /\ buf[n] * (2 * (NStages - n) + 1) \in Nat
    BY <2>2, <2>3, <2>4
  <2>6. Rank(at[n]) \in Nat
    BY DEF Rank
  <2>7. QED
    BY <1>1, <2>1, <2>5, <2>6 DEF Owes, Shell
<1>4. Owed \in Debts
  <2>1. \A p \in 0..NStages : p # Shell => p \in Stage
    BY <1>1 DEF Stage, Shell
  <2>2. QED
    BY <1>2, <1>3, <2>1 DEF Owed, Debts
<1>5. QED
  BY <1>1, <1>2, <1>3, <1>4 DEF OwesNumbers, Shell

\* ... also behind a step.
LEMMA DebtsTypedNext == TypeOK' => OwesNumbers'
BY DebtsTyped, PTL

\* One process owes less, the others what they owed, or less.
LEMMA LessOwed ==
  ASSUME TypeOK, TypeOK', NEW i \in 0..NStages, Owed'[i] < Owed[i],
         \A p \in 0..NStages : Owed'[p] <= Owed[p]
  PROVE  Remaining' < Remaining
<1>1. Owed \in Debts /\ Owed' \in Debts
  BY DebtsTyped, DebtsTypedNext DEF OwesNumbers
<1> DEFINE w == Owed
           u == Owed'
<1>2. w \in Debts /\ u \in Debts /\ u[i] < w[i] /\ \A p \in 0..NStages : u[p] <= w[p]
  BY <1>1
<1> HIDE DEF w, u
<1>3. Cardinality(Steps(u)) < Cardinality(Steps(w))
  BY <1>2, Fewer
<1>4. Remaining = Cardinality(Steps(w)) /\ Remaining' = Cardinality(Steps(u))
  BY DEF Remaining, w, u, Steps
<1>5. QED
  BY <1>3, <1>4

\* What it owes is made of numbers.
LEMMA LoadTyped ==
  ASSUME TypeOK
  PROVE  /\ todo \in [Stage -> Int] /\ buf \in [Stage -> Int]
         /\ NStages \in Int /\ \A n \in Stage : n \in Int
<1>1. todo \in [Stage -> 0..Items \cup {1}] /\ buf \in [Stage -> 0..Capacity]
  BY DEF TypeOK
<1>2. 0..Items \cup {1} \subseteq Int /\ 0..Capacity \subseteq Int
  BY Constants
<1>3. NStages \in Int /\ \A n \in Stage : n \in Int
  BY Constants DEF Stage
<1>4. QED
  BY <1>1, <1>2, <1>3

\* A stage that does nothing owes what it owed.
LEMMA OwesSame ==
  ASSUME NEW n \in Stage, at'[n] = at[n], todo'[n] = todo[n], buf'[n] = buf[n]
  PROVE  Owes(n)' = Owes(n)
BY DEF Owes, Rank

\* A stage that gets on, or is waited for, has its place alone to change.
LEMMA Advances ==
  ASSUME TypeOK, TypeOK', NEW n \in Stage, Rank(at'[n]) < Rank(at[n]), UNCHANGED io,
         \A m \in Stage : m # n => at'[m] = at[m], ShellOwes' <= ShellOwes
  PROVE  Remaining' < Remaining
<1>1. UNCHANGED <<todo, buf>>
  BY DEF io
<1>2. /\ n \in 0..NStages /\ n # Shell /\ ShellOwes \in Nat /\ ShellOwes' \in Nat
      /\ \A m \in Stage : Owes(m) \in Nat /\ Owes(m)' \in Nat
      /\ \A p \in 0..NStages : p # Shell => p \in Stage
  BY DebtsTyped, DebtsTypedNext, Constants DEF OwesNumbers, Stage, Shell
<1>3. Owes(n)' < Owes(n)
  <2> DEFINE a == todo[n] * (2 * (NStages - n) + 2)
             b == buf[n] * (2 * (NStages - n) + 1)
  <2>1. a \in Int /\ b \in Int
    <3>1. todo[n] \in Int /\ buf[n] \in Int
      BY LoadTyped
    <3>2. 2 * (NStages - n) + 2 \in Int /\ 2 * (NStages - n) + 1 \in Int
      BY Constants DEF Stage
    <3>3. QED
      BY <3>1, <3>2
  <2>2. Owes(n) = Rank(at[n]) + a + b /\ Owes(n)' = Rank(at'[n]) + a + b
    BY <1>1 DEF Owes, Rank
  <2> HIDE DEF a, b
  <2>3. Rank(at[n]) \in Int /\ Rank(at'[n]) \in Int
    BY DEF Rank
  <2>4. QED
    BY <2>1, <2>2, <2>3
<1>4. \A m \in Stage : m # n => Owes(m)' = Owes(m)
  BY <1>1, OwesSame
<1>5. \A m \in Stage : Owes(m)' <= Owes(m)
  BY <1>2, <1>3, <1>4
<1>6. \A p \in 0..NStages : Owed'[p] <= Owed[p]
  BY <1>2, <1>5 DEF Owed
<1>7. Owed'[n] < Owed[n]
  BY <1>2, <1>3 DEF Owed
<1>8. QED
  BY <1>2, <1>6, <1>7, LessOwed

\* The calls of execute_pipe() ...
LEMMA ShellStepIsLess ==
  ASSUME TypeOK, TypeOK', ShellHas, Stages, ShellStep
  PROVE  Remaining' < Remaining
<1>1. /\ node \in 1..NStages /\ last \in 2..NStages /\ NStages \in Nat
      /\ at \in [Stage -> Places]
      /\ pc \in {"pipe", "fork", "close"} => node <= last
      /\ node \in Stage
  BY Constants DEF TypeOK, ShellHas, Stage, Places
<1>2. ASSUME ShellOwes' < ShellOwes, UNCHANGED <<at, io>>
      PROVE  Remaining' < Remaining
  <2>1. \A n \in Stage : Owes(n)' = Owes(n)
    BY <1>2, OwesSame DEF io
  <2>2. /\ Shell \in 0..NStages
        /\ \A m \in Stage : Owes(m) \in Nat
        /\ \A p \in 0..NStages : p # Shell => p \in Stage
    BY DebtsTyped, DebtsTypedNext, Constants DEF OwesNumbers, Stage, Shell
  <2>3. Owed'[Shell] < Owed[Shell]
    BY <1>2, <2>2 DEF Owed
  <2>4. ASSUME NEW p \in 0..NStages
        PROVE  Owed'[p] <= Owed[p]
    <3>1. CASE p = Shell
      <4>1. ShellOwes' <= ShellOwes
        BY <1>2, DebtsTyped, DebtsTypedNext DEF OwesNumbers
      <4>2. QED
        BY <2>2, <3>1, <4>1 DEF Owed
    <3>2. CASE p # Shell
      BY <2>1, <2>2, <3>2 DEF Owed
    <3>3. QED
      BY <3>1, <3>2
  <2>5. QED
    BY <2>2, <2>3, <2>4, LessOwed
<1>3. CASE MakePipe
  <2>1. ShellOwes' < ShellOwes /\ UNCHANGED <<at, io>>
    BY <1>1, <1>3 DEF MakePipe, ShellOwes
  <2>2. QED
    BY <1>2, <2>1
<1>4. CASE Fork
  <2>1. at[node] = "none"
    BY <1>1, <1>4 DEF Fork, Stages, Unborn
  <2>2. Rank(at'[node]) < Rank(at[node]) /\ UNCHANGED io
    BY <1>1, <1>4, <2>1 DEF Fork, Rank
  <2>3. \A m \in Stage : m # node => at'[m] = at[m]
    BY <1>1, <1>4 DEF Fork
  <2>4. ShellOwes' <= ShellOwes
    BY <1>1, <1>4 DEF Fork, ShellOwes
  <2>5. QED
    BY <1>1, <2>2, <2>3, <2>4, Advances
<1>5. CASE ForkFails
  <2>1. ShellOwes' < ShellOwes /\ UNCHANGED <<at, io>>
    BY <1>1, <1>5 DEF ForkFails, ShellOwes
  <2>2. QED
    BY <1>2, <2>1
<1>6. CASE CloseBehind
  <2>1. UNCHANGED <<at, io>>
    BY <1>6 DEF CloseBehind
  <2>2. ShellOwes' < ShellOwes
    <3>1. CASE node < last
      BY <1>1, <1>6, <3>1 DEF CloseBehind, ShellOwes
    <3>2. CASE ~(node < last)
      BY <1>1, <1>6, <3>2 DEF CloseBehind, ShellOwes
    <3>3. QED
      BY <3>1, <3>2
  <2>3. QED
    BY <1>2, <2>1, <2>2
<1>7. CASE Wait
  <2>1. Rank(at'[node]) < Rank(at[node]) /\ UNCHANGED io
    BY <1>1, <1>7 DEF Wait, Rank
  <2>2. \A m \in Stage : m # node => at'[m] = at[m]
    BY <1>1, <1>7 DEF Wait
  <2>3. ShellOwes' <= ShellOwes
    BY <1>1, <1>7 DEF Wait, ShellOwes
  <2>4. QED
    BY <1>1, <2>1, <2>2, <2>3, Advances
<1>8. QED
  BY <1>3, <1>4, <1>5, <1>6, <1>7 DEF ShellStep

\* ... a program that writes what it has ...
LEMMA WriteIsLess ==
  ASSUME TypeOK, TypeOK', Stages, NEW n \in Stage, WriteItem(n)
  PROVE  Remaining' < Remaining
<1>1. /\ at[n] = "run" /\ todo[n] > 0 /\ UNCHANGED <<line, pc, node, at>>
      /\ todo' = [todo EXCEPT ![n] = todo[n] - 1]
      /\ \/ UNCHANGED buf
         \/ Out(n) # 0 /\ buf' = [buf EXCEPT ![Out(n)] = buf[Out(n)] + 1]
  BY DEF WriteItem, Writes
<1>2. todo \in [Stage -> Int] /\ buf \in [Stage -> Int] /\ n \in Int /\ NStages \in Int
  BY LoadTyped
<1>3. Out(n) # 0 => Out(n) = n
  <2>1. Runs(n)
    BY <1>1 DEF Stages, Grown
  <2>2. QED
    BY <2>1 DEF Runs, Out, STDOUT, File, Terminal, Wr
<1>4. /\ todo'[n] = todo[n] - 1 /\ (buf'[n] = buf[n] \/ buf'[n] = buf[n] + 1)
      /\ \A m \in Stage : m # n => todo'[m] = todo[m] /\ buf'[m] = buf[m]
  BY <1>1, <1>2, <1>3
<1>5. Owes(n)' < Owes(n)
  <2> DEFINE c == 2 * (NStages - n) + 1
             x == todo[n]
             y == buf[n]
             y1 == buf'[n]
             r == Rank(at[n])
  <2>1. c \in Int /\ c >= 1 /\ x \in Int /\ y \in Int /\ r \in Int /\ (y1 = y \/ y1 = y + 1)
    BY <1>2, <1>4, Constants DEF Stage, Rank
  <2>2. c + 1 = 2 * (NStages - n) + 2
    BY <1>2
  <2>3. Owes(n) = r + x * (c + 1) + y * c /\ Owes(n)' = r + (x - 1) * (c + 1) + y1 * c
    BY <1>1, <1>4, <2>2 DEF Owes, Rank
  <2> HIDE DEF c, x, y, y1, r
  <2>4. (x - 1) * (c + 1) = x * (c + 1) - (c + 1) /\ (y + 1) * c = y * c + c
    BY <2>1
  <2>5. x * (c + 1) \in Int /\ y * c \in Int
    BY <2>1
  <2>6. QED
    BY <2>1, <2>3, <2>4, <2>5
<1>6. \A m \in Stage : m # n => Owes(m)' = Owes(m)
  BY <1>1, <1>4, OwesSame
<1>7. ShellOwes' = ShellOwes
  BY <1>1 DEF ShellOwes
<1>8. /\ n \in 0..NStages /\ n # Shell /\ ShellOwes \in Nat
      /\ \A m \in Stage : Owes(m) \in Nat /\ Owes(m)' \in Nat
      /\ \A p \in 0..NStages : p # Shell => p \in Stage
  BY DebtsTyped, DebtsTypedNext, Constants DEF OwesNumbers, Stage, Shell
<1>9. \A m \in Stage : Owes(m)' <= Owes(m)
  BY <1>5, <1>6, <1>8
<1>10. \A p \in 0..NStages : Owed'[p] <= Owed[p]
  BY <1>7, <1>8, <1>9 DEF Owed
<1>11. Owed'[n] < Owed[n]
  BY <1>5, <1>8 DEF Owed
<1>12. QED
  BY <1>8, <1>10, <1>11, LessOwed

\* ... and one that takes an item from the pipe in front of it, which counts
\* less where it is now than where it was.
LEMMA ReadIsLess ==
  ASSUME TypeOK, TypeOK', Stages, NEW n \in Stage, ReadItem(n)
  PROVE  Remaining' < Remaining
<1>1. /\ at[n] = "run" /\ todo[n] = 0 /\ In(n) # 0 /\ UNCHANGED <<line, pc, node, at>>
      /\ todo' = [todo EXCEPT ![n] = 1]
      /\ buf' = [buf EXCEPT ![In(n)] = buf[In(n)] - 1]
  BY DEF ReadItem, Reads
<1>2. todo \in [Stage -> Int] /\ buf \in [Stage -> Int] /\ n \in Int /\ NStages \in Int
  BY LoadTyped
<1>3. In(n) = n - 1 /\ n > 1
  <2>1. Runs(n)
    BY <1>1 DEF Stages, Grown
  <2>2. QED
    BY <1>1, <2>1 DEF Runs, In, STDIN, File, Terminal, None, Rd
<1>4. n - 1 \in Stage /\ n - 1 # n
  BY <1>2, <1>3 DEF Stage
<1>5. /\ todo'[n] = 1 /\ buf'[n] = buf[n]
      /\ todo'[n - 1] = todo[n - 1] /\ buf'[n - 1] = buf[n - 1] - 1
      /\ \A m \in Stage : m # n /\ m # n - 1 => todo'[m] = todo[m] /\ buf'[m] = buf[m]
  BY <1>1, <1>2, <1>3, <1>4
<1> DEFINE w == Owed
           u == Owed'
<1>6. /\ w \in Debts /\ u \in Debts /\ ShellOwes' = ShellOwes
      /\ n \in 0..NStages /\ n # Shell /\ n - 1 \in 0..NStages /\ n - 1 # Shell
      /\ \A p \in 0..NStages : p # Shell => p \in Stage
  BY <1>1, <1>4, DebtsTyped, DebtsTypedNext, Constants DEF OwesNumbers, Stage, Shell, ShellOwes
<1>7. Owes(n - 1)' + Owes(n)' < Owes(n - 1) + Owes(n)
  <2> DEFINE c == 2 * (NStages - n) + 2
             d == todo[n - 1] * (2 * (NStages - (n - 1)) + 2)
             e == buf[n] * (2 * (NStages - n) + 1)
             y == buf[n - 1]
             r == Rank(at[n])
             s == Rank(at[n - 1])
  <2>1. c \in Int /\ y \in Int /\ d \in Int /\ e \in Int /\ r \in Int /\ s \in Int
    <3>1. todo[n - 1] \in Int /\ buf[n - 1] \in Int /\ buf[n] \in Int
      BY <1>2, <1>4
    <3>2. QED
      BY <1>2, <3>1 DEF Rank
  <2>2. c + 1 = 2 * (NStages - (n - 1)) + 1
    BY <1>2
  <2>3. Owes(n) = r + 0 * c + e /\ Owes(n)' = r + 1 * c + e
    BY <1>1, <1>5 DEF Owes, Rank
  <2>4. Owes(n - 1) = s + d + y * (c + 1) /\ Owes(n - 1)' = s + d + (y - 1) * (c + 1)
    BY <1>1, <1>5, <2>2 DEF Owes, Rank
  <2> HIDE DEF c, d, e, y, r, s
  <2>5. (y - 1) * (c + 1) = y * (c + 1) - (c + 1) /\ y * (c + 1) \in Int
    BY <2>1
  <2>6. Owes(n) = r + e /\ Owes(n)' = r + c + e
    BY <2>1, <2>3
  <2>7. QED
    BY <2>1, <2>4, <2>5, <2>6
<1>8. \A m \in Stage : m # n /\ m # n - 1 => Owes(m)' = Owes(m)
  BY <1>1, <1>5, OwesSame
<1>9. \A p \in 0..NStages : p # n - 1 /\ p # n => u[p] = w[p]
  BY <1>6, <1>8 DEF Owed
<1>10. u[n - 1] + u[n] < w[n - 1] + w[n]
  BY <1>6, <1>7 DEF Owed
<1> HIDE DEF w, u
<1>11. Cardinality(Steps(u)) < Cardinality(Steps(w))
  BY <1>4, <1>6, <1>9, <1>10, Traded
<1>12. Remaining = Cardinality(Steps(w)) /\ Remaining' = Cardinality(Steps(u))
  BY DEF Remaining, w, u, Steps
<1>13. QED
  BY <1>11, <1>12

\* The steps of a stage: every one of them leaves less to do.
LEMMA StageStepIsLess ==
  ASSUME TypeOK, TypeOK', Stages, NEW n \in Stage, StageStep(n)
  PROVE  Remaining' < Remaining
<1>1. /\ UNCHANGED <<line, pc, node>> /\ at \in [Stage -> Places]
      /\ \A m \in Stage : m # n => at'[m] = at[m]
  BY StageAlone DEF TypeOK, Places
<1>2. ShellOwes' <= ShellOwes
  <2>1. ShellOwes' = ShellOwes /\ ShellOwes \in Nat
    BY <1>1, DebtsTyped DEF OwesNumbers, ShellOwes
  <2>2. QED
    BY <2>1
<1>3. CASE \/ DupEnds(n) \/ Redirect(n) \/ CloseEnds(n)
           \/ ReadEnd(n) \/ WriteBroken(n) \/ Finish(n)
  <2>1. UNCHANGED io
    BY <1>3 DEF DupEnds, Redirect, CloseEnds, ReadEnd, WriteBroken, Finish
  <2>2. \/ at[n] = "dup" /\ at'[n] \in {"redirect", "zombie"}
        \/ at[n] = "redirect" /\ at'[n] \in {"close", "zombie"}
        \/ at[n] = "close" /\ at'[n] \in {"run", "zombie"}
        \/ at[n] = "run" /\ at'[n] = "zombie"
    BY <1>1, <1>3 DEF DupEnds, Redirect, CloseEnds, ReadEnd, WriteBroken, Finish,
                      Reads, Writes, Goes, Ends
  <2>3. Rank(at'[n]) < Rank(at[n])
    BY <2>2 DEF Rank
  <2>4. QED
    BY <1>1, <1>2, <2>1, <2>3, Advances
<1>4. CASE WriteItem(n)
  BY <1>4, WriteIsLess
<1>5. CASE ReadItem(n)
  BY <1>5, ReadIsLess
<1>6. QED
  BY <1>3, <1>4, <1>5 DEF StageStep

\* A pipeline of any length does not run forever: each step of the shell and of
\* a stage leaves strictly less to do, and what there is to do is a number.
\* With NoStageStuck this is what LineEnds needs apart from fairness: as long
\* as a line is not over something can move, and nothing moves without end.
THEOREM EveryStepIsLess ==
  Spec => /\ [](Remaining \in Nat)
          /\ [][ShellStep \/ (\E n \in Stage : StageStep(n)) => Remaining' < Remaining]_vars
<1> DEFINE Inv == TypeOK /\ ShellHas /\ Stages
           Less == ShellStep \/ (\E n \in Stage : StageStep(n)) => Remaining' < Remaining
<1>1. Init => Inv
  BY InitTyped, InitHas, InitStages
<1>2. Inv /\ [Next]_vars => Inv'
  BY StepTyped, StepHas, StepStages
<1>3. Inv => Remaining \in Nat
  BY DebtsTyped, StepsFinite DEF OwesNumbers, Remaining
<1>4. Inv /\ Inv' /\ [Next]_vars => [Less]_vars
  BY ShellStepIsLess, StageStepIsLess
<1>5. QED
  BY <1>1, <1>2, <1>3, <1>4, PTL DEF Spec
=============================================================================
