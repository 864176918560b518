---------------------------- MODULE LaunchProofs ----------------------------
(***************************************************************************)
(* Starting a program, for any number of directories and of changes: what  *)
(* is started is the first there was, and the code of a failure tells what *)
(* was found.                                                              *)
(***************************************************************************)
EXTENDS Launch, TLAPS

\* What the history has of the present.
Recorded == \A c \in Paths : file[c] \in was[c]

\* stat() has once shown the path and nothing in front of it.
Found(c) == c \in Paths /\ FirstAt(c) /\ was[c] \cap IXUSR # {}

\* What each point of the search knows: of the directories it has passed, of
\* the path it has found, and, after a failed execve(), of the path that one
\* was for.
Knows ==
  /\ pc = "search" => way = "search" /\ FirstAt(iter)
  /\ pc = "checked" => Found(tmp)
  /\ failed => \E c \in Paths : Found(c) /\ ~(was[c] \subseteq Runs)

IInv == TypeOK /\ Recorded /\ Knows /\ StartedFirst /\ CodeTells

LEMMA InitIInv == Init => IInv
<1>. SUFFICES ASSUME Init PROVE IInv
  OBVIOUS
<1>1. TypeOK
  <2>1. was \in [Paths -> SUBSET Kinds]
    BY DEF Init
  <2>2. 0 \in 0..MaxDirs /\ 1 \in 1..(MaxDirs + 1) /\ 0 \in 0..MaxChanges
    BY LaunchAssumption
  <2>. QED
    BY <2>1, <2>2 DEF Init, TypeOK
<1>2. Recorded
  BY DEF Init, Recorded
<1>3. Knows /\ StartedFirst /\ CodeTells
  BY DEF Init, Knows, StartedFirst, CodeTells
<1>. QED
  BY <1>1, <1>2, <1>3 DEF IInv

\* A change of the files adds to the history.
LEMMA ChangeKeeps ==
  ASSUME IInv, NEW c \in Paths, NEW kind \in Kinds, Change(c, kind)
  PROVE  IInv'
<1>. USE DEF IInv
<1>1. UNCHANGED <<way, dirs, pc, iter, tmp, failed, ret>> /\ Paths' = Paths
  BY DEF Change, Paths
<1>2. TypeOK'
  BY <1>1, LaunchAssumption DEF Change, TypeOK
<1>3. Recorded'
  BY <1>1 DEF Change, TypeOK, Recorded
<1>4. \A d \in Paths : was[d] \subseteq was'[d]
  BY DEF Change, TypeOK
<1>5. \A d : FirstAt(d) => FirstAt(d)'
  BY <1>1, <1>4 DEF FirstAt
<1>6. \A d : Found(d) => Found(d)'
  BY <1>1, <1>4, <1>5 DEF Found
<1>7. Knows'
  BY <1>1, <1>4, <1>5, <1>6 DEF Knows
<1>8. StartedFirst' /\ CodeTells'
  BY <1>1 DEF Change, StartedFirst, CodeTells
<1>. QED
  BY <1>2, <1>3, <1>7, <1>8

\* The other steps leave the files and their history alone.
LEMMA SameFiles ==
  ASSUME UNCHANGED fs
  PROVE  /\ Paths' = Paths /\ (Recorded => Recorded')
         /\ \A c : (FirstAt(c)' <=> FirstAt(c)) /\ (Found(c)' <=> Found(c))
BY DEF fs, Paths, Recorded, FirstAt, Found

LEMMA check_permision_absKeeps == ASSUME IInv, check_permision_abs PROVE IInv'
<1>. USE DEF IInv
<1>1. UNCHANGED fs /\ UNCHANGED <<iter, failed>>
  BY DEF check_permision_abs
<1>2. Paths = {0} /\ FirstAt(0) /\ file[0] \in was[0] /\ file[0] \in Kinds
  BY DEF check_permision_abs, Paths, FirstAt, Recorded, TypeOK
<1>3. TypeOK'
  BY <1>1, <1>2, LaunchAssumption DEF check_permision_abs, Exit, Returns, TypeOK, fs, Paths
<1>4. Knows'
  <2>1. pc' # "search" /\ (pc' = "checked" => Found(0) /\ tmp' = 0)
    BY <1>2 DEF check_permision_abs, Exit, Returns, Found, IXUSR
  <2>. QED
    BY <1>1, <2>1, SameFiles DEF Knows, fs
<1>5. StartedFirst' /\ CodeTells'
  <2>1. pc' # "started"
    BY DEF check_permision_abs, Exit, Returns
  <2>2. CASE pc' = "exited"
    <3>1. \/ ret' = 127 /\ file[0] \in {"none", "special"}
          \/ ret' = 126 /\ file[0] \in {"dir", "special", "data", "others"}
      BY <2>2 DEF check_permision_abs, Exit, Returns
    <3>2. CASE ret' = 127 /\ file[0] \in {"none", "special"}
      BY <1>1, <1>2, <2>1, <3>2, SameFiles DEF CodeTells, StartedFirst, fs
    <3>3. CASE ret' = 126 /\ file[0] \in {"dir", "special", "data", "others"}
      <4>1. 0 \in Paths' /\ FirstAt(0)' /\ was'[0] \cap {"dir", "special", "data", "others"} # {}
        BY <1>1, <1>2, <3>3, SameFiles DEF fs
      <4>. QED
        BY <2>1, <3>3, <4>1 DEF CodeTells, StartedFirst
    <3>. QED
      BY <3>1, <3>2, <3>3
  <2>. QED
    BY <2>1, <2>2 DEF StartedFirst, CodeTells
<1>. QED
  BY <1>1, <1>3, <1>4, <1>5, SameFiles

LEMMA env_get_pathKeeps == ASSUME IInv, env_get_path PROVE IInv'
<1>. USE DEF IInv
<1>1. UNCHANGED fs
  BY DEF env_get_path
<1>2. TypeOK'
  BY <1>1, LaunchAssumption DEF env_get_path, TypeOK, fs, Paths
<1>3. FirstAt(1)
  BY DEF env_get_path, FirstAt, Paths, TypeOK
<1>4. Knows' /\ StartedFirst' /\ CodeTells'
  BY <1>1, <1>3, SameFiles DEF env_get_path, Knows, StartedFirst, CodeTells, fs
<1>. QED
  BY <1>1, <1>2, <1>4, SameFiles

LEMMA NoPathValueKeeps == ASSUME IInv, NoPathValue PROVE IInv'
<1>. USE DEF IInv
<1>1. UNCHANGED fs /\ UNCHANGED <<iter, tmp, failed, ret>> /\ pc' = "killed"
  BY DEF NoPathValue
<1>2. TypeOK'
  BY <1>1 DEF TypeOK, fs, Paths
<1>3. Knows' /\ StartedFirst' /\ CodeTells'
  BY <1>1, SameFiles DEF Knows, StartedFirst, CodeTells, fs
<1>. QED
  BY <1>1, <1>2, <1>3, SameFiles

\* One round of the loop in check_cmd_while().
LEMMA RoundKeeps == ASSUME IInv, NotHere \/ Here \/ Nowhere PROVE IInv'
<1>. USE DEF IInv
<1>1. UNCHANGED fs /\ failed' = failed /\ way = "search" /\ Paths = 1..dirs
  BY DEF NotHere, Here, Nowhere, Knows, Paths
<1>2. dirs \in Nat /\ dirs <= MaxDirs /\ iter \in Nat /\ iter >= 1 /\ MaxDirs \in Nat
  BY LaunchAssumption DEF TypeOK
<1>3. FirstAt(iter)
  BY DEF NotHere, Here, Nowhere, Knows
<1>4. CASE NotHere
  <2>1. iter \in Paths /\ "none" \in was[iter]
    BY <1>1, <1>2, <1>4 DEF NotHere, Recorded
  <2>2. FirstAt(iter + 1)
    BY <1>1, <1>2, <1>3, <2>1 DEF FirstAt
  <2>3. TypeOK'
    BY <1>1, <1>2, <1>4 DEF NotHere, TypeOK, fs, Paths
  <2>4. Knows' /\ StartedFirst' /\ CodeTells'
    BY <1>1, <1>4, <2>2, SameFiles DEF NotHere, Knows, StartedFirst, CodeTells, fs
  <2>. QED
    BY <1>1, <2>3, <2>4, SameFiles
<1>5. CASE Here
  <2>1. iter \in Paths /\ file[iter] \in was[iter] /\ file[iter] \in Kinds
    BY <1>1, <1>2, <1>5 DEF Here, Recorded, TypeOK
  <2>2. CASE file[iter] \in IXUSR /\ Returns(iter)
    <3>1. Found(iter)
      BY <1>3, <2>1, <2>2 DEF Found
    <3>2. TypeOK'
      BY <1>1, <1>2, <1>5, <2>1, <2>2 DEF Here, Returns, TypeOK, fs, Paths
    <3>3. Knows' /\ StartedFirst' /\ CodeTells'
      BY <1>1, <2>2, <3>1, SameFiles DEF Returns, Knows, StartedFirst, CodeTells, fs
    <3>. QED
      BY <1>1, <3>2, <3>3, SameFiles
  <2>3. CASE file[iter] \notin IXUSR /\ Exit(126)
    <3>1. file[iter] \in {"special", "data", "others"}
      BY <1>5, <2>1, <2>3 DEF Here, Kinds, IXUSR
    <3>2. TypeOK'
      BY <1>1, <1>5, <2>3 DEF Here, Exit, TypeOK, fs, Paths
    <3>3. Knows' /\ StartedFirst'
      BY <1>1, <2>3, SameFiles DEF Exit, Knows, StartedFirst, fs
    <3>4. CodeTells'
      BY <1>1, <1>3, <2>1, <2>3, <3>1, SameFiles DEF Exit, CodeTells, fs
    <3>. QED
      BY <1>1, <3>2, <3>3, <3>4, SameFiles
  <2>. QED
    BY <1>5, <2>2, <2>3 DEF Here
<1>6. CASE Nowhere
  <2>1. \A c \in Paths : "none" \in was[c]
    BY <1>1, <1>2, <1>3, <1>6 DEF Nowhere, FirstAt
  <2>2. TypeOK'
    BY <1>1, <1>6 DEF Nowhere, Exit, TypeOK, fs, Paths
  <2>3. Knows' /\ StartedFirst'
    BY <1>1, <1>6, SameFiles DEF Nowhere, Exit, Knows, StartedFirst, fs
  <2>4. CodeTells'
    BY <1>1, <1>6, <2>1, SameFiles DEF Nowhere, Exit, CodeTells, fs
  <2>. QED
    BY <1>1, <2>2, <2>3, <2>4, SameFiles
<1>. QED
  BY <1>4, <1>5, <1>6

\* What comes of the path that check_cmd() has returned.
LEMMA execveKeeps == ASSUME IInv, execve \/ execve_fails \/ exit_program PROVE IInv'
<1>. USE DEF IInv
<1>1. UNCHANGED fs /\ pc = "checked" /\ tmp' = tmp
  BY DEF execve, execve_fails, exit_program, Exit
<1>2. Found(tmp) /\ file[tmp] \in was[tmp]
  BY <1>1 DEF Knows, Found, Recorded
<1>3. TypeOK'
  <2>1. CASE execve
    BY <1>1, <2>1 DEF execve, TypeOK, fs, Paths
  <2>2. CASE execve_fails
    BY <1>1, <2>2 DEF execve_fails, Exit, TypeOK, fs, Paths
  <2>3. CASE exit_program
    BY <1>1, <2>3 DEF exit_program, Exit, TypeOK, fs, Paths
  <2>. QED
    BY <2>1, <2>2, <2>3
<1>4. CASE execve
  <2>1. Knows' /\ CodeTells'
    BY <1>1, <1>4, SameFiles DEF execve, Knows, CodeTells, fs
  <2>2. StartedFirst'
    BY <1>1, <1>2, <1>4, SameFiles DEF execve, StartedFirst, Found, fs
  <2>. QED
    BY <1>1, <1>3, <2>1, <2>2, SameFiles
<1>5. CASE execve_fails
  <2>1. ~(was[tmp] \subseteq Runs)
    BY <1>2, <1>5 DEF execve_fails
  <2>2. Knows'
    BY <1>1, <1>2, <1>5, <2>1, SameFiles DEF execve_fails, Knows, Found, fs
  <2>3. StartedFirst' /\ CodeTells'
    BY <1>5 DEF execve_fails, StartedFirst, CodeTells
  <2>. QED
    BY <1>1, <1>3, <2>2, <2>3, SameFiles
<1>6. CASE exit_program
  <2>1. \E c \in Paths : Found(c) /\ ~(was[c] \subseteq Runs)
    BY <1>6 DEF exit_program, Knows
  <2>2. Knows' /\ StartedFirst'
    BY <1>1, <1>6, <2>1, SameFiles DEF exit_program, Exit, Knows, StartedFirst, fs
  <2>3. CodeTells'
    BY <1>1, <1>6, <2>1, SameFiles DEF exit_program, Exit, CodeTells, Found, fs
  <2>. QED
    BY <1>1, <1>3, <2>2, <2>3, SameFiles
<1>. QED
  BY <1>4, <1>5, <1>6

LEMMA NextIInv == IInv /\ [Next]_vars => IInv'
<1>. SUFFICES ASSUME IInv, [Next]_vars PROVE IInv'
  OBVIOUS
<1>1. CASE UNCHANGED vars
  <2>1. UNCHANGED fs /\ UNCHANGED <<pc, iter, tmp, failed, ret>>
    BY <1>1 DEF vars, fs
  <2>2. TypeOK'
    BY <2>1, SameFiles DEF IInv, TypeOK, fs
  <2>3. Recorded' /\ Knows'
    BY <2>1, SameFiles DEF IInv, Knows, fs
  <2>4. StartedFirst' /\ CodeTells'
    BY <2>1, SameFiles DEF IInv, StartedFirst, CodeTells, fs
  <2>. QED
    BY <2>2, <2>3, <2>4 DEF IInv
<1>2. CASE \E c \in Paths, kind \in Kinds : Change(c, kind)
  BY <1>2, ChangeKeeps
<1>3. CASE check_permision_abs \/ env_get_path \/ NoPathValue \/ NotHere \/ Here \/ Nowhere
  BY <1>3, check_permision_absKeeps, env_get_pathKeeps, NoPathValueKeeps, RoundKeeps
<1>4. CASE execve \/ execve_fails \/ exit_program
  BY <1>4, execveKeeps
<1>. QED
  BY <1>1, <1>2, <1>3, <1>4 DEF Next, Over

\* The invariant of all that follows.
THEOREM LaunchInvariant == Spec => []IInv
BY InitIInv, NextIInv, PTL DEF Spec

\* The variables keep their types.
THEOREM LaunchTypeCorrect == Spec => []TypeOK
<1>1. IInv => TypeOK
  BY DEF IInv
<1>. QED
  BY <1>1, LaunchInvariant, PTL

\* Whatever other processes do to the files, the child starts the first
\* program there was.
THEOREM LaunchStartedFirst == Spec => []StartedFirst
<1>1. IInv => StartedFirst
  BY DEF IInv
<1>. QED
  BY <1>1, LaunchInvariant, PTL

\* Whatever they do, its exit code tells something that was true.
THEOREM LaunchCodeTells == Spec => []CodeTells
<1>1. IInv => CodeTells
  BY DEF IInv
<1>. QED
  BY <1>1, LaunchInvariant, PTL
-----------------------------------------------------------------------------
\* As long as nobody has changed the files, their history is what they are.  A
\* command is over with a code, or dies of the one thing it dies of.
Steady ==
  /\ changes = 0 => \A c \in Paths : was[c] = {file[c]}
  /\ pc = "exited" => ret # 0
  /\ pc = "killed" => way = "novalue"

LEMMA InitSteady == Init => Steady
BY DEF Init, Steady

LEMMA NextSteady == TypeOK /\ Steady /\ [Next]_vars => Steady'
<1>. SUFFICES ASSUME TypeOK, Steady, [Next]_vars PROVE Steady'
  OBVIOUS
<1>1. ASSUME NEW c \in Paths, NEW kind \in Kinds, Change(c, kind)
      PROVE  Steady'
  <2>1. changes' # 0 /\ UNCHANGED <<way, pc, ret>>
    BY <1>1 DEF Change, TypeOK
  <2>. QED
    BY <2>1 DEF Steady
<1>2. CASE UNCHANGED fs
  <2>1. changes' = 0 => \A c \in Paths' : was'[c] = {file'[c]}
    BY <1>2, SameFiles DEF Steady, fs
  <2>2. /\ pc' = "exited" => ret' # 0
        /\ pc' = "killed" => way' = "novalue"
    <3>1. CASE UNCHANGED <<pc, ret>>
      BY <1>2, <3>1 DEF Steady, fs
    <3>2. CASE ~UNCHANGED <<pc, ret>>
      <4>1. \/ check_permision_abs \/ env_get_path \/ NoPathValue \/ NotHere \/ Here \/ Nowhere
            \/ execve \/ execve_fails \/ exit_program
        <5>1. ASSUME NEW c \in Paths, NEW kind \in Kinds, Change(c, kind)
              PROVE  FALSE
          BY <1>2, <5>1 DEF Change, TypeOK, fs
        <5>. QED
          BY <3>2, <5>1 DEF Next, Over, vars
      <4>. QED
        BY <1>2, <4>1
        DEF check_permision_abs, env_get_path, NoPathValue, NotHere, Here, Nowhere,
            execve, execve_fails, exit_program, Exit, Returns, fs
    <3>. QED
      BY <3>1, <3>2
  <2>. QED
    BY <2>1, <2>2 DEF Steady
<1>3. CASE Over \/ UNCHANGED vars
  BY <1>2, <1>3 DEF Over, vars, fs
<1>. QED
  BY <1>1, <1>2, <1>3
  DEF Next, check_permision_abs, env_get_path, NoPathValue, NotHere, Here, Nowhere,
      execve, execve_fails, exit_program

\* Where files change only between commands, what the search ends with is what
\* a POSIX shell ends with.
LEMMA SteadyIsPosix == IInv /\ Steady => AsPosix
<1>. SUFFICES ASSUME IInv, Steady,
                     pc \in {"started", "exited", "killed"}, changes = 0, way # "novalue",
                     \A c \in Paths : file[c] \in {"none", "data", "program"},
                     \A c, d \in Paths : c < d /\ file[c] = "data" => file[d] # "program"
              PROVE  <<pc, IF pc = "started" THEN tmp ELSE ret>> = Posix
  BY DEF AsPosix
<1>. DEFINE good == {c \in Paths : file[c] \in Runs}
            first == CHOOSE c \in good : \A d \in good : c <= d
<1>1. Paths \subseteq Int
  BY DEF IInv, TypeOK, Paths
<1>2. \A c \in Paths : was[c] = {file[c]}
  BY DEF Steady
<1>3. \A c \in Paths : FirstAt(c) => \A d \in Paths : d < c => file[d] = "none"
  BY <1>2 DEF FirstAt
<1>4. Posix = CASE good # {} -> <<"started", first>>
                [] good = {} /\ \E c \in Paths : file[c] # "none" -> <<"exited", 126>>
                [] \A c \in Paths : file[c] = "none" -> <<"exited", 127>>
  BY DEF Posix
<1>5. CASE pc = "started"
  <2>1. tmp \in Paths /\ file[tmp] \in Runs /\ FirstAt(tmp)
    BY <1>5 DEF IInv, TypeOK, StartedFirst
  <2>2. tmp \in good /\ \A d \in good : tmp <= d
    BY <1>1, <1>3, <2>1 DEF Runs
  <2>3. first = tmp
    <3>1. first \in good /\ \A d \in good : first <= d
      BY <2>2
    <3>2. first \in Int /\ tmp \in Int
      BY <1>1, <2>2, <3>1
    <3>. HIDE DEF first
    <3>. QED
      BY <2>2, <3>1, <3>2
  <2>4. ~\A c \in Paths : file[c] = "none"
    BY <2>1 DEF Runs
  <2>. HIDE DEF first, good
  <2>5. Posix = <<"started", first>>
    BY <1>4, <2>2, <2>4
  <2>. QED
    BY <1>5, <2>3, <2>5
<1>6. CASE pc = "exited"
  <2>1. ret \in {1, 126, 127}
    BY <1>6 DEF IInv, TypeOK, Steady
  <2>2. CASE ret = 127
    <3>1. \A c \in Paths : file[c] = "none"
      BY <1>2, <1>6, <2>2 DEF IInv, CodeTells
    <3>2. good = {}
      BY <3>1 DEF Runs
    <3>. QED
      BY <1>4, <1>6, <2>2, <3>1, <3>2
  <2>3. CASE ret = 126
    <3>1. PICK c \in Paths : FirstAt(c) /\ was[c] \cap {"dir", "special", "data", "others"} # {}
      BY <1>6, <2>3 DEF IInv, CodeTells
    <3>2. file[c] = "data"
      BY <1>2, <3>1
    <3>3. \A d \in Paths : file[d] # "program"
      BY <1>1, <1>3, <3>1, <3>2
    <3>4. good = {}
      BY <3>3 DEF Runs
    <3>. QED
      BY <1>4, <1>6, <2>3, <3>2, <3>4
  <2>4. ret # 1
    <3>1. ASSUME ret = 1 PROVE FALSE
      <4>1. PICK c \in Paths : was[c] \cap IXUSR # {} /\ ~(was[c] \subseteq Runs)
        BY <1>6, <3>1 DEF IInv, CodeTells
      <4>. QED
        BY <1>2, <4>1 DEF IXUSR, Runs
    <3>. QED
      BY <3>1
  <2>. QED
    BY <2>1, <2>2, <2>3, <2>4
<1>7. pc # "killed"
  BY DEF Steady
<1>. QED
  BY <1>5, <1>6, <1>7

\* If nobody changes the files during the search, the child starts, or refuses,
\* what a POSIX shell does, for a PATH of any length; the exceptions are those
\* that AsPosix names.
THEOREM LaunchAsPosix == Spec => []AsPosix
<1>1. Init => Steady
  BY InitSteady
<1>2. IInv /\ Steady /\ [Next]_vars => Steady'
  BY NextSteady DEF IInv
<1>3. IInv /\ Steady => AsPosix
  BY SteadyIsPosix
<1>. QED
  BY <1>1, <1>2, <1>3, LaunchInvariant, PTL DEF Spec
=============================================================================
