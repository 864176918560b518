------------------------------- MODULE Launch -------------------------------
(***************************************************************************)
(* src/executor/exec_cmd.c: a child looks for the file of its command,     *)
(* starts it, and says why it could not.  It looks with stat() and starts  *)
(* with execve(), later, and looks again to find the words for a failure;  *)
(* meanwhile other processes make, replace and remove files.               *)
(*                                                                         *)
(* A command is given as a path, or looked for in the directories of PATH, *)
(* or, without PATH, in the working directory; a PATH without a value ends *)
(* the child.  The name is the one str_to_lower() has made of the first    *)
(* word.                                                                   *)
(***************************************************************************)
EXTENDS Integers

CONSTANTS
  MaxDirs,    \* the directories PATH may have
  MaxChanges  \* the changes other processes make during one search

ASSUME LaunchAssumption == MaxDirs \in Nat /\ MaxChanges \in Nat

\* What is at a path: nothing; a directory; something else that is no regular
\* file; a file without any permission to execute it; a program; a file whose
\* owner may execute it but that execve() refuses this process, or because of
\* its format; one that this process may execute and its owner may not.
Kinds == {"none", "dir", "special", "data", "program", "refused", "others"}
IXUSR == {"dir", "program", "refused"}  \* stat() shows S_IXUSR
Runs  == {"program", "others"}          \* execve() starts it

VARIABLES
  way,      \* how the file is looked for
  dirs,     \* the number of directories in PATH
  file,     \* file[c]: what is at the c-th path; the name itself is the 0-th
  was,      \* was[c]: all it has been since the search began
  changes,  \* the changes so far
  pc,       \* where the child is
  iter,     \* the directory it looks at
  tmp,      \* the path check_cmd() has returned
  failed,   \* execve() has failed
  ret       \* the code it exits with

vars == <<way, dirs, file, was, changes, pc, iter, tmp, failed, ret>>
fs   == <<way, dirs, file, was, changes>>

Paths == IF way = "search" THEN 1..dirs ELSE {0}

Ways == {"named", "unset", "novalue", "search"}

Init == /\ way \in Ways /\ dirs \in 0..MaxDirs
        /\ file \in [Paths -> Kinds]
        /\ was = [c \in Paths |-> {file[c]}] /\ changes = 0
        /\ pc = "check" /\ iter = 1 /\ tmp = 0 /\ failed = FALSE /\ ret = 0

\* Another process.
Change(c, kind) ==
  /\ changes < MaxChanges /\ pc \in {"check", "search", "checked"}
  /\ kind # file[c]
  /\ file' = [file EXCEPT ![c] = kind]
  /\ was' = [was EXCEPT ![c] = @ \cup {kind}]
  /\ changes' = changes + 1
  /\ UNCHANGED <<way, dirs, pc, iter, tmp, failed, ret>>
-----------------------------------------------------------------------------
Exit(code)   == pc' = "exited" /\ ret' = code /\ UNCHANGED tmp
Returns(c)   == pc' = "checked" /\ tmp' = c /\ UNCHANGED ret

\* check_permision_abs(): what is at the path itself.
check_permision_abs ==
  /\ pc = "check" /\ way \in {"named", "unset"}
  /\ LET kind == file[0]
     IN  \/ kind \in {"none", "special"} /\ Exit(127)
         \/ kind \in {"dir", "data", "others"} /\ Exit(126)
         \/ kind \in {"program", "refused"} /\ Returns(0)
  /\ UNCHANGED <<fs, iter, failed>>

\* Seeded fault: the first directory is passed over.
env_get_path_FromTwo ==
  /\ pc = "check" /\ way = "search"
  /\ pc' = "search" /\ iter' = 2
  /\ UNCHANGED <<fs, tmp, failed, ret>>

env_get_path ==
  /\ pc = "check" /\ way = "search"
  /\ pc' = "search" /\ iter' = 1
  /\ UNCHANGED <<fs, tmp, failed, ret>>

\* ft_split() reads the value that is NULL: the child dies by a signal.
NoPathValue ==
  /\ pc = "check" /\ way = "novalue"
  /\ pc' = "killed"
  /\ UNCHANGED <<fs, iter, tmp, failed, ret>>

\* check_cmd_while(): one round of its loop finds nothing ...
NotHere ==
  /\ pc = "search" /\ iter <= dirs /\ file[iter] = "none"
  /\ iter' = iter + 1
  /\ UNCHANGED <<fs, pc, tmp, failed, ret>>

\* Seeded fault: the permission is not looked at.
Here_Unchecked ==
  /\ pc = "search" /\ iter <= dirs /\ file[iter] # "none"
  /\ Returns(iter)
  /\ UNCHANGED <<fs, iter, failed>>

\* ... or finds something, of whatever type ...
Here ==
  /\ pc = "search" /\ iter <= dirs /\ file[iter] # "none"
  /\ \/ file[iter] \in IXUSR /\ Returns(iter)
     \/ file[iter] \notin IXUSR /\ Exit(126)
  /\ UNCHANGED <<fs, iter, failed>>

\* ... or there is no directory left.
Nowhere ==
  /\ pc = "search" /\ iter > dirs
  /\ Exit(127)
  /\ UNCHANGED <<fs, iter, failed>>

execve ==
  /\ pc = "checked" /\ ~failed /\ file[tmp] \in Runs
  /\ pc' = "started"
  /\ UNCHANGED <<fs, iter, tmp, failed, ret>>

\* Seeded fault: a program that cannot be started has no permission.
execve_fails_Denied ==
  /\ pc = "checked" /\ ~failed /\ file[tmp] \notin Runs
  /\ Exit(126) /\ failed' = TRUE
  /\ UNCHANGED <<fs, iter>>

\* It fails: check_cmd() is called a second time.
execve_fails ==
  /\ pc = "checked" /\ ~failed /\ file[tmp] \notin Runs
  /\ pc' = "check" /\ failed' = TRUE
  /\ UNCHANGED <<fs, iter, tmp, ret>>

\* exec() after that, unless the second search has exited.
exit_program ==
  /\ pc = "checked" /\ failed
  /\ Exit(1)
  /\ UNCHANGED <<fs, iter, failed>>

Over == pc \in {"started", "exited", "killed"} /\ UNCHANGED vars

Next == \/ \E c \in Paths, kind \in Kinds : Change(c, kind)
        \/ check_permision_abs \/ env_get_path \/ NoPathValue \/ NotHere \/ Here \/ Nowhere
        \/ execve \/ execve_fails \/ exit_program
        \/ Over

Spec == Init /\ [][Next]_vars
-----------------------------------------------------------------------------
TypeOK ==
  /\ way \in Ways /\ dirs \in 0..MaxDirs
  /\ file \in [Paths -> Kinds] /\ was \in [Paths -> SUBSET Kinds]
  /\ changes \in 0..MaxChanges
  /\ pc \in {"check", "search", "checked", "started", "exited", "killed"}
  /\ iter \in 1..(MaxDirs + 1) /\ tmp \in 0..MaxDirs
  /\ pc \in {"checked", "started"} => tmp \in Paths
  /\ failed \in BOOLEAN /\ ret \in {0, 1, 126, 127}

\* Each path in front of c has been empty at some moment of the search.
FirstAt(c) == \A d \in Paths : d < c => "none" \in was[d]

\* The program that is started is the first there was: check_cmd() passes over
\* a directory of PATH only if the file was not in it, and no change of the
\* files between stat() and execve() makes the child start another one.
StartedFirst == pc = "started" => file[tmp] \in Runs /\ FirstAt(tmp)

\* The exit code of a command that is not started tells what was found at some
\* moment of the search.  127: nothing, anywhere.  126: something without
\* permission.  1: something that its owner may execute, and that was no
\* program when it was to be started.
CodeTells ==
  pc = "exited" =>
    CASE ret = 127 -> \A c \in Paths : was[c] \cap {"none", "special"} # {}
      [] ret = 126 -> \E c \in Paths : /\ FirstAt(c)
                                      /\ was[c] \cap {"dir", "special", "data", "others"} # {}
      [] ret = 1   -> \E c \in Paths : /\ FirstAt(c)
                                      /\ was[c] \cap IXUSR # {} /\ ~(was[c] \subseteq Runs)

\* What a POSIX shell finds: the first path it can execute; failing that, 126
\* if there is something at any of them, or else 127.
Posix ==
  LET good == {c \in Paths : file[c] \in Runs}
  IN  CASE good # {} -> <<"started", CHOOSE c \in good : \A d \in good : c <= d>>
        [] good = {} /\ \E c \in Paths : file[c] # "none" -> <<"exited", 126>>
        [] \A c \in Paths : file[c] = "none" -> <<"exited", 127>>

\* If nobody changes the files, the child does what a POSIX shell does, unless
\* PATH has no value, there is something else than a program or a plain file, or a plain file
\* hides a program in a later directory.
AsPosix ==
  /\ pc \in {"started", "exited", "killed"} /\ changes = 0 /\ way # "novalue"
  /\ \A c \in Paths : file[c] \in {"none", "data", "program"}
  /\ \A c, d \in Paths : c < d /\ file[c] = "data" => file[d] # "program"
  => <<pc, IF pc = "started" THEN tmp ELSE ret>> = Posix
=============================================================================
