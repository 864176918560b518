--------------------------------- MODULE Cd ---------------------------------
(***************************************************************************)
(* src/builtins/directories.c: cd, the variables PWD, OLDPWD and HOME it   *)
(* reads and writes, and the directory the process is in, while other      *)
(* processes make and remove directories and the user sets and unsets the  *)
(* three variables or starts another shell of this kind.  Other variables  *)
(* stay in the list, so that it is never empty; what unset does to the     *)
(* list itself is in module EnvHeap.                                       *)
(***************************************************************************)
EXTENDS Integers

CONSTANTS
  Dirs,     \* absolute paths of directories, as getcwd() writes them
  Cut,      \* Cut[dir]: what is left of the path if it ends in front of a "="
  Here,     \* a path that does not lead away, as "" and "."
  NotSet,   \* a variable that is not in the list
  NULL      \* the value NULL, of "export NAME"

ASSUME CdAssumption ==
  /\ Here \notin Dirs /\ NotSet \notin Dirs \cup {Here}
  /\ NULL \notin Dirs \cup {Here, NotSet}
  /\ Cut \in [Dirs -> Dirs]

Paths  == Dirs \cup {Here}
Values == Paths \cup {NotSet, NULL}

VARIABLES
  variables,  \* PWD, OLDPWD and HOME
  cwd,        \* the path the working directory has or had
  gone,       \* it has been removed
  there,      \* the paths that exist
  pc,         \* where exec_cd() is
  to,         \* its variable pwd
  old_pwd,    \* its variable of that name, NotSet for NULL
  dash,       \* its argument is "-"
  ret,        \* num_return_error
  before,     \* the variables, the working directory and trail at its call
  sure,       \* PWD is right, as far as can be known
  trail       \* where the shell was before its last cd, if OLDPWD can tell

call == <<to, old_pwd, dash, ret, before>>
past == <<sure, trail>>
cd_vars == <<variables, cwd, gone, there, pc, call, past>>

Names == {"PWD", "OLDPWD", "HOME"}

\* No cd is being executed, or has been since the last other command.
Idle(e) == /\ pc' = "prompt" /\ to' = Here /\ old_pwd' = NotSet
           /\ dash' = FALSE /\ ret' = 0
           /\ before' = [env |-> e, cwd |-> cwd, trail |-> Here]

CdInit == /\ variables \in [Names -> Paths \cup {NotSet}]
          /\ cwd \in Dirs /\ gone \in BOOLEAN /\ there \in SUBSET Dirs
          /\ ~gone => cwd \in there
          /\ pc = "prompt" /\ to = Here /\ old_pwd = NotSet /\ dash = FALSE /\ ret = 0
          /\ before = [env |-> variables, cwd |-> cwd, trail |-> Here]
          /\ sure = (variables["PWD"] = cwd) /\ trail = Here

Prompt == pc \in {"prompt", "over"}

\* export NAME=value, export NAME and unset NAME.
Assign(name, value) ==
  /\ Prompt
  /\ variables' = [variables EXCEPT ![name] = value]
  /\ Idle(variables')
  /\ sure' = (sure /\ name # "PWD") /\ trail' = IF name = "OLDPWD" THEN Here ELSE trail
  /\ UNCHANGED <<cwd, gone, there>>

\* env_to_array() writes a variable without value as its name alone, and
\* env_parser() reads that as an empty value, and a value up to its first "=".
PassedOn(value) == CASE value = NULL -> Here
                     [] value \in Dirs -> Cut[value]
                     [] value \in {Here, NotSet} -> value

\* The same shell as a program: init_master() takes the variables it is given,
\* but not OLDPWD, and does not ask for the working directory.
StartMsh ==
  /\ Prompt
  /\ variables' = [[name \in Names |-> PassedOn(variables[name])] EXCEPT !["OLDPWD"] = NotSet]
  /\ Idle(variables')
  /\ sure' = (sure /\ Cut[cwd] = cwd) /\ trail' = Here
  /\ UNCHANGED <<cwd, gone, there>>

\* Other processes make directories and remove them, the one the shell is in
\* as well; that one does not come back.
mkdir(dir) == /\ there' = there \cup {dir}
              /\ UNCHANGED <<variables, cwd, gone, pc, call, past>>

rmdir(dir) == /\ there' = there \ {dir}
              /\ gone' = (gone \/ dir = cwd)
              /\ UNCHANGED <<variables, cwd, pc, call, past>>
-----------------------------------------------------------------------------
Return(r) == pc' = "over" /\ ret' = r

\* get_cd_dir(): a variable that is not set is refused, one without a value
\* ends the shell.
get_cd_dir(path) ==
  \/ path = NotSet /\ Return(1) /\ UNCHANGED to
  \/ path = NULL /\ pc' = "exited" /\ ret' = 1 /\ UNCHANGED to
  \/ path \in Paths /\ to' = path /\ pc' = "chdir" /\ UNCHANGED ret

\* exec_cd() up to chdir(): "cd", "cd -" and "cd path".
exec_cd(path, d) ==
  /\ Prompt
  /\ before' = [env |-> variables, cwd |-> cwd, trail |-> trail]
  /\ dash' = d
  /\ \/ /\ variables["PWD"] = NULL
        /\ Return(1) /\ UNCHANGED <<to, old_pwd>>
     \/ /\ variables["PWD"] # NULL
        /\ old_pwd' = variables["PWD"]
        /\ get_cd_dir(path)
  /\ UNCHANGED <<variables, cwd, gone, there, past>>

\* Seeded fault: an OLDPWD that is not set is not added.
set_old_pwd_Known(e) == IF e["OLDPWD"] = NotSet THEN e ELSE [e EXCEPT !["OLDPWD"] = old_pwd]

\* OLDPWD is changed, added or unset.
set_old_pwd(e) == [e EXCEPT !["OLDPWD"] = old_pwd]

\* Seeded fault: OLDPWD is set before it is known whether chdir() succeeds.
Chdir_OldFirst ==
  /\ pc = "chdir"
  /\ variables' = set_old_pwd(variables)
  /\ \/ to \in Dirs \ there /\ Return(1) /\ UNCHANGED <<cwd, gone>>
     \/ to \in there /\ cwd' = to /\ gone' = FALSE /\ pc' = "getcwd" /\ UNCHANGED ret
     \/ to = Here /\ pc' = "getcwd" /\ UNCHANGED <<cwd, gone, ret>>
  /\ UNCHANGED <<there, to, old_pwd, dash, before, past>>

\* exec_cd_util() and set_new_pwd_values() up to getcwd().
Chdir ==
  /\ pc = "chdir"
  /\ \/ to \in Dirs \ there /\ Return(1) /\ UNCHANGED <<variables, cwd, gone, past>>
     \/ /\ to \in there \cup {Here}
        /\ cwd' = IF to = Here THEN cwd ELSE to
        /\ gone' = (gone /\ to = Here)
        /\ variables' = set_old_pwd(variables)
        /\ pc' = "getcwd" /\ UNCHANGED ret
        /\ trail' = (IF sure THEN cwd ELSE Here)
        /\ sure' = (sure /\ to = Here)
  /\ UNCHANGED <<there, to, old_pwd, dash, before>>

\* Seeded fault: PWD is left alone if the path cannot be printed.
SetPwd_PrintsFirst ==
  /\ pc = "getcwd"
  /\ \/ gone /\ Return(1) /\ UNCHANGED <<variables, past>>
     \/ ~gone /\ dash /\ Return(1) /\ sure' = TRUE /\ UNCHANGED <<variables, trail>>
     \/ /\ ~gone
        /\ variables' = [variables EXCEPT !["PWD"] = cwd]
        /\ Return(0)
        /\ sure' = TRUE /\ UNCHANGED trail
  /\ UNCHANGED <<cwd, gone, there, to, old_pwd, dash, before>>

\* The rest of them: PWD is what getcwd() says; "cd -" prints the path, which
\* may fail.
SetPwd ==
  /\ pc = "getcwd"
  /\ \/ gone /\ Return(1) /\ UNCHANGED <<variables, past>>
     \/ /\ ~gone
        /\ variables' = [variables EXCEPT !["PWD"] = cwd]
        /\ Return(0) \/ (dash /\ Return(1))
        /\ sure' = TRUE /\ UNCHANGED trail
  /\ UNCHANGED <<cwd, gone, there, to, old_pwd, dash, before>>

Command == \/ exec_cd(variables["HOME"], FALSE)
           \/ exec_cd(variables["OLDPWD"], TRUE)
           \/ \E path \in Paths : exec_cd(path, FALSE)

CdNext == \/ \E name \in Names, value \in Values : Assign(name, value)
          \/ \E dir \in Dirs : mkdir(dir) \/ rmdir(dir)
          \/ StartMsh
          \/ Command \/ Chdir \/ SetPwd

CdSpec == CdInit /\ [][CdNext]_cd_vars
-----------------------------------------------------------------------------
TypeOK == /\ variables \in [Names -> Values]
          /\ cwd \in Dirs /\ gone \in BOOLEAN /\ there \in SUBSET Dirs
          /\ ~gone => cwd \in there
          /\ pc \in {"prompt", "chdir", "getcwd", "over", "exited"}
          /\ to \in Paths /\ old_pwd \in Paths \cup {NotSet}
          /\ dash \in BOOLEAN /\ ret \in {0, 1}
          /\ before \in [env : [Names -> Values], cwd : Dirs, trail : Paths]
          /\ sure \in BOOLEAN /\ trail \in Paths

\* exec_cd() that returns 0: the shell is where it was told to go, PWD says so,
\* and OLDPWD is the PWD of before, so that "cd -" leads back if that was
\* right; HOME is as it was.
Arrived ==
  pc = "over" /\ ret = 0 =>
    /\ cwd = IF to = Here THEN before.cwd ELSE to
    /\ variables = [before.env EXCEPT !["PWD"] = cwd, !["OLDPWD"] = before.env["PWD"]]

\* exec_cd() that returns 1 has changed nothing, or the directory it went to
\* was removed at once, or it could not print the path of "cd -": then OLDPWD
\* is right, and PWD is as it was only if the directory was removed.
Refused ==
  pc = "over" /\ ret = 1 =>
    \/ variables = before.env /\ cwd = before.cwd
    \/ /\ gone \/ dash
       /\ cwd = IF to = Here THEN before.cwd ELSE to
       /\ \E pwd \in {cwd} \cup (IF gone THEN {before.env["PWD"]} ELSE {}) :
            variables = [before.env EXCEPT !["PWD"] = pwd, !["OLDPWD"] = before.env["PWD"]]

\* "cd -" takes the shell back to where it was before its last cd, whatever
\* became of HOME and of the directories meanwhile, if PWD was right then and
\* the user has left OLDPWD alone; and PWD is right from the first cd that
\* finds its directory, in a shell that was started by another one as well,
\* unless that cut the path at a "=".
BackAgain ==
  /\ pc = "over" /\ ret = 0 /\ dash /\ before.trail \in Dirs => cwd = before.trail
  /\ pc \in {"prompt", "over"} /\ sure => variables["PWD"] = cwd
=============================================================================
