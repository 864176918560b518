------------------------------ MODULE Wildcard ------------------------------
(***************************************************************************)
(* src/executor/wildcard.c and src/utils/path_utils.c: the names a pattern *)
(* expands to.  Names, patterns and paths are sequences of characters; a   *)
(* character is a string, and "w", "a" and "n" are letters.                *)
(***************************************************************************)
EXTENDS Integers, Sequences, SequencesExt

CONSTANTS
  Cwd,   \* the path of the working directory
  Dirs   \* Dirs[path]: the names in that directory, in readdir()'s order

ASSUME WildcardAssumption == Cwd \in DOMAIN Dirs

Part(s, i, j) == SubSeq(s, i, j)
From(s, i)    == SubSeq(s, i, Len(s))
At(s, i)      == IF i \in 1..Len(s) THEN s[i] ELSE "nul"

\* The last "/" of a path, 0 if it has none: ft_strrchr().
LastSlash(path) == SelectLastInSeq(path, LAMBDA c : c = "/")
-----------------------------------------------------------------------------
\* match_wildcard(): "lost" is a read behind the end of the name, where a "?"
\* may have stepped to.
match_wildcard(s, p) ==
  LET End == Len(s) + 1
      m[i \in 1..(End + 1), j \in 1..(Len(p) + 1)] ==
        LET k == CHOOSE k \in j..(Len(p) + 1) :
                   At(p, k) # "*" /\ \A x \in j..(k - 1) : p[x] = "*"
            tried == {x \in i..Len(s) : m[x, k] # "no"}
        IN  CASE At(p, j) = "*" /\ k > Len(p) -> "yes"
              [] At(p, j) = "?"               -> m[IF i > End THEN i ELSE i + 1, j + 1]
              [] At(p, j) = "*" /\ k <= Len(p) /\ i <= End ->
                   IF tried = {} THEN "no"
                   ELSE m[CHOOSE x \in tried : \A y \in tried : x <= y, k]
              [] At(p, j) \notin {"*", "?", "nul"} /\ i <= End ->
                   IF At(s, i) = p[j] THEN m[i + 1, j + 1] ELSE "no"
              [] At(p, j) = "nul" /\ i <= End -> IF i = End THEN "yes" ELSE "no"
              [] OTHER                        -> "lost"
  IN  m[1, 1]
-----------------------------------------------------------------------------
get_no_path(path) == From(path, LastSlash(path) + 1)

get_abs_path(path) ==
  CASE At(path, 1) = "/"                          -> path
    [] At(path, 1) # "/" /\ LastSlash(path) # 0   -> Cwd \o path
    [] At(path, 1) # "/" /\ LastSlash(path) = 0   -> Cwd \o <<"/">> \o path

get_base_path(path) ==
  LET abs == get_abs_path(path) IN Part(abs, 1, LastSlash(abs) - 1)

\* list_dir_files(): hidden names are left out; nothing if it cannot be read.
list_dir_files(path) ==
  IF path \in DOMAIN Dirs
  THEN SelectSeq(Dirs[path], LAMBDA name : At(name, 1) # ".") ELSE <<>>

\* get_str_expanded(): the names that match, with a space between.
get_str_expanded(files, pattern) ==
  LET Matches(name) == match_wildcard(name, pattern) = "yes"
  IN  FoldLeft(LAMBDA str, name : IF str = <<>> THEN name ELSE str \o <<" ">> \o name,
               <<>>, SelectSeq(files, Matches))

\* expand_str_wildcard(): a pattern that matches nothing stands for itself.
expand_str_wildcard(token) ==
  LET str == get_str_expanded(list_dir_files(get_base_path(token)), get_no_path(token))
  IN  IF str = <<>> THEN token ELSE str

\* A name is looked at behind its end.
wildcard_lost(token) ==
  \E name \in ToSet(list_dir_files(get_base_path(token))) :
    match_wildcard(name, get_no_path(token)) = "lost"
=============================================================================
