------------------------------ MODULE EnvList ------------------------------
(***************************************************************************)
(* What the environment list promises: it is a list of variables, the      *)
(* newest one first, with one entry for each name.                         *)
(*                                                                         *)
(* The promise ends where env_unset_node() relies on a prev pointer that   *)
(* nobody kept up to date.  frail is the set of variables that this is     *)
(* about: to unset one of them, to unset the only variable, or to append   *)
(* to a variable that has no value, breaks the list.  Unsetting a variable *)
(* makes at most one other one frail, the one behind it, and a new         *)
(* variable cures the one it is put in front of.                           *)
(***************************************************************************)
EXTENDS Integers, Sequences, FiniteSets

CONSTANTS Names, Values, NoValue

VARIABLES
  seq,    \* the variables, each with its name and its value
  frail,  \* the names that unset cannot be trusted with
  broken  \* the list is not to be trusted any more

vars == <<seq, frail, broken>>

Variable == [name : Names, value : Values \cup {NoValue}]
NamesOf(s) == {s[i].name : i \in 1..Len(s)}
At(n) == CHOOSE i \in 1..Len(seq) : seq[i].name = n

\* The names are distinct.
Lists == {s \in UNION {[1..k -> Variable] : k \in 1..Cardinality(Names)} :
            \A i, j \in DOMAIN s : s[i].name = s[j].name => i = j}

\* env_parser() links the list both ways, default_env() forwards only.
Init == /\ seq \in Lists
        /\ frail \in {{}, NamesOf(Tail(seq))}
        /\ broken = FALSE

Prepend(n, v) ==
  /\ n \notin NamesOf(seq)
  /\ seq' = <<[name |-> n, value |-> v]>> \o seq
  /\ frail' = frail \ {Head(seq).name}

Change(n, v) == /\ n \in NamesOf(seq)
                /\ seq' = [seq EXCEPT ![At(n)].value = v]
                /\ UNCHANGED frail

\* Without a value: export NAME forgets the value the variable has.
Export(n, v) == /\ ~broken
                /\ Prepend(n, v) \/ Change(n, v)
                /\ UNCHANGED broken

ExportAppend(n, v) == /\ ~broken
                /\ \/ Prepend(n, v)
                   \/ Change(n, v) /\ seq[At(n)].value # NoValue
                /\ UNCHANGED broken

Unset(n) ==
  /\ ~broken /\ n \in NamesOf(seq) \ frail /\ Len(seq) > 1
  /\ LET i == At(n)
         behind == IF i < Len(seq) THEN {seq[i + 1].name} ELSE {}
     IN  /\ seq' = SubSeq(seq, 1, i - 1) \o SubSeq(seq, i + 1, Len(seq))
         /\ \E f \in SUBSET behind : frail' = (frail \ behind) \cup f
  /\ UNCHANGED broken

Break ==
  /\ ~broken
  /\ \/ frail # {}
     \/ Len(seq) = 1
     \/ \E i \in 1..Len(seq) : seq[i].value = NoValue
  /\ seq' = <<>> /\ frail' = {} /\ broken' = TRUE

Next == \/ \E n \in Names, v \in Values \cup {NoValue} : Export(n, v)
        \/ \E n \in Names, v \in Values : ExportAppend(n, v)
        \/ \E n \in Names : Unset(n)
        \/ Break

Spec == Init /\ [][Next]_vars
=============================================================================
