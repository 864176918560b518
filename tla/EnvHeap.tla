------------------------------ MODULE EnvHeap ------------------------------
(***************************************************************************)
(* src/env/env_ex.c, env.c and the callers in src/builtins: the list of    *)
(* environment variables as it is in memory, linked both ways, with the    *)
(* addresses malloc() hands out again after free().  Using a pointer to a  *)
(* freed cell, or NULL, is undefined behaviour: the model records it and   *)
(* ends there.                                                             *)
(***************************************************************************)
EXTENDS Integers, Sequences, FiniteSets

CONSTANTS
  Names,    \* names of variables
  NoName,   \* what a cell that is not allocated holds
  Values,   \* values of variables, without NULL
  NoValue,  \* the value NULL, of "export NAME"
  Cells,    \* addresses malloc() can return for a t_env
  NULL

ASSUME EnvAssumption ==
  /\ IsFiniteSet(Names) /\ NoName \notin Names
  /\ NoValue \notin Values
  /\ IsFiniteSet(Cells) /\ NULL \notin Cells

VARIABLES
  env_list,  \* master->env_list
  cell,      \* cell[c]: the t_env at address c
  live,      \* the addresses that are allocated
  undefined  \* the code has used a pointer it must not use

vars == <<env_list, cell, live, undefined>>

Pointer == Cells \cup {NULL}
Blank == [name |-> NoName, value |-> NoValue, next |-> NULL, prev |-> NULL]

\* The cells met on the way from env_list along next, up to one with a name in
\* Sought.  A freed cell may be among them.
Met(Sought) ==
  {c \in Cells :
     \A S \in SUBSET Cells :
       /\ env_list \in S \cup {NULL}
       /\ \A x \in S : cell[x].name \in Sought \/ cell[x].next \in S \cup {NULL}
       => c \in S}
Reachable == Met({})
NamesOf(C) == {cell[c].name : c \in C}

Defined == ~undefined
-----------------------------------------------------------------------------
\* Distinct names, each with a value or without.
Environments ==
  {s \in UNION {[1..k -> [name : Names, value : Values \cup {NoValue}]] :
                  k \in 1..Cardinality(Names)} :
     \A i, j \in DOMAIN s : s[i].name = s[j].name => i = j}

\* The list in the cells q[1], q[2], ...: env_parser() prepends one variable
\* after the other, default_env() hangs each one on the next pointer of the one
\* before and env_new_value() finds nothing there to link back to.
Loaded(s, q, linked) ==
  [c \in Cells |->
     IF c \in {q[i] : i \in 1..Len(s)}
     THEN LET i == CHOOSE i \in 1..Len(s) : q[i] = c
          IN  [name  |-> s[i].name,
               value |-> s[i].value,
               next  |-> IF i = Len(s) THEN NULL ELSE q[i + 1],
               prev  |-> IF linked /\ i > 1 THEN q[i - 1] ELSE NULL]
     ELSE Blank]

Init == /\ \E s \in Environments, linked \in BOOLEAN :
             \E q \in {q \in [1..Len(s) -> Cells] : \A i, j \in DOMAIN q : q[i] = q[j] => i = j} :
               /\ cell = Loaded(s, q, linked)
               /\ live = {q[i] : i \in DOMAIN q}
               /\ env_list = q[1]
        /\ undefined = FALSE
-----------------------------------------------------------------------------
\* env_search(): it ends at the first cell with the name, or loses its way.
Found(n) == {c \in Met({n}) : cell[c].name = n}
Astray(n) == ~(Met({n}) \subseteq live)

Undefined == undefined' = TRUE /\ UNCHANGED <<env_list, cell, live>>

\* Seeded fault: the old head is not linked back to the new one.
env_new_value_Forward(n, v, c) ==
  /\ c \in Cells \ live
  /\ live' = live \cup {c}
  /\ cell' = [cell EXCEPT ![c] = [name |-> n, value |-> v, next |-> env_list, prev |-> NULL]]
  /\ env_list' = c
  /\ UNCHANGED undefined

\* env_new_value(): the new variable becomes the head of the list.
env_new_value(n, v, c) ==
  /\ c \in Cells \ live
  /\ live' = live \cup {c}
  /\ LET new == [name |-> n, value |-> v, next |-> env_list, prev |-> NULL]
     IN  cell' = IF env_list = NULL THEN [cell EXCEPT ![c] = new]
                 ELSE [cell EXCEPT ![env_list].prev = c, ![c] = new]
  /\ env_list' = c
  /\ UNCHANGED undefined

env_change_value(c, v) ==
  /\ cell' = [cell EXCEPT ![c].value = v]
  /\ UNCHANGED <<env_list, live, undefined>>

\* value_condition() for "export NAME=value" and "export NAME".
Export(n, v) ==
  /\ Defined
  /\ \/ Astray(n) /\ Undefined
     \/ ~Astray(n) /\ \E c \in Found(n) : env_change_value(c, v)
     \/ ~Astray(n) /\ Found(n) = {} /\ \E c \in Cells : env_new_value(n, v, c)

\* Seeded fault: a variable that exists gets a second entry.
ExportAppend_Again(n, v) ==
  /\ Defined /\ ~Astray(n)
  /\ \E c \in Cells : env_new_value(n, v, c)

\* value_condition() for "export NAME+=value": the value it appends to may be
\* NULL, which ft_strjoin() reads.
ExportAppend(n, v) ==
  /\ Defined
  /\ \/ Astray(n) /\ Undefined
     \/ ~Astray(n) /\ \E c \in Found(n) : /\ cell[c].value # NoValue
                                          /\ env_change_value(c, v)
     \/ ~Astray(n) /\ (\E c \in Found(n) : cell[c].value = NoValue) /\ Undefined
     \/ ~Astray(n) /\ Found(n) = {} /\ \E c \in Cells : env_new_value(n, v, c)

\* env_unset_node(): the node is taken out with the help of its prev pointer,
\* the prev pointer of the node behind it is left as it is.
env_unset_node(n) ==
  /\ Defined
  /\ \/ Astray(n) /\ Undefined
     \/ ~Astray(n) /\ \E c \in Found(n) :
          LET e == cell[c]
          IN  \/ /\ e.prev # NULL /\ e.prev \in live
                 /\ cell' = [cell EXCEPT ![e.prev].next = e.next, ![c] = Blank]
                 /\ live' = live \ {c}
                 /\ UNCHANGED <<env_list, undefined>>
              \/ /\ e.prev = NULL /\ e.next # NULL
                 /\ env_list' = e.next
                 /\ cell' = [cell EXCEPT ![c] = Blank]
                 /\ live' = live \ {c}
                 /\ UNCHANGED undefined
              \/ /\ IF e.prev = NULL THEN e.next = NULL ELSE e.prev \notin live
                 /\ Undefined

\* env_to_array(): the environment of every program, and the builtins that
\* print it, take the whole list.
env_to_array == /\ Defined /\ ~(Reachable \subseteq live)
                /\ Undefined
-----------------------------------------------------------------------------
Next == \/ \E n \in Names, v \in Values \cup {NoValue} : Export(n, v)
        \/ \E n \in Names, v \in Values : ExportAppend(n, v)
        \/ \E n \in Names : env_unset_node(n)
        \/ env_to_array

Spec == Init /\ [][Next]_vars
-----------------------------------------------------------------------------
TypeOK ==
  /\ env_list \in Pointer
  /\ cell \in [Cells -> [name : Names \cup {NoName}, value : Values \cup {NoValue},
                         next : Pointer, prev : Pointer]]
  /\ live \subseteq Cells
  /\ undefined \in BOOLEAN

\* No name is listed twice, whatever a stale prev pointer was written through:
\* no search finds an older value than the one that was set last, and unset
\* leaves no older one behind.
NamesDistinct ==
  \A c, d \in Reachable \cap live : cell[c].name = cell[d].name => c = d

\* What the doc of env_unset_node() says: it takes one variable out, and that
\* one only; said of the steps in which C says what happens.
UnsetTakesOne ==
  [][\A n \in Names : env_unset_node(n) /\ Defined'
       => NamesOf(Reachable)' = NamesOf(Reachable) \ {n}]_vars
-----------------------------------------------------------------------------
\* The pointers met on the way, in order.
Walk[k \in 0..Cardinality(Cells)] ==
  IF k = 0 THEN env_list
  ELSE LET c == Walk[k - 1] IN IF c = NULL THEN NULL ELSE cell[c].next

\* The list as module EnvList sees it.  Something is lost for good when an
\* allocated cell cannot be reached any more.
Broken == undefined \/ Reachable # live

Sequence == [k \in 1..Cardinality(Reachable) |->
               [name |-> cell[Walk[k - 1]].name, value |-> cell[Walk[k - 1]].value]]

\* The variables whose prev pointer is not what it says it is.
Stale == {cell[Walk[k]].name : k \in {j \in 0..(Cardinality(Reachable) - 1) :
            cell[Walk[j]].prev # IF j = 0 THEN NULL ELSE Walk[j - 1]}}

Abstract == INSTANCE EnvList WITH
  seq    <- IF Broken THEN <<>> ELSE Sequence,
  frail  <- IF Broken THEN {} ELSE Stale,
  broken <- Broken

\* Up to the first unset of a frail variable, or of the last one, or append to a
\* variable without a value, the cells behave as the list.
ImplementsEnvList == Abstract!Spec
=============================================================================
