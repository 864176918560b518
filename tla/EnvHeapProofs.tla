--------------------------- MODULE EnvHeapProofs ---------------------------
(***************************************************************************)
(* Proofs about EnvHeap, for any number of names, values and addresses.    *)
(* Reachable is the least set of cells that env_list leads into and that   *)
(* next does not lead out of, so that a step cannot reach more than any    *)
(* such set of the state behind it (LeadsInto).                            *)
(*                                                                         *)
(* The second half shows that the linked cells implement a list.  As long  *)
(* as it is not Broken the cells that are live are those of one injective  *)
(* order q, in which each points to the next (Listed), and no name is      *)
(* there twice; a search follows q, because the first place                *)
(* where it would leave it has one before it where it already has          *)
(* (WalkVisits), and every step changes q as EnvList changes the list.     *)
(***************************************************************************)
EXTENDS EnvHeap, FiniteSetTheorems, SequenceTheorems, WellFoundedInduction, TLAPS

CellType == [name : Names \cup {NoName}, value : Values \cup {NoValue},
             next : Pointer, prev : Pointer]

\* A set that the list does not lead out of, unless at a name in Sought.
Closed(S, Sought) ==
  /\ env_list \in S \cup {NULL}
  /\ \A x \in S : cell[x].name \in Sought \/ cell[x].next \in S \cup {NULL}

\* No search leaves the addresses there are.
LEMMA MetIsCells == \A Sought : Met(Sought) \subseteq Cells
BY DEF Met

\* A step does not reach more than a set that it does not lead out of.
LEMMA LeadsInto ==
  ASSUME NEW S \in SUBSET Cells, env_list' \in S \cup {NULL},
         \A x \in S : cell'[x].next \in S \cup {NULL}
  PROVE  Reachable' \subseteq S
BY DEF Reachable, Met

\* What is met on the way is closed itself.
LEMMA MetClosed ==
  ASSUME TypeOK, NEW Sought
  PROVE  Closed(Met(Sought), Sought)
<1>1. env_list \in Met(Sought) \cup {NULL}
  BY DEF Met, TypeOK, Pointer
<1>2. ASSUME NEW x \in Met(Sought), cell[x].name \notin Sought, cell[x].next # NULL
      PROVE  cell[x].next \in Met(Sought)
  <2>1. x \in Cells /\ cell[x].next \in Cells
    BY <1>2, MetIsCells DEF TypeOK, Pointer
  <2>2. ASSUME NEW S \in SUBSET Cells, Closed(S, Sought)
        PROVE  cell[x].next \in S
    <3>1. x \in S
      BY <1>2, <2>2 DEF Met, Closed
    <3>2. QED
      BY <1>2, <2>2, <3>1 DEF Closed
  <2>3. QED
    BY <2>1, <2>2 DEF Met, Closed
<1>3. QED
  BY <1>1, <1>2 DEF Closed

\* The whole list is a set that the list does not lead out of.
LEMMA ReachableClosed ==
  ASSUME TypeOK
  PROVE  /\ Reachable \in SUBSET Cells
         /\ env_list \in Reachable \cup {NULL}
         /\ \A x \in Reachable : cell[x].next \in Reachable \cup {NULL}
BY MetClosed, MetIsCells DEF Reachable, Closed

\* A search that does not find its name has met the whole list.
LEMMA MetAll ==
  ASSUME TypeOK, NEW n, Found(n) = {}
  PROVE  Reachable \subseteq Met({n})
<1>1. \A x \in Met({n}) : cell[x].name # n
  BY DEF Found
<1>2. Closed(Met({n}), {})
  BY <1>1, MetClosed DEF Closed
<1>3. QED
  BY <1>2, MetIsCells DEF Reachable, Met, Closed

\* What a search meets is on the list.
LEMMA MetReachable ==
  ASSUME TypeOK, NEW Sought
  PROVE  Met(Sought) \subseteq Reachable
<1>1. Closed(Reachable, Sought)
  BY ReachableClosed DEF Closed
<1>2. QED
  BY <1>1, ReachableClosed DEF Met, Closed

IInv == TypeOK /\ NamesDistinct
-----------------------------------------------------------------------------
\* The list that env_parser() or default_env() builds has no name twice.
LEMMA InitIInv == Init => IInv
<1> SUFFICES ASSUME Init
             PROVE  IInv
  OBVIOUS
<1>1. PICK s \in Environments, linked \in BOOLEAN :
        \E q \in {q \in [1..Len(s) -> Cells] : \A i, j \in DOMAIN q : q[i] = q[j] => i = j} :
          /\ cell = Loaded(s, q, linked)
          /\ live = {q[i] : i \in DOMAIN q}
          /\ env_list = q[1]
  BY DEF Init
<1>2. PICK q \in [1..Len(s) -> Cells] :
        /\ cell = Loaded(s, q, linked)
        /\ live = {q[i] : i \in DOMAIN q}
        /\ env_list = q[1]
  BY <1>1
<1>3. PICK k \in 1..Cardinality(Names) :
        /\ s \in [1..k -> [name : Names, value : Values \cup {NoValue}]]
        /\ \A i, j \in 1..k : s[i].name = s[j].name => i = j
  BY DEF Environments
<1>4. k \in Nat /\ k >= 1 /\ Len(s) = k /\ DOMAIN q = 1..k
  BY <1>2, <1>3
<1>5. /\ \A c \in Cells, i \in 1..k : c = q[i] =>
           \E j \in 1..k : c = q[j] /\ cell[c].name = s[j].name /\ cell[c] \in CellType
      /\ \A c \in Cells : (\A i \in 1..k : c # q[i]) => cell[c] = Blank
  <2>1. ASSUME NEW c \in Cells, NEW i \in 1..k, c = q[i]
        PROVE  \E j \in 1..k : c = q[j] /\ cell[c].name = s[j].name /\ cell[c] \in CellType
    <3> DEFINE j == CHOOSE j \in 1..Len(s) : q[j] = c
    <3>1. j \in 1..k /\ q[j] = c
      BY <1>4, <2>1
    <3>2. cell[c] = [name  |-> s[j].name,
                     value |-> s[j].value,
                     next  |-> IF j = Len(s) THEN NULL ELSE q[j + 1],
                     prev  |-> IF linked /\ j > 1 THEN q[j - 1] ELSE NULL]
      BY <1>2, <1>4, <2>1 DEF Loaded
    <3> HIDE DEF j
    <3>3. s[j] \in [name : Names, value : Values \cup {NoValue}]
      BY <1>3, <3>1
    <3>4. /\ j # Len(s) => q[j + 1] \in Cells
          /\ j > 1 => q[j - 1] \in Cells
      BY <1>2, <1>4, <3>1
    <3>5. cell[c] \in CellType
      BY <3>2, <3>3, <3>4 DEF CellType, Pointer
    <3>6. QED
      BY <3>1, <3>2, <3>5
  <2>2. ASSUME NEW c \in Cells, \A i \in 1..k : c # q[i]
        PROVE  cell[c] = Blank
    BY <1>2, <1>4, <2>2 DEF Loaded
  <2>3. QED
    BY <2>1, <2>2
<1>6. Blank \in CellType
  BY DEF Blank, CellType, Pointer
<1>7. TypeOK
  <2>1. cell \in [Cells -> CellType]
    <3>1. \A c \in Cells : cell[c] \in CellType
      BY <1>5, <1>6
    <3>2. cell = [c \in Cells |-> cell[c]]
      BY <1>2 DEF Loaded
    <3>3. QED
      BY <3>1, <3>2
  <2>2. env_list \in Pointer /\ live \subseteq Cells
    BY <1>2, <1>4 DEF Pointer
  <2>3. undefined \in BOOLEAN
    BY DEF Init
  <2>4. QED
    BY <2>1, <2>2, <2>3 DEF TypeOK, CellType
<1>8. NamesDistinct
  <2>1. SUFFICES ASSUME NEW c \in live, NEW d \in live, cell[c].name = cell[d].name
                 PROVE  c = d
    BY DEF NamesDistinct
  <2>2. PICK i \in 1..k : c = q[i] /\ cell[c].name = s[i].name
    BY <1>2, <1>4, <1>5
  <2>3. PICK j \in 1..k : d = q[j] /\ cell[d].name = s[j].name
    BY <1>2, <1>4, <1>5
  <2>4. i = j
    BY <1>3, <2>1, <2>2, <2>3
  <2>5. QED
    BY <2>2, <2>3, <2>4
<1>9. QED
  BY <1>7, <1>8 DEF IInv
-----------------------------------------------------------------------------
\* A new variable goes in front of a list that has been searched to its end.
LEMMA NewStep ==
  ASSUME IInv, NEW n \in Names, NEW v \in Values \cup {NoValue}, NEW c \in Cells,
         ~Astray(n), Found(n) = {}, env_new_value(n, v, c)
  PROVE  IInv'
<1>1. TypeOK /\ NamesDistinct /\ c \in Cells \ live /\ live' = live \cup {c} /\ env_list' = c
  BY DEF IInv, env_new_value
<1>2. Reachable \subseteq live
  BY <1>1, MetAll DEF Astray
<1>3. \A x \in Reachable : cell[x].name # n
  BY <1>1, MetAll DEF Found
<1>4. /\ cell' \in [Cells -> CellType]
      /\ cell'[c].name = n /\ cell'[c].next = env_list
      /\ \A x \in Cells : x # c => cell'[x].name = cell[x].name /\ cell'[x].next = cell[x].next
  <2> DEFINE new == [name |-> n, value |-> v, next |-> env_list, prev |-> NULL]
  <2>1. new \in CellType
    BY <1>1 DEF TypeOK, CellType, Pointer
  <2>2. CASE env_list = NULL
    <3>1. cell' = [cell EXCEPT ![c] = new]
      BY <2>2 DEF env_new_value
    <3>2. QED
      BY <1>1, <2>1, <3>1 DEF TypeOK, CellType
  <2>3. CASE env_list # NULL
    <3> DEFINE f == [cell EXCEPT ![env_list].prev = c]
    <3>1. env_list \in Cells /\ c \in Pointer
      BY <1>1, <2>3 DEF TypeOK, Pointer
    <3>2. /\ f \in [Cells -> CellType]
          /\ \A x \in Cells : f[x].name = cell[x].name /\ f[x].next = cell[x].next
      BY <1>1, <3>1 DEF TypeOK, CellType
    <3>3. cell' = [f EXCEPT ![c] = new]
      BY <2>3 DEF env_new_value
    <3> HIDE DEF f
    <3>4. QED
      BY <2>1, <3>2, <3>3
  <2>4. QED
    BY <2>2, <2>3
<1>5. TypeOK'
  BY <1>1, <1>4 DEF TypeOK, CellType, Pointer, env_new_value
<1>6. Reachable' \subseteq Reachable \cup {c}
  <2>1. /\ Reachable \in SUBSET Cells
        /\ env_list \in Reachable \cup {NULL}
        /\ \A x \in Reachable : cell[x].next \in Reachable \cup {NULL}
    BY <1>1, ReachableClosed
  <2> DEFINE S == Reachable \cup {c}
  <2>2. S \in SUBSET Cells /\ env_list' \in S \cup {NULL}
    BY <1>1, <2>1
  <2>3. \A x \in S : cell'[x].next \in S \cup {NULL}
    BY <1>1, <1>4, <2>1
  <2> HIDE DEF S
  <2>4. Reachable' \subseteq S
    BY <2>2, <2>3, LeadsInto
  <2>5. QED
    BY <2>4 DEF S
<1>7. NamesDistinct'
  BY <1>1, <1>2, <1>3, <1>4, <1>6, ReachableClosed DEF NamesDistinct
<1>8. QED
  BY <1>5, <1>7 DEF IInv

\* A change of a value leaves the list as it is.
LEMMA ChangeStep ==
  ASSUME IInv, NEW v \in Values \cup {NoValue}, NEW c \in Cells, env_change_value(c, v)
  PROVE  IInv'
<1>1. TypeOK /\ NamesDistinct /\ UNCHANGED <<env_list, live, undefined>>
  BY DEF IInv, env_change_value
<1>2. /\ cell' \in [Cells -> CellType]
      /\ \A x \in Cells : cell'[x].name = cell[x].name /\ cell'[x].next = cell[x].next
  BY <1>1 DEF env_change_value, TypeOK, CellType
<1>3. Reachable' \subseteq Reachable
  <2>1. /\ env_list' \in Reachable \cup {NULL}
        /\ \A x \in Reachable : cell'[x].next \in Reachable \cup {NULL}
    BY <1>1, <1>2, ReachableClosed
  <2>2. Reachable \in SUBSET Cells
    BY <1>1, ReachableClosed
  <2>3. QED
    BY <2>1, <2>2, LeadsInto
<1>4. QED
  BY <1>1, <1>2, <1>3, ReachableClosed DEF IInv, TypeOK, NamesDistinct, CellType

\* What is taken out of the list, or lost with it, does not come back.
LEMMA UnsetStep ==
  ASSUME IInv, NEW n \in Names, env_unset_node(n), ~Undefined
  PROVE  IInv'
<1>1. TypeOK /\ NamesDistinct
  BY DEF IInv
<1>2. PICK c \in Found(n) :
        /\ \/ /\ cell[c].prev # NULL /\ cell[c].prev \in live /\ UNCHANGED env_list
              /\ cell' = [cell EXCEPT ![cell[c].prev].next = cell[c].next, ![c] = Blank]
           \/ /\ cell[c].next # NULL /\ env_list' = cell[c].next
              /\ cell' = [cell EXCEPT ![c] = Blank]
        /\ live' = live \ {c} /\ UNCHANGED undefined
  BY DEF env_unset_node
<1>3. c \in Reachable /\ c \in Cells /\ cell[c] \in CellType
  BY <1>1, MetReachable, ReachableClosed DEF Found, TypeOK, CellType
<1>4. Blank \in CellType
  BY DEF Blank, CellType, Pointer
<1>5. /\ Reachable \in SUBSET Cells
      /\ env_list \in Reachable \cup {NULL}
      /\ \A x \in Reachable : cell[x].next \in Reachable \cup {NULL}
  BY <1>1, ReachableClosed
<1>6. /\ cell' \in [Cells -> CellType] /\ env_list' \in Reachable \cup {NULL}
      /\ cell'[c] = Blank
      /\ \A x \in Cells : x # c => /\ cell'[x].name = cell[x].name
                                   /\ cell'[x].next \in {cell[x].next, cell[c].next}
  <2>1. CASE /\ cell[c].prev # NULL /\ cell[c].prev \in live /\ UNCHANGED env_list
             /\ cell' = [cell EXCEPT ![cell[c].prev].next = cell[c].next, ![c] = Blank]
    <3> DEFINE p == cell[c].prev
               m == cell[c].next
               f == [cell EXCEPT ![p].next = m]
    <3>1. p \in Cells /\ m \in Pointer
      BY <1>1, <1>3, <2>1 DEF TypeOK, CellType
    <3>2. /\ f \in [Cells -> CellType]
          /\ \A x \in Cells : f[x].name = cell[x].name /\ f[x].next \in {cell[x].next, m}
      BY <1>1, <3>1 DEF TypeOK, CellType
    <3>3. cell' = [f EXCEPT ![c] = Blank]
      BY <2>1
    <3> HIDE DEF f
    <3>4. QED
      BY <1>3, <1>4, <1>5, <2>1, <3>2, <3>3
  <2>2. CASE /\ cell[c].next # NULL /\ env_list' = cell[c].next
             /\ cell' = [cell EXCEPT ![c] = Blank]
    BY <1>1, <1>3, <1>4, <1>5, <2>2 DEF TypeOK, CellType
  <2>3. QED
    BY <1>2, <2>1, <2>2
<1>7. Reachable' \subseteq Reachable
  <2>1. cell[c].next \in Reachable \cup {NULL}
    BY <1>3, <1>5
  <2>2. \A x \in Reachable : cell'[x].next \in Reachable \cup {NULL}
    BY <1>5, <1>6, <2>1 DEF Blank
  <2>3. QED
    BY <1>5, <1>6, <2>2, LeadsInto
<1>8. TypeOK'
  <2>1. env_list' \in Pointer
    BY <1>5, <1>6 DEF Pointer
  <2>2. QED
    BY <1>1, <1>2, <1>6, <2>1 DEF TypeOK, CellType
<1>9. NamesDistinct'
  BY <1>1, <1>2, <1>5, <1>6, <1>7 DEF NamesDistinct
<1>10. QED
  BY <1>8, <1>9 DEF IInv

\* The step that records undefined behaviour changes nothing else.
LEMMA UndefinedStep == IInv /\ Undefined => IInv'
BY DEF IInv, Undefined, TypeOK, NamesDistinct, Reachable, Met

\* No operation on the list breaks the invariant.
LEMMA StepIInv == IInv /\ [Next]_vars => IInv'
<1> SUFFICES ASSUME IInv, [Next]_vars
             PROVE  IInv'
  OBVIOUS
<1>1. ASSUME NEW n \in Names, NEW v \in Values \cup {NoValue}, Export(n, v) \/ ExportAppend(n, v)
      PROVE  IInv'
  <2>1. \/ Undefined
        \/ \E c \in Found(n) : env_change_value(c, v)
        \/ ~Astray(n) /\ Found(n) = {} /\ \E c \in Cells : env_new_value(n, v, c)
    BY <1>1 DEF Export, ExportAppend
  <2>2. Found(n) \subseteq Cells
    BY MetIsCells DEF Found
  <2>3. QED
    BY <2>1, <2>2, UndefinedStep, ChangeStep, NewStep
<1>2. ASSUME NEW n \in Names, env_unset_node(n)
      PROVE  IInv'
  BY <1>2, UndefinedStep, UnsetStep
<1>3. CASE env_to_array
  BY <1>3, UndefinedStep DEF env_to_array
<1>4. CASE UNCHANGED vars
  BY <1>4 DEF IInv, vars, TypeOK, NamesDistinct, Reachable, Met
<1>5. QED
  BY <1>1, <1>2, <1>3, <1>4 DEF Next

\* Every pointer of the list points at a cell or is NULL, as long as the code
\* does nothing undefined, for any number of names and addresses.
THEOREM EnvTypeCorrect == Spec => []TypeOK
<1>1. IInv => TypeOK
  BY DEF IInv
<1>2. QED
  BY <1>1, InitIInv, StepIInv, PTL DEF Spec

\* No name is listed twice, however the stale prev pointers have been used, for
\* any number of names and addresses.
THEOREM NamesStayDistinct == Spec => []NamesDistinct
<1>1. IInv => NamesDistinct
  BY DEF IInv
<1>2. QED
  BY <1>1, InitIInv, StepIInv, PTL DEF Spec
-----------------------------------------------------------------------------
(* EnvHeap implements EnvList.                                             *)

\* The cells q[1], ..., q[l] are the list, from its head to its end.
IsList(q, l) ==
  /\ q \in [1..l -> Cells]
  /\ \A i, j \in 1..l : q[i] = q[j] => i = j
  /\ env_list = q[1]
  /\ \A i \in 1..l : cell[q[i]].next = IF i = l THEN NULL ELSE q[i + 1]

CellsOf(q, l) == {q[i] : i \in 1..l}

\* A set of natural numbers that is not empty has a least element.
LEMMA Least ==
  ASSUME NEW S \in SUBSET Nat, S # {}
  PROVE  \E x \in S : \A y \in S : x <= y
<1> DEFINE Less == OpToRel(<, Nat)
<1>1. \E x \in S : \A y \in S : <<y, x>> \notin Less
  BY NatLessThanWellFounded, WFMin
<1>2. \A x, y \in Nat : <<y, x>> \notin Less => x <= y
  BY DEF OpToRel
<1>3. QED
  BY <1>1, <1>2

\* The list is all that is reached.
LEMMA ListReached ==
  ASSUME TypeOK, NEW l \in Nat \ {0}, NEW q, IsList(q, l)
  PROVE  Reachable = CellsOf(q, l)
<1>1. /\ q \in [1..l -> Cells] /\ env_list = q[1] /\ NULL \notin Cells /\ 1 \in 1..l
      /\ \A i \in 1..l : cell[q[i]].next = IF i = l THEN NULL ELSE q[i + 1]
      /\ \A i \in 1..l : i # l => i + 1 \in 1..l
  BY EnvAssumption DEF IsList
<1>2. Reachable \subseteq CellsOf(q, l)
  <2> DEFINE S == CellsOf(q, l)
  <2>1. S \in SUBSET Cells
    BY <1>1 DEF CellsOf
  <2>2. env_list \in S \cup {NULL} /\ \A x \in S : cell[x].next \in S \cup {NULL}
    BY <1>1 DEF CellsOf
  <2> HIDE DEF S
  <2>3. Reachable \subseteq S
    BY <2>1, <2>2 DEF Reachable, Met
  <2>4. QED
    BY <2>3 DEF S
<1>3. ASSUME NEW i \in 1..l, q[i] \notin Reachable
      PROVE  FALSE
  <2> DEFINE Missed == {j \in 1..l : q[j] \notin Reachable}
  <2>1. Missed \in SUBSET Nat /\ Missed # {}
    BY <1>3
  <2>2. PICK m \in Missed : \A j \in Missed : m <= j
    BY <2>1, Least
  <2>3. env_list \in Reachable
    BY <1>1, ReachableClosed
  <2>4. m # 1 /\ m \in 1..l
    BY <1>1, <2>3
  <2>5. m - 1 \in 1..l /\ m - 1 # l /\ (m - 1) + 1 = m /\ ~(m <= m - 1)
    BY <2>4
  <2>6. q[m - 1] \in Reachable
    BY <2>2, <2>5
  <2>7. cell[q[m - 1]].next = q[m]
    BY <1>1, <2>5
  <2>8. q[m] \in Reachable
    BY <1>1, <2>4, <2>6, <2>7, ReachableClosed
  <2>9. QED
    BY <2>8
<1>4. QED
  BY <1>2, <1>3 DEF CellsOf

\* So it is as long as there are cells in it.
LEMMA ListLength ==
  ASSUME TypeOK, NEW l \in Nat \ {0}, NEW q, IsList(q, l)
  PROVE  /\ Cardinality(Reachable) = l
         /\ Cardinality(Cells) \in Nat /\ l <= Cardinality(Cells)
<1>1. q \in Bijection(1..l, CellsOf(q, l))
  <2>1. q \in [1..l -> CellsOf(q, l)] /\ \A i, j \in 1..l : q[i] = q[j] => i = j
    BY DEF IsList, CellsOf
  <2>2. q \in Injection(1..l, CellsOf(q, l))
    BY <2>1 DEF Injection, IsInjective
  <2>3. \A c \in CellsOf(q, l) : \E i \in 1..l : q[i] = c
    BY DEF CellsOf
  <2>4. q \in Surjection(1..l, CellsOf(q, l))
    BY <2>1, <2>3 DEF Surjection
  <2>5. QED
    BY <2>2, <2>4 DEF Bijection
<1>2. ExistsBijection(1..l, CellsOf(q, l))
  BY <1>1 DEF ExistsBijection
<1>3. Cardinality(CellsOf(q, l)) = l
  BY <1>2, FS_CountingElements
<1>4. Reachable = CellsOf(q, l) /\ Reachable \in SUBSET Cells
  BY ListReached, ReachableClosed
<1>5. Cardinality(Reachable) <= Cardinality(Cells) /\ Cardinality(Cells) \in Nat
  BY <1>4, EnvAssumption, FS_Subset, FS_CardinalityType
<1>6. QED
  BY <1>3, <1>4, <1>5

\* Following next from env_list visits it in its order.
LEMMA WalkVisits ==
  ASSUME TypeOK, NEW l \in Nat \ {0}, NEW q, IsList(q, l)
  PROVE  \A k \in 0..(l - 1) : Walk[k] = q[k + 1]
<1> DEFINE C == Cardinality(Cells)
           Rule(W) == [k \in 0..C |-> IF k = 0 THEN env_list
                         ELSE LET c == W[k - 1] IN IF c = NULL THEN NULL ELSE cell[c].next]
           V == [k \in 0..C |-> IF k < l THEN q[k + 1] ELSE NULL]
<1>1. C \in Nat /\ l <= C
  BY ListLength
<1>2. /\ q \in [1..l -> Cells] /\ env_list = q[1] /\ NULL \notin Cells
      /\ \A i \in 1..l : cell[q[i]].next = IF i = l THEN NULL ELSE q[i + 1]
  BY EnvAssumption DEF IsList
<1> HIDE DEF C
<1>3. V = Rule(V)
  <2>1. ASSUME NEW k \in 0..C
        PROVE  V[k] = Rule(V)[k]
    <3>1. CASE k = 0
      BY <1>1, <1>2, <3>1
    <3>2. CASE k # 0 /\ k < l
      <4>1. k - 1 \in 0..C /\ k - 1 < l /\ (k - 1) + 1 = k /\ k \in 1..l /\ k # l
        BY <1>1, <3>2
      <4>2. V[k - 1] = q[k] /\ V[k] = q[k + 1] /\ q[k] \in Cells
        BY <1>2, <3>2, <4>1
      <4>3. cell[q[k]].next = q[k + 1]
        BY <1>2, <4>1
      <4>4. Rule(V)[k] = cell[q[k]].next
        BY <1>2, <3>2, <4>2
      <4>5. QED
        BY <4>2, <4>3, <4>4
    <3>3. CASE k # 0 /\ k = l
      <4>1. k - 1 \in 0..C /\ k - 1 < l /\ (k - 1) + 1 = k /\ k \in 1..l
        BY <1>1, <3>3
      <4>2. V[k - 1] = q[k] /\ V[k] = NULL /\ q[k] \in Cells
        BY <1>2, <3>3, <4>1
      <4>3. cell[q[k]].next = NULL
        BY <1>2, <3>3, <4>1
      <4>4. Rule(V)[k] = cell[q[k]].next
        BY <1>2, <3>3, <4>2
      <4>5. QED
        BY <4>2, <4>3, <4>4
    <3>4. CASE k > l
      <4>1. k - 1 \in 0..C /\ ~(k - 1 < l) /\ k # 0 /\ ~(k < l)
        BY <1>1, <3>4
      <4>2. V[k - 1] = NULL /\ V[k] = NULL
        BY <4>1
      <4>3. QED
        BY <4>1, <4>2
    <3>5. QED
      BY <1>1, <3>1, <3>2, <3>3, <3>4
  <2>2. QED
    BY <2>1
<1>4. Walk = CHOOSE W : W = Rule(W)
  BY DEF Walk, C
<1>5. Walk = Rule(Walk)
  <2> HIDE DEF V, Rule
  <2>1. \E W : W = Rule(W)
    BY <1>3
  <2>2. QED
    BY <1>4, <2>1
<1>6. ASSUME NEW i \in 0..(l - 1), Walk[i] # q[i + 1]
      PROVE  FALSE
  <2> DEFINE Wrong == {j \in 0..(l - 1) : Walk[j] # q[j + 1]}
  <2>1. Wrong \in SUBSET Nat /\ Wrong # {}
    BY <1>6
  <2>2. PICK m \in Wrong : \A j \in Wrong : m <= j
    BY <2>1, Least
  <2>3. m \in 0..C /\ Walk[m] = Rule(Walk)[m]
    BY <1>1, <1>5
  <2>4. m # 0
    BY <1>1, <1>2, <2>2, <2>3
  <2>5. m - 1 \in 0..(l - 1) /\ ~(m <= m - 1) /\ (m - 1) + 1 = m /\ m \in 1..l /\ m # l
    BY <2>4
  <2>6. Walk[m - 1] = q[m]
    BY <2>2, <2>5
  <2>7. Walk[m] = cell[q[m]].next
    BY <1>2, <2>3, <2>4, <2>5, <2>6
  <2>8. Walk[m] = q[m + 1]
    BY <1>2, <2>5, <2>7
  <2>9. QED
    BY <2>8
<1>7. QED
  BY <1>6
-----------------------------------------------------------------------------
\* The variables of the list q[1], ..., q[l], and those whose prev pointer is
\* not right.
Content(q, l) == [k \in 1..l |-> [name |-> cell[q[k]].name, value |-> cell[q[k]].value]]
Front(q, k) == IF k = 1 THEN NULL ELSE q[k - 1]
StaleOf(q, l) == {cell[q[k]].name : k \in {j \in 1..l : cell[q[j]].prev # Front(q, j)}}

\* What module EnvList sees.
TheSeq   == IF Broken THEN <<>> ELSE Sequence
TheFrail == IF Broken THEN {} ELSE Stale

LEMMA Shown ==
  \A l \in Nat \ {0} : \A q : TypeOK /\ IsList(q, l) /\ ~Broken =>
                            TheSeq = Content(q, l) /\ TheFrail = StaleOf(q, l)
<1> SUFFICES ASSUME NEW l \in Nat \ {0}, NEW q, TypeOK, IsList(q, l), ~Broken
             PROVE  Sequence = Content(q, l) /\ Stale = StaleOf(q, l)
  BY DEF TheSeq, TheFrail
<1>1. Cardinality(Reachable) = l /\ \A k \in 0..(l - 1) : Walk[k] = q[k + 1]
  BY ListLength, WalkVisits
<1>2. Sequence = Content(q, l)
  <2>1. \A k \in 1..l : k - 1 \in 0..(l - 1) /\ (k - 1) + 1 = k
    OBVIOUS
  <2>2. \A k \in 1..l : Walk[k - 1] = q[k]
    BY <1>1, <2>1
  <2>3. QED
    BY <1>1, <2>2 DEF Sequence, Content
<1>3. Stale = StaleOf(q, l)
  <2>1. \A k \in 0..(l - 1) : /\ Walk[k] = q[k + 1] /\ k + 1 \in 1..l
                              /\ (IF k = 0 THEN NULL ELSE Walk[k - 1]) = Front(q, k + 1)
    <3> TAKE k \in 0..(l - 1)
    <3>1. k # 0 => k - 1 \in 0..(l - 1) /\ (k - 1) + 1 = k /\ (k + 1) - 1 = k /\ k + 1 # 1
      OBVIOUS
    <3>2. QED
      BY <1>1, <3>1 DEF Front
  <2>2. ASSUME NEW x \in Stale
        PROVE  x \in StaleOf(q, l)
    <3>1. PICK k \in 0..(l - 1) : /\ x = cell[Walk[k]].name
                                  /\ cell[Walk[k]].prev # IF k = 0 THEN NULL ELSE Walk[k - 1]
      BY <1>1 DEF Stale
    <3>2. k + 1 \in 1..l /\ x = cell[q[k + 1]].name /\ cell[q[k + 1]].prev # Front(q, k + 1)
      BY <2>1, <3>1
    <3>3. QED
      BY <3>2 DEF StaleOf
  <2>3. ASSUME NEW x \in StaleOf(q, l)
        PROVE  x \in Stale
    <3>1. PICK j \in 1..l : x = cell[q[j]].name /\ cell[q[j]].prev # Front(q, j)
      BY DEF StaleOf
    <3>2. PICK k \in 0..(l - 1) : j = k + 1
      <4>1. j - 1 \in 0..(l - 1) /\ j = (j - 1) + 1
        OBVIOUS
      <4>2. QED
        BY <4>1
    <3>3. /\ x = cell[Walk[k]].name
          /\ cell[Walk[k]].prev # IF k = 0 THEN NULL ELSE Walk[k - 1]
      BY <2>1, <3>1, <3>2
    <3>4. QED
      BY <1>1, <3>3 DEF Stale
  <2>4. QED
    BY <2>2, <2>3
<1>4. QED
  BY <1>2, <1>3

\* A cell that a search finds is the head of the list, or one that it has met
\* points at it.
LEMMA FoundBehind ==
  ASSUME TypeOK, NEW n, NEW c \in Found(n), c # env_list
  PROVE  \E p \in Met({n}) : p # c /\ cell[p].next = c
<1> SUFFICES ASSUME \A p \in Met({n}) : p # c => cell[p].next # c
             PROVE  FALSE
  OBVIOUS
<1> DEFINE S == Met({n}) \ {c}
<1>1. c \in Met({n}) /\ cell[c].name = n /\ c \in Cells
  BY MetIsCells DEF Found
<1>2. S \in SUBSET Cells
  BY MetIsCells
<1>3. env_list \in S \cup {NULL}
  BY MetClosed DEF Closed
<1>4. \A x \in S : cell[x].name \in {n} \/ cell[x].next \in S \cup {NULL}
  BY MetClosed DEF Closed
<1> HIDE DEF S
<1>5. c \in S
  BY <1>1, <1>2, <1>3, <1>4 DEF Met
<1>6. QED
  BY <1>5 DEF S

\* Unset takes a cell out by the pointer of p, or by env_list, if p is NULL.
TakenBy(c, p) ==
  \/ /\ p # NULL /\ p \in live /\ env_list' = env_list
     /\ cell' = [cell EXCEPT ![p].next = cell[c].next, ![c] = Blank]
     /\ live' = live \ {c}
  \/ /\ p = NULL /\ cell[c].next # NULL /\ env_list' = cell[c].next
     /\ cell' = [cell EXCEPT ![c] = Blank]
     /\ live' = live \ {c}

\* What env_unset_node() leaves is whole only if the list was, and if its prev
\* pointer was right.
LEMMA TakenWhole ==
  ASSUME TypeOK, TypeOK', NEW n, NEW c \in Found(n), ~Astray(n), TakenBy(c, cell[c].prev),
         Reachable' = live'
  PROVE  /\ Reachable = live
         /\ IF c = env_list THEN cell[c].prev = NULL
            ELSE cell[c].prev \in live /\ cell[cell[c].prev].next = c
<1> DEFINE p == cell[c].prev
           m == cell[c].next
<1>1. /\ c \in Met({n}) /\ c \in Cells /\ c # NULL /\ Met({n}) \subseteq live
      /\ p \in Pointer /\ m \in Pointer /\ live' = live \ {c} /\ live \subseteq Cells
  BY MetIsCells, EnvAssumption DEF Found, Astray, TypeOK, TakenBy
<1>2. /\ Reachable' \in SUBSET Cells /\ c \notin Reachable'
      /\ env_list' \in Reachable' \cup {NULL}
      /\ \A x \in Reachable' : cell'[x].next \in Reachable' \cup {NULL}
  <2>1. (TypeOK => /\ Reachable \in SUBSET Cells
                   /\ env_list \in Reachable \cup {NULL}
                   /\ \A x \in Reachable : cell[x].next \in Reachable \cup {NULL})'
    BY ReachableClosed, PTL
  <2>2. QED
    BY <1>1, <2>1
<1>3. c # env_list => \E x \in live' : cell[x].next = c
  BY <1>1, FoundBehind
<1>4. \A x \in Cells : /\ x # c /\ x # p => cell'[x].next = cell[x].next
                       /\ x # c /\ x = p => cell'[x].next = m
  BY <1>1, EnvAssumption DEF TakenBy, TypeOK
<1>5. IF c = env_list THEN p = NULL ELSE p \in live /\ cell[p].next = c
  <2>1. CASE c = env_list
    <3>1. env_list' # c
      BY <1>1, <1>2
    <3>2. QED
      BY <2>1, <3>1 DEF TakenBy
  <2>2. CASE c # env_list
    <3>1. PICK x \in live' : cell[x].next = c
      BY <1>3, <2>2
    <3>2. x \in Cells /\ x # c /\ x \in live /\ x \in Reachable'
      BY <1>1, <3>1
    <3>3. cell'[x].next # c
      BY <1>1, <1>2, <3>2
    <3>4. x = p
      BY <1>4, <3>1, <3>2, <3>3
    <3>5. QED
      BY <2>2, <3>1, <3>2, <3>4
  <2>3. QED
    BY <2>1, <2>2
<1>6. Reachable \subseteq live
  <2>1. live \in SUBSET Cells /\ c \in live /\ live = Reachable' \cup {c}
    BY <1>1
  <2>2. env_list \in live \cup {NULL}
    <3>1. CASE p = NULL
      <4>1. c = env_list
        BY <1>1, <1>5, <3>1, EnvAssumption
      <4>2. QED
        BY <2>1, <4>1
    <3>2. CASE p # NULL
      BY <1>2, <2>1, <3>2 DEF TakenBy
    <3>3. QED
      BY <3>1, <3>2
  <2>3. m \in Reachable' \cup {NULL}
    <3>1. CASE p = NULL
      BY <1>2, <3>1 DEF TakenBy
    <3>2. CASE p # NULL
      <4>1. p \in live /\ p \in Cells
        BY <1>1, <3>2 DEF TakenBy
      <4>2. CASE p = c
        <5>1. cell[c].next = c /\ c # env_list
          BY <1>1, <1>5, <4>2, <3>2
        <5>2. PICK x \in live' : cell[x].next = c
          BY <1>3, <5>1
        <5>3. x \in Cells /\ x # c /\ x \in Reachable' /\ x # p
          BY <1>1, <4>2, <5>2
        <5>4. QED
          BY <1>1, <1>2, <1>4, <5>2, <5>3
      <4>3. CASE p # c
        <5>1. p \in Reachable' /\ cell'[p].next = m
          BY <1>1, <1>4, <4>1, <4>3
        <5>2. QED
          BY <1>2, <5>1
      <4>4. QED
        BY <4>2, <4>3
    <3>3. QED
      BY <3>1, <3>2
  <2>4. \A x \in live : cell[x].next \in live \cup {NULL}
    <3> TAKE x \in live
    <3>1. CASE x = c
      BY <2>1, <2>3, <3>1
    <3>2. CASE x # c /\ x = p
      <4>1. c # env_list
        BY <1>1, <1>5, <3>2, EnvAssumption
      <4>2. QED
        BY <1>5, <2>1, <3>2, <4>1
    <3>3. CASE x # c /\ x # p
      BY <1>1, <1>2, <1>4, <2>1, <3>3
    <3>4. QED
      BY <3>1, <3>2, <3>3
  <2>5. QED
    BY <2>1, <2>2, <2>4 DEF Reachable, Met
<1>7. live \subseteq Reachable
  <2>1. /\ Reachable \in SUBSET Cells /\ c \in Reachable
        /\ env_list \in Reachable \cup {NULL}
        /\ \A x \in Reachable : cell[x].next \in Reachable \cup {NULL}
    BY <1>1, ReachableClosed, MetReachable
  <2>2. m \in Reachable \cup {NULL}
    BY <2>1
  <2>3. env_list' \in Reachable \cup {NULL}
    BY <2>1, <2>2 DEF TakenBy
  <2>4. \A x \in Reachable : cell'[x].next \in Reachable \cup {NULL}
    <3> TAKE x \in Reachable
    <3>1. CASE x = c
      <4>1. cell'[c] = Blank
        BY <1>1 DEF TakenBy, TypeOK
      <4>2. QED
        BY <3>1, <4>1 DEF Blank
    <3>2. CASE x # c
      BY <1>4, <2>1, <2>2, <3>2
    <3>3. QED
      BY <3>1, <3>2
  <2>5. Reachable' \subseteq Reachable
    BY <2>1, <2>3, <2>4, LeadsInto
  <2>6. QED
    BY <1>1, <2>1, <2>5
<1>8. QED
  BY <1>5, <1>6, <1>7
-----------------------------------------------------------------------------
\* As long as the list is whole, there is an order of its cells.
Listed == \E l, q : l \in Nat \ {0} /\ IsList(q, l)
Whole == IInv /\ (~Broken => Listed)

\* What a list shows: as many variables as it has cells, with distinct names.
LEMMA ListShown ==
  ASSUME Whole, ~Broken
  PROVE  \E l, q :
           /\ l \in Nat \ {0} /\ IsList(q, l) /\ q \in [1..l -> Cells]
           /\ Reachable = CellsOf(q, l) /\ live = CellsOf(q, l)
           /\ TheSeq = Content(q, l) /\ TheFrail = StaleOf(q, l)
           /\ Len(TheSeq) = l
           /\ \A i, j \in 1..l : cell[q[i]].name = cell[q[j]].name => i = j
<1>1. TypeOK /\ NamesDistinct /\ Reachable = live
  BY DEF Whole, IInv, Broken
<1>2. PICK l, q : l \in Nat \ {0} /\ IsList(q, l)
  BY DEF Whole, Listed
<1>3. Reachable = CellsOf(q, l)
  BY <1>1, <1>2, ListReached
<1>4. TheSeq = Content(q, l) /\ TheFrail = StaleOf(q, l)
  BY <1>1, <1>2, Shown
<1>5. Len(Content(q, l)) = l
  BY <1>2 DEF Content
<1>6. q \in [1..l -> Cells] /\ \A i, j \in 1..l : q[i] = q[j] => i = j
  BY <1>2 DEF IsList
<1>7. ASSUME NEW i \in 1..l, NEW j \in 1..l, cell[q[i]].name = cell[q[j]].name
      PROVE  i = j
  <2>1. q[i] \in Reachable \cap live /\ q[j] \in Reachable \cap live
    BY <1>1, <1>3 DEF CellsOf
  <2>2. q[i] = q[j]
    BY <1>1, <1>7, <2>1 DEF NamesDistinct
  <2>3. QED
    BY <1>6, <2>2
<1>8. QED
  BY <1>1, <1>2, <1>3, <1>4, <1>5, <1>6, <1>7

\* What the next state shows.
LEMMA ShownNext ==
  \A l \in Nat \ {0} : \A q :
    TypeOK' /\ IsList(q, l)' /\ ~Broken' => TheSeq' = Content(q, l)' /\ TheFrail' = StaleOf(q, l)'
<1>1. (\A l \in Nat \ {0} : \A q : TypeOK /\ IsList(q, l) /\ ~Broken =>
                                   TheSeq = Content(q, l) /\ TheFrail = StaleOf(q, l))'
  BY Shown, PTL
<1>2. QED
  BY <1>1

LEMMA ReachedNext ==
  \A l \in Nat \ {0} : \A q : TypeOK' /\ IsList(q, l)' => Reachable' = CellsOf(q, l)
<1>1. \A l \in Nat \ {0} : \A q : TypeOK /\ IsList(q, l) => Reachable = CellsOf(q, l)
  BY ListReached
<1>2. (\A l \in Nat \ {0} : \A q : TypeOK /\ IsList(q, l) => Reachable = CellsOf(q, l))'
  BY <1>1, PTL
<1>3. QED
  BY <1>2 DEF CellsOf
-----------------------------------------------------------------------------
(* The steps of EnvList, said of what EnvHeap shows.                       *)

LEMMA IsStutter == Broken /\ Broken' => UNCHANGED Abstract!vars
BY DEF Abstract!vars

LEMMA StaysWhole == ~Broken /\ ~Broken' => UNCHANGED Broken
BY DEF Broken

LEMMA IsBreak ==
  ASSUME ~Broken, Broken',
         \/ TheFrail # {}
         \/ Len(TheSeq) = 1
         \/ \E i \in 1..Len(TheSeq) : TheSeq[i].value = NoValue
  PROVE  Abstract!Break
BY DEF Abstract!Break, TheSeq, TheFrail

LEMMA IsPrepend ==
  ASSUME ~Broken, ~Broken', NEW n, NEW v,
         \A i \in 1..Len(TheSeq) : TheSeq[i].name # n,
         TheSeq' = <<[name |-> n, value |-> v]>> \o TheSeq,
         TheFrail' = TheFrail \ {Head(TheSeq).name}
  PROVE  Abstract!Prepend(n, v)
<1>1. TheSeq = Sequence /\ TheFrail = Stale /\ TheSeq' = Sequence' /\ TheFrail' = Stale'
  BY DEF TheSeq, TheFrail
<1>2. n \notin Abstract!NamesOf(Sequence)
  BY <1>1 DEF Abstract!NamesOf
<1>3. QED
  BY <1>1, <1>2 DEF Abstract!Prepend

LEMMA IsAt ==
  ASSUME ~Broken, NEW n, NEW j \in 1..Len(TheSeq), TheSeq[j].name = n,
         \A i \in 1..Len(TheSeq) : TheSeq[i].name = n => i = j
  PROVE  Abstract!At(n) = j /\ n \in Abstract!NamesOf(TheSeq)
<1>1. TheSeq = Sequence
  BY DEF TheSeq
<1>2. Abstract!At(n) = CHOOSE i \in 1..Len(TheSeq) : TheSeq[i].name = n
  BY <1>1 DEF Abstract!At
<1>3. QED
  BY <1>2 DEF Abstract!NamesOf

LEMMA IsChange ==
  ASSUME ~Broken, ~Broken', NEW n, NEW v, NEW j \in 1..Len(TheSeq), TheSeq[j].name = n,
         \A i \in 1..Len(TheSeq) : TheSeq[i].name = n => i = j,
         TheSeq' = [TheSeq EXCEPT ![j].value = v], TheFrail' = TheFrail
  PROVE  Abstract!Change(n, v)
<1>1. TheSeq = Sequence /\ TheFrail = Stale /\ TheSeq' = Sequence' /\ TheFrail' = Stale'
  BY DEF TheSeq, TheFrail
<1>2. Abstract!At(n) = j /\ n \in Abstract!NamesOf(Sequence)
  BY <1>1, IsAt
<1>3. QED
  BY <1>1, <1>2 DEF Abstract!Change

\* The variable behind the j-th one.
Behind(j) == IF j < Len(TheSeq) THEN {TheSeq[j + 1].name} ELSE {}

LEMMA IsUnset ==
  ASSUME ~Broken, ~Broken', NEW n, NEW j \in 1..Len(TheSeq), TheSeq[j].name = n,
         \A i \in 1..Len(TheSeq) : TheSeq[i].name = n => i = j,
         n \notin TheFrail, Len(TheSeq) > 1,
         TheSeq' = SubSeq(TheSeq, 1, j - 1) \o SubSeq(TheSeq, j + 1, Len(TheSeq)),
         \E f \in SUBSET Behind(j) : TheFrail' = (TheFrail \ Behind(j)) \cup f
  PROVE  Abstract!Unset(n)
<1>1. Abstract!At(n) = j /\ n \in Abstract!NamesOf(TheSeq)
  BY IsAt
<1> DEFINE Left(i) == SubSeq(TheSeq, 1, i - 1) \o SubSeq(TheSeq, i + 1, Len(TheSeq))
<1>2. TheSeq' = Left(Abstract!At(n)) /\ \E g \in SUBSET Behind(Abstract!At(n)) :
        TheFrail' = (TheFrail \ Behind(Abstract!At(n))) \cup g
  BY <1>1
<1>3. n \in Abstract!NamesOf(TheSeq) \ TheFrail /\ Len(TheSeq) > 1
  BY <1>1
<1>4. QED
  BY <1>2, <1>3, StaysWhole, Zenon DEF Abstract!Unset, Behind, TheSeq, TheFrail
-----------------------------------------------------------------------------
\* A cell that a search finds is one of the list, the only one with its name.
LEMMA FoundListed ==
  ASSUME Whole, NEW l \in Nat \ {0}, NEW q, Reachable = CellsOf(q, l),
         NEW n, NEW c \in Found(n)
  PROVE  \E j \in 1..l : q[j] = c /\ cell[c].name = n
<1>1. c \in Reachable /\ cell[c].name = n
  BY MetReachable DEF Found, Whole, IInv
<1>2. QED
  BY <1>1 DEF CellsOf

\* A change of a value.
LEMMA ChangeAsList ==
  ASSUME Whole, IInv', NEW n, NEW v, NEW c \in Found(n), env_change_value(c, v)
  PROVE  /\ Broken => Broken'
         /\ ~Broken => ~Broken' /\ Listed' /\ Abstract!Change(n, v)
<1>1. /\ TypeOK /\ TypeOK' /\ c \in Cells
      /\ env_list' = env_list /\ live' = live /\ undefined' = undefined
      /\ cell' = [cell EXCEPT ![c].value = v]
  BY MetIsCells DEF Whole, IInv, Found, env_change_value
<1>2. /\ \A x \in Cells : /\ cell'[x].name = cell[x].name /\ cell'[x].next = cell[x].next
                          /\ cell'[x].prev = cell[x].prev
                          /\ x # c => cell'[x].value = cell[x].value
      /\ cell'[c].value = v
  BY <1>1 DEF TypeOK
<1>3. Reachable' = Reachable
  BY <1>1, <1>2 DEF Reachable, Met
<1>4. Broken' = Broken
  BY <1>1, <1>3 DEF Broken
<1>5. ASSUME ~Broken
      PROVE  Listed' /\ Abstract!Change(n, v)
  <2>1. PICK l, q :
           /\ l \in Nat \ {0} /\ IsList(q, l) /\ q \in [1..l -> Cells]
           /\ Reachable = CellsOf(q, l) /\ live = CellsOf(q, l)
           /\ TheSeq = Content(q, l) /\ TheFrail = StaleOf(q, l)
           /\ Len(TheSeq) = l
           /\ \A i, j \in 1..l : cell[q[i]].name = cell[q[j]].name => i = j
    BY <1>5, ListShown
  <2>2. IsList(q, l)'
    BY <1>1, <1>2, <2>1 DEF IsList
  <2>3. ~Broken' /\ TheSeq' = Content(q, l)' /\ TheFrail' = StaleOf(q, l)'
    BY <1>1, <1>4, <1>5, <2>1, <2>2, ShownNext
  <2>4. PICK j \in 1..l : q[j] = c /\ cell[c].name = n
    BY <2>1, FoundListed
  <2>5. \A i \in 1..l : q[i] \in Cells /\ (q[i] = c => i = j)
    BY <2>1, <2>4 DEF IsList
  <2>6. TheSeq' = [TheSeq EXCEPT ![j].value = v]
    <3>1. TheSeq' = [k \in 1..l |-> [name |-> cell'[q[k]].name, value |-> cell'[q[k]].value]]
      BY <2>3 DEF Content
    <3>2. TheSeq = [k \in 1..l |-> [name |-> cell[q[k]].name, value |-> cell[q[k]].value]]
      BY <2>1 DEF Content
    <3>3. ASSUME NEW k \in 1..l
          PROVE  TheSeq'[k] = [TheSeq EXCEPT ![j].value = v][k]
      <4>1. TheSeq'[k] = [name |-> cell[q[k]].name, value |-> IF k = j THEN v ELSE cell[q[k]].value]
        BY <1>2, <2>4, <2>5, <3>1
      <4>2. TheSeq[k] = [name |-> cell[q[k]].name, value |-> cell[q[k]].value]
        BY <3>2
      <4>3. [TheSeq EXCEPT ![j].value = v][k] = IF k = j THEN [TheSeq[k] EXCEPT !.value = v]
                                                ELSE TheSeq[k]
        BY <2>4, <3>2
      <4>4. QED
        BY <4>1, <4>2, <4>3
    <3>4. QED
      BY <3>1, <3>2, <3>3
  <2>7. TheFrail' = TheFrail
    BY <1>2, <2>1, <2>3, <2>5 DEF StaleOf, Front
  <2>8. \A i \in 1..l : TheSeq[i].name = cell[q[i]].name
    BY <2>1 DEF Content
  <2>9. /\ j \in 1..Len(TheSeq) /\ TheSeq[j].name = n
        /\ \A i \in 1..Len(TheSeq) : TheSeq[i].name = n => i = j
    BY <2>1, <2>4, <2>8
  <2>10. Abstract!Change(n, v)
    <3>1. ~Broken /\ ~Broken'
      BY <1>5, <2>3
    <3>2. QED
      BY <2>6, <2>7, <2>9, <3>1, IsChange
  <2>11. QED
    BY <2>1, <2>2, <2>10 DEF Listed
<1>6. QED
  BY <1>4, <1>5
-----------------------------------------------------------------------------
\* A new variable.
LEMMA NewAsList ==
  ASSUME Whole, IInv', NEW n, NEW v, NEW c \in Cells,
         ~Astray(n), Found(n) = {}, env_new_value(n, v, c)
  PROVE  /\ Broken /\ Defined => Broken'
         /\ ~Broken => ~Broken' /\ Listed' /\ Abstract!Prepend(n, v)
<1> DEFINE new == [name |-> n, value |-> v, next |-> env_list, prev |-> NULL]
<1>1. /\ TypeOK /\ TypeOK' /\ c \notin live /\ live \subseteq Cells
      /\ env_list' = c /\ live' = live \cup {c} /\ undefined' = undefined
      /\ env_list \in Pointer
  BY DEF Whole, IInv, env_new_value, TypeOK
<1>2. /\ cell'[c] = new
      /\ \A x \in Cells : x # c => /\ cell'[x].name = cell[x].name
                                   /\ cell'[x].value = cell[x].value
                                   /\ cell'[x].next = cell[x].next
                                   /\ x # env_list => cell'[x].prev = cell[x].prev
                                   /\ x = env_list => cell'[x].prev = c
  <2>1. CASE env_list = NULL
    <3>1. cell' = [cell EXCEPT ![c] = new]
      BY <2>1 DEF env_new_value
    <3> HIDE DEF new
    <3>2. QED
      BY <1>1, <2>1, <3>1, EnvAssumption DEF TypeOK
  <2>2. CASE env_list # NULL
    <3> DEFINE f == [cell EXCEPT ![env_list].prev = c]
    <3>1. env_list \in Cells
      BY <1>1, <2>2 DEF Pointer
    <3>2. /\ f \in [Cells -> CellType]
          /\ \A x \in Cells : /\ f[x].name = cell[x].name /\ f[x].next = cell[x].next
                              /\ f[x].value = cell[x].value
                              /\ x # env_list => f[x].prev = cell[x].prev
                              /\ x = env_list => f[x].prev = c
      BY <1>1, <3>1 DEF TypeOK, CellType, Pointer
    <3>3. cell' = [f EXCEPT ![c] = new]
      BY <2>2 DEF env_new_value
    <3> HIDE DEF f, new
    <3>4. QED
      BY <3>2, <3>3
  <2>3. QED
    BY <2>1, <2>2
<1>3. /\ Reachable \in SUBSET Cells
      /\ env_list \in Reachable \cup {NULL}
      /\ \A x \in Reachable : cell[x].next \in Reachable \cup {NULL}
  BY <1>1, ReachableClosed
<1>4. Reachable \subseteq live /\ \A x \in Reachable : cell[x].name # n
  BY <1>1, MetAll DEF Astray, Found
<1>5. ASSUME Broken, Defined
      PROVE  Broken'
  <2>1. PICK x \in live : x \notin Reachable
    BY <1>4, <1>5 DEF Broken, Defined
  <2> DEFINE S == Reachable \cup {c}
  <2>2. S \in SUBSET Cells /\ env_list' \in S \cup {NULL}
    BY <1>1, <1>3
  <2>3. \A y \in S : cell'[y].next \in S \cup {NULL}
    <3> TAKE y \in S
    <3>1. CASE y = c
      BY <1>2, <1>3, <3>1
    <3>2. CASE y # c
      BY <1>2, <1>3, <3>2
    <3>3. QED
      BY <3>1, <3>2
  <2> HIDE DEF S
  <2>4. Reachable' \subseteq S
    BY <2>2, <2>3, LeadsInto
  <2>5. x \notin Reachable' /\ x \in live'
    BY <1>1, <2>1, <2>4 DEF S
  <2>6. QED
    BY <2>5 DEF Broken
<1>6. ASSUME ~Broken
      PROVE  ~Broken' /\ Listed' /\ Abstract!Prepend(n, v)
  <2>1. PICK l, q :
           /\ l \in Nat \ {0} /\ IsList(q, l) /\ q \in [1..l -> Cells]
           /\ Reachable = CellsOf(q, l) /\ live = CellsOf(q, l)
           /\ TheSeq = Content(q, l) /\ TheFrail = StaleOf(q, l)
           /\ Len(TheSeq) = l
           /\ \A i, j \in 1..l : cell[q[i]].name = cell[q[j]].name => i = j
    BY <1>6, ListShown
  <2>2. /\ env_list = q[1] /\ \A i, j \in 1..l : q[i] = q[j] => i = j
        /\ \A i \in 1..l : cell[q[i]].next = IF i = l THEN NULL ELSE q[i + 1]
    BY <2>1 DEF IsList
  <2>3. \A i \in 1..l : q[i] \in Cells /\ q[i] \in live /\ q[i] # c
    BY <1>1, <2>1 DEF CellsOf
  <2> DEFINE m == l + 1
             r == [k \in 1..m |-> IF k = 1 THEN c ELSE q[k - 1]]
  <2>4. /\ m \in Nat \ {0} /\ 1 \in 1..m /\ r \in [1..m -> Cells] /\ r[1] = c
        /\ \A i \in 1..l : i + 1 \in 1..m /\ i + 1 # 1 /\ r[i + 1] = q[i] /\ (i + 1 = m <=> i = l)
        /\ \A k \in 1..m : k # 1 => k - 1 \in 1..l /\ r[k] = q[k - 1] /\ k = (k - 1) + 1
    BY <2>1, <2>3
  <2>5. 1 # m /\ 2 \in 1..m /\ 1 \in 1..l /\ r[2] = q[1]
    BY <2>1, <2>4
  <2> HIDE DEF m, r
  <2>6. IsList(r, m)'
    <3>1. \A i, j \in 1..m : r[i] = r[j] => i = j
      <4> SUFFICES ASSUME NEW i \in 1..m, NEW j \in 1..m, r[i] = r[j]
                   PROVE  i = j
        OBVIOUS
      <4>1. CASE i = 1
        BY <2>3, <2>4, <4>1
      <4>2. CASE j = 1
        BY <2>3, <2>4, <4>2
      <4>3. CASE i # 1 /\ j # 1
        <5>1. i - 1 \in 1..l /\ j - 1 \in 1..l /\ q[i - 1] = q[j - 1]
          BY <2>4, <4>3
        <5>2. i - 1 = j - 1
          BY <2>2, <5>1
        <5>3. QED
          BY <2>4, <4>3, <5>2
      <4>4. QED
        BY <4>1, <4>2, <4>3
    <3>2. ASSUME NEW i \in 1..m
          PROVE  cell'[r[i]].next = IF i = m THEN NULL ELSE r[i + 1]
      <4>1. CASE i = 1
        BY <1>2, <2>2, <2>4, <2>5, <4>1
      <4>2. CASE i # 1
        <5>1. PICK k \in 1..l : i = k + 1
          BY <2>4, <4>2
        <5>2. r[i] = q[k] /\ q[k] \in Cells /\ q[k] # c
          BY <2>3, <2>4, <5>1
        <5>3. cell'[r[i]].next = IF k = l THEN NULL ELSE q[k + 1]
          BY <1>2, <2>2, <5>2
        <5>4. k # l => k + 1 \in 1..l /\ r[i + 1] = q[k + 1]
          BY <2>4, <5>1
        <5>5. QED
          BY <2>4, <5>1, <5>3, <5>4
      <4>3. QED
        BY <4>1, <4>2
    <3>3. QED
      BY <1>1, <2>4, <3>1, <3>2 DEF IsList
  <2>7. ~Broken'
    <3>1. Reachable' = CellsOf(r, m)
      BY <1>1, <2>4, <2>6, ReachedNext
    <3>2. \A x \in CellsOf(q, l) \cup {c} : \E k \in 1..m : x = r[k]
      BY <2>4 DEF CellsOf
    <3>3. \A k \in 1..m : r[k] \in CellsOf(q, l) \cup {c}
      BY <2>4 DEF CellsOf
    <3>4. CellsOf(r, m) = CellsOf(q, l) \cup {c}
      BY <3>2, <3>3 DEF CellsOf
    <3>5. QED
      BY <1>1, <1>6, <2>1, <3>1, <3>4 DEF Broken
  <2>8. TheSeq' = Content(r, m)' /\ TheFrail' = StaleOf(r, m)'
    BY <1>1, <2>4, <2>6, <2>7, ShownNext
  <2>9. \A i \in 1..l : TheSeq[i] = [name |-> cell[q[i]].name, value |-> cell[q[i]].value]
    BY <2>1 DEF Content
  <2>10. TheSeq' = <<[name |-> n, value |-> v]>> \o TheSeq
    <3> DEFINE e == [name |-> n, value |-> v]
    <3>1. TheSeq' = [k \in 1..m |-> [name |-> cell'[r[k]].name, value |-> cell'[r[k]].value]]
      BY <2>8 DEF Content
    <3>2. <<e>> \o TheSeq = [k \in 1..m |-> IF k = 1 THEN e ELSE TheSeq[k - 1]]
      <4> HIDE DEF e
      <4>1. TheSeq \in Seq({TheSeq[i] : i \in 1..l})
        <5> DEFINE S == {TheSeq[i] : i \in 1..l}
        <5>1. TheSeq = [k \in 1..l |-> [name |-> cell[q[k]].name, value |-> cell[q[k]].value]]
          BY <2>1 DEF Content
        <5>2. \A k \in 1..l : TheSeq[k] \in S
          OBVIOUS
        <5> HIDE DEF S
        <5>3. TheSeq \in [1..l -> S] /\ l \in Nat
          BY <2>1, <5>1, <5>2
        <5>4. TheSeq \in Seq(S)
          BY <5>3
        <5>5. QED
          BY <5>4 DEF S
      <4>2. QED
        BY <2>1, <4>1 DEF m
    <3>3. ASSUME NEW k \in 1..m
          PROVE  [name |-> cell'[r[k]].name, value |-> cell'[r[k]].value] =
                 IF k = 1 THEN e ELSE TheSeq[k - 1]
      <4>1. CASE k = 1
        BY <1>2, <2>4, <4>1
      <4>2. CASE k # 1
        <5>1. k - 1 \in 1..l /\ r[k] = q[k - 1]
          BY <2>4, <4>2
        <5>2. /\ cell'[r[k]].name = cell[q[k - 1]].name
              /\ cell'[r[k]].value = cell[q[k - 1]].value
          BY <1>2, <2>3, <5>1
        <5>3. QED
          BY <2>9, <4>2, <5>1, <5>2
      <4>3. QED
        BY <4>1, <4>2
    <3> HIDE DEF e
    <3>4. QED
      BY <3>1, <3>2, <3>3 DEF e
  <2>11. TheFrail' = TheFrail \ {cell[q[1]].name}
    <3>1. \A k \in 1..l : /\ cell'[r[k + 1]].name = cell[q[k]].name
                          /\ Front(r, k + 1) = IF k = 1 THEN c ELSE Front(q, k)
                          /\ cell'[q[k]].prev = IF k = 1 THEN c ELSE cell[q[k]].prev
                          /\ r[k + 1] = q[k]
      <4> TAKE k \in 1..l
      <4>1. r[k + 1] = q[k] /\ q[k] \in Cells /\ q[k] # c /\ k + 1 # 1 /\ (k + 1) - 1 = k
        BY <2>3, <2>4
      <4>2. q[k] = env_list <=> k = 1
        BY <2>2, <2>5
      <4>3. Front(r, k + 1) = r[k]
        BY <4>1 DEF Front
      <4>4. r[k] = IF k = 1 THEN c ELSE Front(q, k)
        BY <2>4 DEF Front, m
      <4>5. QED
        BY <1>2, <4>1, <4>2, <4>3, <4>4
    <3>2. ASSUME NEW x \in TheFrail'
          PROVE  x \in TheFrail \ {cell[q[1]].name}
      <4>1. PICK k \in 1..m : x = cell'[r[k]].name /\ cell'[r[k]].prev # Front(r, k)
        BY <2>8 DEF StaleOf, Front
      <4>2. k # 1
        BY <1>2, <2>4, <4>1 DEF Front
      <4>3. PICK i \in 1..l : k = i + 1
        BY <2>4, <4>2
      <4>4. /\ x = cell[q[i]].name /\ i # 1 /\ cell[q[i]].prev # Front(q, i)
        BY <3>1, <4>1, <4>3
      <4>5. x \in TheFrail
        BY <2>1, <4>4 DEF StaleOf
      <4>6. x # cell[q[1]].name
        BY <2>1, <2>5, <4>4
      <4>7. QED
        BY <4>5, <4>6
    <3>3. ASSUME NEW x \in TheFrail \ {cell[q[1]].name}
          PROVE  x \in TheFrail'
      <4>1. PICK i \in 1..l : x = cell[q[i]].name /\ cell[q[i]].prev # Front(q, i)
        BY <2>1 DEF StaleOf
      <4>2. i # 1
        BY <3>3, <4>1
      <4>3. i + 1 \in 1..m /\ x = cell'[r[i + 1]].name /\ cell'[r[i + 1]].prev # Front(r, i + 1)
        BY <2>4, <3>1, <4>1, <4>2
      <4>4. QED
        BY <2>8, <4>3 DEF StaleOf, Front
    <3>4. QED
      BY <3>2, <3>3
  <2>12. Head(TheSeq) = TheSeq[1] /\ TheSeq[1].name = cell[q[1]].name
    BY <2>1, <2>5, <2>9
  <2>13. \A i \in 1..Len(TheSeq) : TheSeq[i].name # n
    BY <1>4, <2>1, <2>9 DEF CellsOf
  <2>14. Abstract!Prepend(n, v)
    <3>1. TheFrail' = TheFrail \ {Head(TheSeq).name}
      BY <2>11, <2>12
    <3>2. QED
      BY <1>6, <2>7, <2>10, <2>13, <3>1, IsPrepend
  <2>15. Listed'
    BY <2>4, <2>6 DEF Listed
  <2>16. QED
    BY <2>7, <2>14, <2>15
<1>7. QED
  BY <1>5, <1>6
-----------------------------------------------------------------------------
Without(s, j) == SubSeq(s, 1, j - 1) \o SubSeq(s, j + 1, Len(s))

\* w is s without its j-th element.
LeavesOut(w, s, j, S) ==
  /\ w \in Seq(S) /\ Len(w) = Len(s) - 1
  /\ \A k \in 1..(Len(s) - 1) : w[k] = IF k < j THEN s[k] ELSE s[k + 1]

LEMMA WithoutOne ==
  ASSUME NEW S, NEW s \in Seq(S), NEW j \in 1..Len(s)
  PROVE  LeavesOut(Without(s, j), s, j, S)
<1> DEFINE a == SubSeq(s, 1, j - 1)
           b == SubSeq(s, j + 1, Len(s))
<1>1. Len(s) \in Nat /\ j \in Nat /\ 1 <= j /\ j <= Len(s)
  BY LenProperties
<1>2. a = [k \in 1..(j - 1) |-> s[k]]
  BY <1>1
<1>3. b = [k \in 1..(Len(s) - j) |-> s[k + j]]
  BY <1>1
<1>4. /\ a \in Seq(S) /\ Len(a) = j - 1
      /\ b \in Seq(S) /\ Len(b) = Len(s) - j
  <2>1. \A k \in 1..Len(s) : s[k] \in S
    BY ElementOfSeq
  <2>2. \A k \in 1..(j - 1) : s[k] \in S
    BY <1>1, <2>1
  <2>3. \A k \in 1..(Len(s) - j) : s[k + j] \in S
    <3>1. \A k \in 1..(Len(s) - j) : k + j \in 1..Len(s)
      BY <1>1
    <3>2. QED
      BY <2>1, <3>1
  <2> HIDE DEF a, b
  <2>4. a \in [1..(j - 1) -> S] /\ j - 1 \in Nat
    BY <1>1, <1>2, <2>2
  <2>5. b \in [1..(Len(s) - j) -> S] /\ Len(s) - j \in Nat
    BY <1>1, <1>3, <2>3
  <2>6. QED
    BY <2>4, <2>5
<1> HIDE DEF a, b
<1>5. /\ Len(a \o b) = Len(s) - 1 /\ a \o b \in Seq(S)
      /\ \A k \in 1..(Len(s) - 1) : (a \o b)[k] = IF k <= j - 1 THEN a[k] ELSE b[k - (j - 1)]
  <2>1. /\ a \o b \in Seq(S) /\ Len(a \o b) = Len(a) + Len(b)
        /\ \A k \in 1..(Len(a) + Len(b)) :
             (a \o b)[k] = IF k <= Len(a) THEN a[k] ELSE b[k - Len(a)]
    BY <1>4, ConcatProperties
  <2>2. Len(a) + Len(b) = Len(s) - 1
    BY <1>1, <1>4
  <2>3. QED
    BY <1>4, <2>1, <2>2
<1>6. ASSUME NEW k \in 1..(Len(s) - 1)
      PROVE  (a \o b)[k] = IF k < j THEN s[k] ELSE s[k + 1]
  <2>1. CASE k < j
    <3>1. k <= j - 1 /\ k \in 1..(j - 1)
      BY <1>1, <2>1
    <3>2. (a \o b)[k] = a[k] /\ a[k] = s[k]
      BY <1>2, <1>5, <3>1
    <3>3. QED
      BY <2>1, <3>2
  <2>2. CASE ~(k < j)
    <3>1. ~(k <= j - 1) /\ k - (j - 1) \in 1..(Len(s) - j) /\ (k - (j - 1)) + j = k + 1
      BY <1>1, <2>2
    <3>2. (a \o b)[k] = b[k - (j - 1)] /\ b[k - (j - 1)] = s[k + 1]
      BY <1>3, <1>5, <3>1
    <3>3. QED
      BY <2>2, <3>2
  <2>3. QED
    BY <2>1, <2>2
<1>7. QED
  BY <1>5, <1>6 DEF a, b, Without, LeavesOut

\* With the right prev pointer, a cell is taken out and the list goes on behind
\* it.
LEMMA UnsetRight ==
  ASSUME Whole, IInv', ~Broken, undefined' = undefined,
         NEW l \in Nat \ {0}, NEW q \in [1..l -> Cells], IsList(q, l),
         live = CellsOf(q, l), TheSeq = Content(q, l), TheFrail = StaleOf(q, l),
         Len(TheSeq) = l,
         \A a, b \in 1..l : cell[q[a]].name = cell[q[b]].name => a = b,
         NEW n, NEW j \in 1..l, cell[q[j]].name = n,
         cell[q[j]].prev = Front(q, j), TakenBy(q[j], Front(q, j))
  PROVE  ~Broken' /\ Listed' /\ Abstract!Unset(n)
<1> DEFINE c == q[j]
           m == l - 1
           r == [k \in 1..m |-> IF k < j THEN q[k] ELSE q[k + 1]]
<1>1. /\ TypeOK /\ TypeOK' /\ NULL \notin Cells /\ env_list = q[1]
      /\ \A x, y \in 1..l : q[x] = q[y] => x = y
      /\ \A i \in 1..l : cell[q[i]].next = IF i = l THEN NULL ELSE q[i + 1]
  BY EnvAssumption DEF Whole, IInv, IsList
<1>2. j # 1 => j - 1 \in 1..l /\ (j - 1) + 1 = j /\ Front(q, j) = q[j - 1] /\ q[j - 1] \in Cells
  BY DEF Front
<1>3. /\ live' = live \ {c}
      /\ j = 1 => env_list' = cell[c].next /\ cell[c].next # NULL
                  /\ cell' = [cell EXCEPT ![c] = Blank]
      /\ j # 1 => env_list' = env_list
                  /\ cell' = [cell EXCEPT ![q[j - 1]].next = cell[c].next, ![c] = Blank]
  <2>1. CASE j = 1
    BY <2>1 DEF TakenBy, Front
  <2>2. CASE j # 1
    BY <1>1, <1>2, <2>2 DEF TakenBy
  <2>3. QED
    BY <2>1, <2>2
<1>4. \A i \in 1..l : i # j =>
        /\ q[i] \in Cells /\ q[i] # c
        /\ cell'[q[i]].name = cell[q[i]].name /\ cell'[q[i]].value = cell[q[i]].value
        /\ cell'[q[i]].prev = cell[q[i]].prev
        /\ cell'[q[i]].next = IF i = j - 1 THEN cell[c].next ELSE cell[q[i]].next
  <2> SUFFICES ASSUME NEW i \in 1..l, i # j
               PROVE  /\ q[i] \in Cells /\ q[i] # c
                      /\ cell'[q[i]].name = cell[q[i]].name
                      /\ cell'[q[i]].value = cell[q[i]].value
                      /\ cell'[q[i]].prev = cell[q[i]].prev
                      /\ cell'[q[i]].next = IF i = j - 1 THEN cell[c].next ELSE cell[q[i]].next
    OBVIOUS
  <2>1. q[i] \in Cells /\ q[i] # c
    BY <1>1
  <2>2. CASE j = 1
    <3>1. i # j - 1
      BY <2>2
    <3>2. cell'[q[i]] = cell[q[i]]
      BY <1>1, <1>3, <2>1, <2>2 DEF TypeOK
    <3>3. QED
      BY <2>1, <3>1, <3>2
  <2>3. CASE j # 1
    <3>1. q[i] = q[j - 1] <=> i = j - 1
      BY <1>1, <1>2, <2>3
    <3> DEFINE p == q[j - 1]
               t == cell[c].next
               f == [cell EXCEPT ![p].next = t]
    <3>2. p \in Cells
      BY <1>2, <2>3
    <3>3. \A x \in Cells : /\ f[x].name = cell[x].name /\ f[x].value = cell[x].value
                           /\ f[x].prev = cell[x].prev
                           /\ f[x].next = IF x = p THEN t ELSE cell[x].next
      BY <1>1, <3>2 DEF TypeOK
    <3>4. cell' = [f EXCEPT ![c] = Blank]
      BY <1>3, <2>3
    <3>5. cell'[q[i]] = f[q[i]]
      <4> HIDE DEF f
      <4>1. DOMAIN f = Cells
        BY <1>1 DEF TypeOK, f
      <4>2. QED
        BY <2>1, <3>4, <4>1
    <3> HIDE DEF f, p, t
    <3>6. QED
      BY <2>1, <3>1, <3>3, <3>5 DEF p, t
  <2>4. QED
    BY <2>2, <2>3
<1>5. l > 1 /\ m \in Nat \ {0} /\ 1 \in 1..m
  <2>1. l # 1
    BY <1>1, <1>3
  <2>2. QED
    BY <2>1
<1>6. /\ \A k \in 1..m : /\ k \in 1..l /\ k + 1 \in 1..l
                         /\ k < j => r[k] = q[k]
                         /\ ~(k < j) => r[k] = q[k + 1]
      /\ r \in [1..m -> Cells]
      /\ \A i \in 1..l : i # j => \E k \in 1..m : r[k] = q[i]
  <2>1. \A k \in 1..m : k \in 1..l /\ k + 1 \in 1..l
    OBVIOUS
  <2>2. \A i \in 1..l : i # j => \E k \in 1..m : r[k] = q[i]
    <3> SUFFICES ASSUME NEW i \in 1..l, i # j
                 PROVE  \E k \in 1..m : r[k] = q[i]
      OBVIOUS
    <3>1. CASE i < j
      <4>1. i \in 1..m /\ r[i] = q[i]
        BY <3>1
      <4>2. QED
        BY <4>1
    <3>2. CASE ~(i < j)
      <4>1. i - 1 \in 1..m /\ ~(i - 1 < j) /\ (i - 1) + 1 = i
        BY <3>2
      <4>2. r[i - 1] = q[i]
        BY <4>1
      <4>3. QED
        BY <4>1, <4>2
    <3>3. QED
      BY <3>1, <3>2
  <2>3. QED
    BY <2>1, <2>2
<1> HIDE DEF r
<1>7. IsList(r, m)'
  <2>1. ASSUME NEW x \in 1..m, NEW y \in 1..m, r[x] = r[y]
        PROVE  x = y
    <3>1. CASE x < j /\ y < j
      BY <1>1, <1>6, <2>1, <3>1
    <3>2. CASE ~(x < j) /\ ~(y < j)
      <4>1. x + 1 = y + 1
        BY <1>1, <1>6, <2>1, <3>2
      <4>2. QED
        BY <4>1
    <3>3. CASE x < j /\ ~(y < j)
      <4>1. x = y + 1
        BY <1>1, <1>6, <2>1, <3>3
      <4>2. QED
        BY <3>3, <4>1
    <3>4. CASE ~(x < j) /\ y < j
      <4>1. x + 1 = y
        BY <1>1, <1>6, <2>1, <3>4
      <4>2. QED
        BY <3>4, <4>1
    <3>5. QED
      BY <3>1, <3>2, <3>3, <3>4
  <2>2. env_list' = r[1]
    <3>1. CASE j = 1
      BY <1>1, <1>3, <1>5, <1>6, <3>1
    <3>2. CASE j # 1
      BY <1>1, <1>3, <1>5, <1>6, <3>2
    <3>3. QED
      BY <3>1, <3>2
  <2>3. ASSUME NEW k \in 1..m
        PROVE  cell'[r[k]].next = IF k = m THEN NULL ELSE r[k + 1]
    <3>1. k # m => k + 1 \in 1..m
      OBVIOUS
    <3>2. CASE k = j - 1
      <4>1. r[k] = q[k] /\ k \in 1..l /\ k # j /\ k + 1 = j
        BY <1>6, <3>2
      <4>2. cell'[r[k]].next = cell[c].next
        BY <1>4, <3>2, <4>1
      <4>3. cell[c].next = IF j = l THEN NULL ELSE q[j + 1]
        BY <1>1
      <4>4. k # m => r[k + 1] = q[j + 1]
        BY <1>6, <3>1, <3>2, <4>1
      <4>5. QED
        BY <3>2, <4>2, <4>3, <4>4
    <3>3. CASE k < j - 1
      <4>1. r[k] = q[k] /\ k \in 1..l /\ k # j /\ k # j - 1 /\ k # l /\ k # m
        BY <1>6, <3>3
      <4>2. cell'[r[k]].next = q[k + 1]
        BY <1>1, <1>4, <4>1
      <4>3. r[k + 1] = q[k + 1]
        BY <1>6, <3>1, <3>3, <4>1
      <4>4. QED
        BY <4>1, <4>2, <4>3
    <3>4. CASE ~(k < j)
      <4>1. r[k] = q[k + 1] /\ k + 1 \in 1..l /\ k + 1 # j /\ k + 1 # j - 1 /\ (k + 1 = l <=> k = m)
        BY <1>6, <3>4
      <4>2. cell'[r[k]].next = IF k = m THEN NULL ELSE q[(k + 1) + 1]
        <5>1. cell'[q[k + 1]].next = cell[q[k + 1]].next
          BY <1>4, <4>1
        <5>2. cell[q[k + 1]].next = IF k + 1 = l THEN NULL ELSE q[(k + 1) + 1]
          BY <1>1, <4>1
        <5>3. QED
          BY <4>1, <5>1, <5>2
      <4>3. k # m => r[k + 1] = q[(k + 1) + 1]
        BY <1>6, <3>1, <3>4
      <4>4. QED
        BY <4>2, <4>3
    <3>5. QED
      BY <3>2, <3>3, <3>4
  <2>4. QED
    BY <1>6, <2>1, <2>2, <2>3 DEF IsList
<1>8. ~Broken'
  <2>1. Reachable' = CellsOf(r, m)
    BY <1>1, <1>5, <1>7, ReachedNext
  <2>2. \A x \in live' : \E k \in 1..m : x = r[k]
    BY <1>3, <1>6 DEF CellsOf
  <2>3. \A k \in 1..m : r[k] \in live'
    <3> SUFFICES ASSUME NEW k \in 1..m
                 PROVE  r[k] \in live'
      OBVIOUS
    <3>1. \E i \in 1..l : i # j /\ r[k] = q[i]
      <4>1. CASE k < j
        BY <1>6, <4>1
      <4>2. CASE ~(k < j)
        <5>1. k + 1 \in 1..l /\ k + 1 # j /\ r[k] = q[k + 1]
          BY <1>6, <4>2
        <5>2. QED
          BY <5>1
      <4>3. QED
        BY <4>1, <4>2
    <3>2. QED
      BY <1>3, <1>4, <3>1 DEF CellsOf
  <2>4. CellsOf(r, m) = live'
    BY <2>2, <2>3 DEF CellsOf
  <2>5. QED
    BY <2>1, <2>4 DEF Broken
<1>9. TheSeq' = Content(r, m)' /\ TheFrail' = StaleOf(r, m)'
  BY <1>1, <1>5, <1>7, <1>8, ShownNext
<1>10. \A i \in 1..l : TheSeq[i] = [name |-> cell[q[i]].name, value |-> cell[q[i]].value]
  BY DEF Content
<1>11. TheSeq' = SubSeq(TheSeq, 1, j - 1) \o SubSeq(TheSeq, j + 1, Len(TheSeq))
  <2>1. TheSeq' = [k \in 1..m |-> [name |-> cell'[r[k]].name, value |-> cell'[r[k]].value]]
    BY <1>9 DEF Content
  <2> DEFINE S == {TheSeq[i] : i \in 1..l}
  <2>2. TheSeq \in Seq(S) /\ j \in 1..Len(TheSeq)
    <3>1. TheSeq = [k \in 1..l |-> [name |-> cell[q[k]].name, value |-> cell[q[k]].value]]
      BY DEF Content
    <3>2. \A k \in 1..l : TheSeq[k] \in S
      OBVIOUS
    <3> HIDE DEF S
    <3>3. TheSeq \in [1..l -> S] /\ l \in Nat
      BY <3>1, <3>2
    <3>4. QED
      BY <3>3
  <2> HIDE DEF S
  <2> DEFINE w == Without(TheSeq, j)
  <2>3. /\ w \in Seq(S) /\ Len(w) = Len(TheSeq) - 1
        /\ \A k \in 1..(Len(TheSeq) - 1) : w[k] = IF k < j THEN TheSeq[k] ELSE TheSeq[k + 1]
    <3>1. LeavesOut(Without(TheSeq, j), TheSeq, j, S)
      BY <2>2, WithoutOne
    <3>2. QED
      BY <3>1 DEF LeavesOut
  <2>4. ASSUME NEW k \in 1..m
        PROVE  [name |-> cell'[r[k]].name, value |-> cell'[r[k]].value] =
               IF k < j THEN TheSeq[k] ELSE TheSeq[k + 1]
    <3>1. CASE k < j
      <4>1. r[k] = q[k] /\ k \in 1..l /\ k # j
        BY <1>6, <3>1
      <4>2. QED
        BY <1>4, <1>10, <3>1, <4>1
    <3>2. CASE ~(k < j)
      <4>1. r[k] = q[k + 1] /\ k + 1 \in 1..l /\ k + 1 # j
        BY <1>6, <3>2
      <4>2. QED
        BY <1>4, <1>10, <3>2, <4>1
    <3>3. QED
      BY <3>1, <3>2
  <2> HIDE DEF w
  <2>5. w = [k \in 1..m |-> w[k]]
    BY <2>3, LenProperties
  <2>6. \A k \in 1..m : w[k] = [name |-> cell'[r[k]].name, value |-> cell'[r[k]].value]
    BY <2>3, <2>4
  <2>7. TheSeq' = w
    BY <2>1, <2>5, <2>6
  <2>8. QED
    BY <2>7 DEF w, Without
<1> DEFINE behind == Behind(j)
           f == TheFrail' \cap behind
<1>12. n \notin TheFrail
  <2>1. ASSUME NEW k \in 1..l, cell[q[k]].prev # Front(q, k), cell[q[k]].name = n
        PROVE  FALSE
    <3>1. k = j
      BY <2>1
    <3>2. QED
      BY <2>1, <3>1
  <2>2. QED
    BY <2>1 DEF StaleOf
<1>13. \A k \in 1..m : k # j => Front(r, k) = IF k < j THEN Front(q, k) ELSE Front(q, k + 1)
  <2> SUFFICES ASSUME NEW k \in 1..m, k # j
               PROVE  Front(r, k) = IF k < j THEN Front(q, k) ELSE Front(q, k + 1)
    OBVIOUS
  <2>1. CASE k = 1
    BY <2>1 DEF Front
  <2>2. CASE k # 1
    <3>1. k - 1 \in 1..m /\ (k - 1) + 1 = k /\ (k + 1) - 1 = k /\ k + 1 # 1
          /\ (k < j <=> k - 1 < j)
      BY <2>2
    <3>2. Front(r, k) = IF k < j THEN q[k - 1] ELSE q[k]
      BY <1>6, <2>2, <3>1 DEF Front
    <3>3. QED
      BY <2>2, <3>1, <3>2 DEF Front
  <2>3. QED
    BY <2>1, <2>2
<1>14. ASSUME NEW x \in TheFrail', x \notin behind
       PROVE  x \in TheFrail
  <2>1. PICK k \in 1..m : x = cell'[r[k]].name /\ cell'[r[k]].prev # Front(r, k)
    BY <1>9 DEF StaleOf, Front
  <2>2. k # j
    <3>1. ASSUME k = j
          PROVE  FALSE
      <4>1. r[k] = q[j + 1] /\ j + 1 \in 1..l /\ j + 1 # j /\ j < l
        BY <1>6, <3>1
      <4>2. x = TheSeq[j + 1].name
        BY <1>4, <1>10, <2>1, <4>1
      <4>3. QED
        BY <1>14, <4>1, <4>2 DEF Behind
    <3>2. QED
      BY <3>1
  <2>3. PICK i \in 1..l : i # j /\ r[k] = q[i] /\ Front(r, k) = Front(q, i)
    <3>1. CASE k < j
      BY <1>6, <1>13, <2>2, <3>1
    <3>2. CASE ~(k < j)
      <4>1. k + 1 \in 1..l /\ k + 1 # j /\ r[k] = q[k + 1] /\ Front(r, k) = Front(q, k + 1)
        BY <1>6, <1>13, <2>2, <3>2
      <4>2. QED
        BY <4>1
    <3>3. QED
      BY <3>1, <3>2
  <2>4. x = cell[q[i]].name /\ cell[q[i]].prev # Front(q, i)
    BY <1>4, <2>1, <2>3
  <2>5. QED
    BY <2>4 DEF StaleOf
<1>15. ASSUME NEW x \in TheFrail, x \notin behind
       PROVE  x \in TheFrail'
  <2>1. PICK i \in 1..l : x = cell[q[i]].name /\ cell[q[i]].prev # Front(q, i)
    BY DEF StaleOf
  <2>2. i # j
    BY <2>1
  <2>3. i # j + 1
    <3>1. ASSUME i = j + 1
          PROVE  FALSE
      <4>1. j < l /\ TheSeq[j + 1].name = x
        BY <1>10, <2>1, <3>1
      <4>2. QED
        BY <1>15, <4>1 DEF Behind
    <3>2. QED
      BY <3>1
  <2>4. PICK k \in 1..m : k # j /\ r[k] = q[i] /\ Front(r, k) = Front(q, i)
    <3>1. CASE i < j
      <4>1. i \in 1..m /\ r[i] = q[i] /\ Front(r, i) = Front(q, i)
        BY <1>6, <1>13, <3>1
      <4>2. QED
        BY <2>2, <4>1
    <3>2. CASE ~(i < j)
      <4>1. i - 1 \in 1..m /\ ~(i - 1 < j) /\ i - 1 # j /\ (i - 1) + 1 = i
        BY <2>2, <2>3, <3>2
      <4>2. r[i - 1] = q[i] /\ Front(r, i - 1) = Front(q, i)
        BY <1>6, <1>13, <4>1
      <4>3. QED
        BY <4>1, <4>2
    <3>3. QED
      BY <3>1, <3>2
  <2>5. x = cell'[r[k]].name /\ cell'[r[k]].prev # Front(r, k)
    BY <1>4, <2>1, <2>2, <2>4
  <2>6. QED
    BY <1>9, <2>5 DEF StaleOf, Front
<1>16. f \in SUBSET behind /\ TheFrail' = (TheFrail \ behind) \cup f
  <2> HIDE DEF behind
  <2>1. QED
    BY <1>14, <1>15
<1>17. TheSeq[j].name = n /\ \A i \in 1..Len(TheSeq) : TheSeq[i].name = n => i = j
  BY <1>10
<1>18. Abstract!Unset(n)
  <2>1. ~Broken /\ ~Broken' /\ j \in 1..Len(TheSeq) /\ Len(TheSeq) > 1
    BY <1>5, <1>8
  <2>2. \E g \in SUBSET Behind(j) : TheFrail' = (TheFrail \ Behind(j)) \cup g
    BY <1>16
  <2>3. QED
    BY <1>11, <1>12, <1>17, <2>1, <2>2, IsUnset
<1>19. Listed'
  BY <1>5, <1>7 DEF Listed
<1>20. QED
  BY <1>8, <1>18, <1>19
-----------------------------------------------------------------------------
\* unset: with the right prev pointer the list stays whole, with another one it
\* is lost, and the variable was frail.
LEMMA UnsetAsList ==
  ASSUME Whole, IInv', Defined, NEW n, NEW c \in Found(n), ~Astray(n),
         TakenBy(c, cell[c].prev), undefined' = undefined
  PROVE  /\ Broken => Broken'
         /\ ~Broken /\ ~Broken' => Listed' /\ Abstract!Unset(n)
         /\ ~Broken /\ Broken' => Abstract!Break
<1>1. TypeOK /\ TypeOK'
  BY DEF Whole, IInv
<1>2. ASSUME ~Broken'
      PROVE  /\ Reachable = live
             /\ IF c = env_list THEN cell[c].prev = NULL
                ELSE cell[c].prev \in live /\ cell[cell[c].prev].next = c
  <2>1. Reachable' = live'
    BY <1>2 DEF Broken
  <2>2. QED
    BY <1>1, <2>1, TakenWhole
<1>3. Broken => Broken'
  BY <1>2 DEF Broken, Defined
<1>4. ASSUME ~Broken
      PROVE  /\ ~Broken' => Listed' /\ Abstract!Unset(n)
             /\ Broken' => Abstract!Break
  <2>1. PICK l, q :
           /\ l \in Nat \ {0} /\ IsList(q, l) /\ q \in [1..l -> Cells]
           /\ Reachable = CellsOf(q, l) /\ live = CellsOf(q, l)
           /\ TheSeq = Content(q, l) /\ TheFrail = StaleOf(q, l)
           /\ Len(TheSeq) = l
           /\ \A i, j \in 1..l : cell[q[i]].name = cell[q[j]].name => i = j
    BY <1>4, ListShown
  <2>2. PICK j \in 1..l : q[j] = c /\ cell[c].name = n
    BY <2>1, FoundListed
  <2>3. /\ env_list = q[1] /\ 1 \in 1..l /\ NULL \notin Cells
        /\ \A x, y \in 1..l : q[x] = q[y] => x = y
        /\ \A i \in 1..l : cell[q[i]].next = IF i = l THEN NULL ELSE q[i + 1]
    BY <2>1, EnvAssumption DEF IsList
  <2>4. CASE cell[c].prev = Front(q, j)
    <3>1. TakenBy(q[j], Front(q, j)) /\ cell[q[j]].prev = Front(q, j) /\ cell[q[j]].name = n
      BY <2>2, <2>4
    <3>2. ~Broken' /\ Listed' /\ Abstract!Unset(n)
      BY <1>4, <2>1, <3>1, UnsetRight
    <3>3. QED
      BY <3>2
  <2>5. CASE cell[c].prev # Front(q, j)
    <3>1. n \in TheFrail
      BY <2>1, <2>2, <2>5 DEF StaleOf
    <3>2. Broken' => Abstract!Break
      BY <1>4, <3>1, IsBreak
    <3>3. ASSUME ~Broken'
          PROVE  FALSE
      <4>1. CASE j = 1
        BY <1>2, <2>2, <2>3, <2>5, <3>3, <4>1 DEF Front
      <4>2. CASE j # 1
        <5>1. c # env_list /\ j - 1 \in 1..l /\ Front(q, j) = q[j - 1]
          BY <2>1, <2>2, <2>3, <4>2 DEF Front
        <5>2. cell[c].prev \in live /\ cell[cell[c].prev].next = c
          BY <1>2, <3>3, <5>1
        <5>3. PICK i \in 1..l : cell[c].prev = q[i]
          BY <2>1, <5>2 DEF CellsOf
        <5>4. i # l /\ q[i + 1] = q[j] /\ i + 1 \in 1..l
          BY <2>1, <2>2, <2>3, <5>2, <5>3
        <5>5. i = j - 1
          BY <2>3, <5>4
        <5>6. QED
          BY <2>5, <5>1, <5>3, <5>5
      <4>3. QED
        BY <4>1, <4>2
    <3>4. QED
      BY <3>2, <3>3
  <2>6. QED
    BY <2>4, <2>5
<1>5. QED
  BY <1>3, <1>4

\* What the code uses a pointer it must not use at.
Trips ==
  \/ \E n : Astray(n)
  \/ \E n : \E c \in Found(n) : cell[c].value = NoValue
  \/ \E n : \E c \in Found(n) :
       IF cell[c].prev = NULL THEN cell[c].next = NULL ELSE cell[c].prev \notin live
  \/ ~(Reachable \subseteq live)

\* Undefined behaviour comes only of what EnvList breaks at.
LEMMA UndefinedAsList ==
  ASSUME Whole, Undefined, Trips
  PROVE  Broken' /\ (~Broken => Abstract!Break)
<1>1. Broken'
  BY DEF Undefined, Broken
<1>2. ASSUME ~Broken
      PROVE  Abstract!Break
  <2>1. PICK l, q :
           /\ l \in Nat \ {0} /\ IsList(q, l) /\ q \in [1..l -> Cells]
           /\ Reachable = CellsOf(q, l) /\ live = CellsOf(q, l)
           /\ TheSeq = Content(q, l) /\ TheFrail = StaleOf(q, l)
           /\ Len(TheSeq) = l
           /\ \A i, j \in 1..l : cell[q[i]].name = cell[q[j]].name => i = j
    BY <1>2, ListShown
  <2>2. \A n : ~Astray(n)
    <3>1. TypeOK
      BY DEF Whole, IInv
    <3>2. \A n : Met({n}) \subseteq Reachable
      BY <3>1, MetReachable
    <3>3. QED
      BY <2>1, <3>2 DEF Astray
  <2>3. CASE \E n : \E c \in Found(n) : cell[c].value = NoValue
    <3>1. PICK n : \E c \in Found(n) : cell[c].value = NoValue
      BY <2>3
    <3>2. PICK c \in Found(n) : cell[c].value = NoValue
      BY <3>1
    <3>3. PICK j \in 1..l : q[j] = c
      BY <2>1, FoundListed
    <3>4. j \in 1..Len(TheSeq) /\ TheSeq[j].value = NoValue
      BY <2>1, <3>2, <3>3 DEF Content
    <3>5. QED
      BY <1>1, <1>2, <3>4, IsBreak
  <2>4. CASE \E n : \E c \in Found(n) :
               IF cell[c].prev = NULL THEN cell[c].next = NULL ELSE cell[c].prev \notin live
    <3>1. PICK n : \E c \in Found(n) :
               IF cell[c].prev = NULL THEN cell[c].next = NULL ELSE cell[c].prev \notin live
      BY <2>4
    <3>2. PICK c \in Found(n) :
               IF cell[c].prev = NULL THEN cell[c].next = NULL ELSE cell[c].prev \notin live
      BY <3>1
    <3>3. PICK j \in 1..l : q[j] = c
      BY <2>1, FoundListed
    <3>4. /\ NULL \notin Cells /\ \A i \in 1..l : q[i] \in Cells /\ q[i] \in live
          /\ \A i \in 1..l : cell[q[i]].next = IF i = l THEN NULL ELSE q[i + 1]
      BY <2>1, EnvAssumption DEF IsList, CellsOf
    <3>5. CASE cell[c].prev # Front(q, j)
      <4>1. cell[c].name \in TheFrail
        BY <2>1, <3>3, <3>5 DEF StaleOf
      <4>2. QED
        BY <1>1, <1>2, <4>1, IsBreak
    <3>6. CASE cell[c].prev = Front(q, j)
      <4>1. j = 1
        <5>1. j # 1 => j - 1 \in 1..l /\ Front(q, j) = q[j - 1]
          BY <2>1 DEF Front
        <5>2. QED
          BY <3>2, <3>4, <3>6, <5>1
      <4>2. cell[q[1]].next = NULL /\ 1 \in 1..l
        BY <3>2, <3>3, <3>6, <4>1 DEF Front
      <4>3. l # 1 => 1 + 1 \in 1..l
        BY <2>1
      <4>4. l = 1
        BY <3>4, <4>2, <4>3
      <4>5. QED
        BY <1>1, <1>2, <2>1, <4>4, IsBreak
    <3>7. QED
      BY <3>5, <3>6
  <2>5. QED
    BY <2>1, <2>2, <2>3, <2>4 DEF Trips
<1>3. QED
  BY <1>1, <1>2
-----------------------------------------------------------------------------
\* EnvList counts as EnvHeap does.
LEMMA SameCardinality == \A S : Abstract!Cardinality(S) = Cardinality(S)
BY DEF Abstract!Cardinality, Cardinality

\* The list that the shell starts with: only env_parser() links it both ways.
LEMMA InitAsList == Init => Whole /\ Abstract!Init
<1> SUFFICES ASSUME Init
             PROVE  Whole /\ Abstract!Init
  OBVIOUS
<1>1. PICK s \in Environments, linked \in BOOLEAN :
        \E q \in {q \in [1..Len(s) -> Cells] : \A i, j \in DOMAIN q : q[i] = q[j] => i = j} :
          /\ cell = Loaded(s, q, linked)
          /\ live = {q[i] : i \in DOMAIN q}
          /\ env_list = q[1]
  BY DEF Init
<1>2. PICK q \in [1..Len(s) -> Cells] :
        /\ \A i, j \in DOMAIN q : q[i] = q[j] => i = j
        /\ cell = Loaded(s, q, linked)
        /\ live = {q[i] : i \in DOMAIN q}
        /\ env_list = q[1]
  BY <1>1
<1> DEFINE l == Len(s)
<1>3. PICK k \in 1..Cardinality(Names) :
        /\ s \in [1..k -> [name : Names, value : Values \cup {NoValue}]]
        /\ \A i, j \in 1..k : s[i].name = s[j].name => i = j
  BY DEF Environments
<1>4. l = k /\ l \in Nat \ {0} /\ DOMAIN q = 1..l /\ DOMAIN s = 1..l /\ NULL \notin Cells
  BY <1>3, EnvAssumption
<1>5. IInv /\ TypeOK /\ ~undefined
  BY InitIInv DEF IInv, Init
<1>6. \A i, j \in 1..l : q[i] = q[j] => i = j
  BY <1>2, <1>4
<1>7. ASSUME NEW j \in 1..l
      PROVE  /\ cell[q[j]].name = s[j].name /\ cell[q[j]].value = s[j].value
             /\ cell[q[j]].next = IF j = l THEN NULL ELSE q[j + 1]
             /\ cell[q[j]].prev = IF linked /\ j > 1 THEN q[j - 1] ELSE NULL
  <2> DEFINE c == q[j]
             i == CHOOSE i \in 1..Len(s) : q[i] = c
  <2>1. c \in Cells /\ c \in {q[a] : a \in 1..Len(s)}
    BY <1>4
  <2>2. i \in 1..l /\ q[i] = c
    OBVIOUS
  <2>3. cell[c] = [name  |-> s[i].name,
                   value |-> s[i].value,
                   next  |-> IF i = Len(s) THEN NULL ELSE q[i + 1],
                   prev  |-> IF linked /\ i > 1 THEN q[i - 1] ELSE NULL]
    BY <1>2, <2>1 DEF Loaded
  <2> HIDE DEF i
  <2>4. i = j
    BY <1>6, <2>2
  <2>5. QED
    BY <2>3, <2>4
<1> HIDE DEF l
<1>8. q \in [1..l -> Cells]
  BY DEF l
<1>9. IsList(q, l)
  BY <1>2, <1>6, <1>7, <1>8 DEF IsList
<1>10. ~Broken
  <2>1. Reachable = CellsOf(q, l)
    BY <1>4, <1>5, <1>9, ListReached
  <2>2. live = CellsOf(q, l)
    BY <1>2, <1>4 DEF CellsOf
  <2>3. QED
    BY <1>5, <2>1, <2>2 DEF Broken
<1>11. TheSeq = Content(q, l) /\ TheFrail = StaleOf(q, l)
  BY <1>4, <1>5, <1>9, <1>10, Shown
<1>12. TheSeq = s
  <2>1. TheSeq = [j \in 1..l |-> [name |-> s[j].name, value |-> s[j].value]]
    BY <1>7, <1>11 DEF Content
  <2>2. \A j \in 1..l : s[j] = [name |-> s[j].name, value |-> s[j].value]
    BY <1>3, <1>4
  <2>3. s = [j \in 1..l |-> s[j]]
    BY <1>3, <1>4
  <2>4. QED
    BY <2>1, <2>2, <2>3
<1>13. TheFrail = IF linked THEN {} ELSE {s[j].name : j \in 2..l}
  <2>1. \A j \in 1..l : Front(q, j) = IF j > 1 THEN q[j - 1] ELSE NULL
    BY <1>4 DEF Front
  <2>2. \A j \in 1..l : j > 1 => j - 1 \in 1..l /\ q[j - 1] # NULL
    <3>1. \A j \in 1..l : j > 1 => j - 1 \in 1..l
      BY <1>4
    <3>2. QED
      BY <1>4, <1>8, <3>1
  <2>3. \A j \in 1..l : cell[q[j]].prev # Front(q, j) <=> ~linked /\ j > 1
    BY <1>7, <2>1, <2>2
  <2>4. \A j : j \in 2..l <=> j \in 1..l /\ j > 1
    BY <1>4
  <2>5. TheFrail = {cell[q[j]].name : j \in {i \in 1..l : ~linked /\ i > 1}}
    BY <1>11, <2>3 DEF StaleOf
  <2>6. QED
    BY <1>7, <2>4, <2>5
<1>14. TheFrail \in {{}, Abstract!NamesOf(Tail(TheSeq))}
  <2> DEFINE T == Tail(s)
             S == [name : Names, value : Values \cup {NoValue}]
  <2>1. s \in Seq(S) /\ s # << >>
    <3>1. s \in [1..l -> S]
      BY <1>3, <1>4
    <3> HIDE DEF S
    <3>2. QED
      BY <1>4, <3>1 DEF l
  <2> HIDE DEF S
  <2>2. Len(T) = l - 1 /\ \A i \in 1..(l - 1) : T[i] = s[i + 1]
    BY <1>4, <2>1 DEF l
  <2> HIDE DEF T
  <2>3. ASSUME NEW j \in 2..l
        PROVE  s[j].name \in {T[i].name : i \in 1..Len(T)}
    <3>1. j - 1 \in 1..(l - 1) /\ (j - 1) + 1 = j
      BY <1>4
    <3>2. T[j - 1] = s[j]
      BY <2>2, <3>1
    <3>3. QED
      BY <2>2, <3>1, <3>2
  <2>4. ASSUME NEW i \in 1..Len(T)
        PROVE  T[i].name \in {s[j].name : j \in 2..l}
    <3>1. i + 1 \in 2..l /\ T[i] = s[i + 1]
      BY <1>4, <2>2
    <3>2. QED
      BY <3>1
  <2>5. {s[j].name : j \in 2..l} = {T[i].name : i \in 1..Len(T)}
    BY <2>3, <2>4
  <2>6. Abstract!NamesOf(T) = {T[i].name : i \in 1..Len(T)}
    BY DEF Abstract!NamesOf
  <2>7. QED
    BY <1>12, <1>13, <2>5, <2>6 DEF T
<1>15. TheSeq \in Abstract!Lists
  <2>1. s \in [1..k -> Abstract!Variable]
    BY <1>3 DEF Abstract!Variable
  <2>2. s \in UNION {[1..i -> Abstract!Variable] : i \in 1..Cardinality(Names)}
    BY <2>1
  <2>3. \A i, j \in DOMAIN s : s[i].name = s[j].name => i = j
    BY <1>3
  <2>4. s \in Abstract!Lists
    BY <2>2, <2>3, SameCardinality, Zenon DEF Abstract!Lists
  <2>5. QED
    BY <1>12, <2>4
<1>16. Abstract!Init
  <2>1. Broken = FALSE
    BY <1>10 DEF Broken
  <2>2. QED
    BY <1>14, <1>15, <2>1, Zenon DEF Abstract!Init, TheSeq, TheFrail
<1>17. Whole
  BY <1>4, <1>5, <1>9 DEF Whole, Listed
<1>18. QED
  BY <1>16, <1>17

\* A step of the code is a step of the list, or it is about one that is lost.
LEMMA StepAsList == Whole /\ [Next]_vars => Whole' /\ [Abstract!Next]_(Abstract!vars)
<1> SUFFICES ASSUME Whole, [Next]_vars
             PROVE  Whole' /\ (Abstract!Next \/ UNCHANGED Abstract!vars)
  OBVIOUS
<1>1. IInv /\ IInv' /\ TypeOK
  BY StepIInv DEF Whole, IInv
<1>2. ASSUME Undefined, Defined, Trips
      PROVE  Whole' /\ (Abstract!Next \/ UNCHANGED Abstract!vars)
  <2>1. Broken' /\ (~Broken => Abstract!Break)
    BY <1>2, UndefinedAsList
  <2>2. Broken => UNCHANGED Abstract!vars
    BY <2>1, IsStutter
  <2>3. QED
    BY <1>1, <2>1, <2>2 DEF Whole, Abstract!Next
<1>3. ASSUME NEW n \in Names, NEW v \in Values \cup {NoValue}, Export(n, v)
      PROVE  Whole' /\ (Abstract!Next \/ UNCHANGED Abstract!vars)
  <2>1. Defined
    BY <1>3 DEF Export
  <2>2. CASE Astray(n) /\ Undefined
    BY <1>2, <2>1, <2>2 DEF Trips
  <2>3. ASSUME NEW c \in Found(n), env_change_value(c, v)
        PROVE  Whole' /\ (Abstract!Next \/ UNCHANGED Abstract!vars)
    <3>1. /\ Broken => Broken'
          /\ ~Broken => ~Broken' /\ Listed' /\ Abstract!Change(n, v)
      BY <1>1, <2>3, ChangeAsList
    <3>2. ~Broken => Abstract!Export(n, v)
      BY <3>1, StaysWhole DEF Abstract!Export
    <3>3. QED
      BY <1>1, <1>3, <3>1, <3>2, IsStutter DEF Whole, Abstract!Next
  <2>4. ASSUME NEW c \in Cells, ~Astray(n), Found(n) = {}, env_new_value(n, v, c)
        PROVE  Whole' /\ (Abstract!Next \/ UNCHANGED Abstract!vars)
    <3>1. /\ Broken => Broken'
          /\ ~Broken => ~Broken' /\ Listed' /\ Abstract!Prepend(n, v)
      BY <1>1, <2>1, <2>4, NewAsList
    <3>2. ~Broken => Abstract!Export(n, v)
      BY <3>1, StaysWhole DEF Abstract!Export
    <3>3. QED
      BY <1>1, <1>3, <3>1, <3>2, IsStutter DEF Whole, Abstract!Next
  <2>5. QED
    BY <1>3, <2>2, <2>3, <2>4 DEF Export
<1>4. ASSUME NEW n \in Names, NEW v \in Values, ExportAppend(n, v)
      PROVE  Whole' /\ (Abstract!Next \/ UNCHANGED Abstract!vars)
  <2>1. Defined
    BY <1>4 DEF ExportAppend
  <2>2. CASE Astray(n) /\ Undefined
    BY <1>2, <2>1, <2>2 DEF Trips
  <2>3. CASE (\E c \in Found(n) : cell[c].value = NoValue) /\ Undefined
    BY <1>2, <2>1, <2>3 DEF Trips
  <2>4. ASSUME NEW c \in Found(n), cell[c].value # NoValue, env_change_value(c, v)
        PROVE  Whole' /\ (Abstract!Next \/ UNCHANGED Abstract!vars)
    <3>1. /\ Broken => Broken'
          /\ ~Broken => ~Broken' /\ Listed' /\ Abstract!Change(n, v)
      BY <1>1, <2>4, ChangeAsList
    <3>2. ~Broken => Abstract!Export(n, v)
      BY <3>1, StaysWhole DEF Abstract!Export
    <3>3. QED
      BY <1>1, <1>4, <3>1, <3>2, IsStutter DEF Whole, Abstract!Next
  <2>5. ASSUME NEW c \in Cells, ~Astray(n), Found(n) = {}, env_new_value(n, v, c)
        PROVE  Whole' /\ (Abstract!Next \/ UNCHANGED Abstract!vars)
    <3>1. /\ Broken => Broken'
          /\ ~Broken => ~Broken' /\ Listed' /\ Abstract!Prepend(n, v)
      BY <1>1, <2>1, <2>5, NewAsList
    <3>2. ~Broken => Abstract!Export(n, v)
      BY <3>1, StaysWhole DEF Abstract!Export
    <3>3. QED
      BY <1>1, <1>4, <3>1, <3>2, IsStutter DEF Whole, Abstract!Next
  <2>6. QED
    BY <1>4, <2>2, <2>3, <2>4, <2>5 DEF ExportAppend
<1>5. ASSUME NEW n \in Names, env_unset_node(n)
      PROVE  Whole' /\ (Abstract!Next \/ UNCHANGED Abstract!vars)
  <2>1. Defined
    BY <1>5 DEF env_unset_node
  <2>2. CASE Astray(n) /\ Undefined
    BY <1>2, <2>1, <2>2 DEF Trips
  <2>3. ASSUME NEW c \in Found(n), Undefined,
               IF cell[c].prev = NULL THEN cell[c].next = NULL ELSE cell[c].prev \notin live
        PROVE  Whole' /\ (Abstract!Next \/ UNCHANGED Abstract!vars)
    BY <1>2, <2>1, <2>3 DEF Trips
  <2>4. ASSUME NEW c \in Found(n), ~Astray(n), TakenBy(c, cell[c].prev), undefined' = undefined
        PROVE  Whole' /\ (Abstract!Next \/ UNCHANGED Abstract!vars)
    <3>1. /\ Broken => Broken'
          /\ ~Broken /\ ~Broken' => Listed' /\ Abstract!Unset(n)
          /\ ~Broken /\ Broken' => Abstract!Break
      BY <1>1, <2>1, <2>4, UnsetAsList
    <3>2. QED
      BY <1>1, <3>1, IsStutter DEF Whole, Abstract!Next
  <2>5. ASSUME ~(Astray(n) /\ Undefined)
        PROVE  ~Astray(n) /\ \E c \in Found(n) :
                 \/ TakenBy(c, cell[c].prev) /\ undefined' = undefined
                 \/ /\ IF cell[c].prev = NULL THEN cell[c].next = NULL ELSE cell[c].prev \notin live
                    /\ Undefined
    BY <1>5, <2>5 DEF env_unset_node, TakenBy
  <2>6. QED
    BY <2>2, <2>3, <2>4, <2>5
<1>6. CASE env_to_array
  BY <1>2, <1>6 DEF env_to_array, Trips
<1>7. CASE UNCHANGED vars
  <2>1. Reachable' = Reachable /\ Broken' = Broken
    BY <1>7 DEF vars, Reachable, Met, Broken
  <2>2. ASSUME ~Broken
        PROVE  Listed' /\ UNCHANGED Abstract!vars
    <3>1. PICK l, q :
           /\ l \in Nat \ {0} /\ IsList(q, l) /\ q \in [1..l -> Cells]
           /\ Reachable = CellsOf(q, l) /\ live = CellsOf(q, l)
           /\ TheSeq = Content(q, l) /\ TheFrail = StaleOf(q, l)
           /\ Len(TheSeq) = l
           /\ \A i, j \in 1..l : cell[q[i]].name = cell[q[j]].name => i = j
      BY <2>2, ListShown
    <3>2. IsList(q, l)' /\ TypeOK'
      BY <1>1, <1>7, <3>1 DEF vars, IsList, IInv
    <3>3. TheSeq' = Content(q, l)' /\ TheFrail' = StaleOf(q, l)'
      BY <2>1, <2>2, <3>1, <3>2, ShownNext
    <3>4. TheSeq' = TheSeq /\ TheFrail' = TheFrail
      BY <1>7, <3>1, <3>3 DEF vars, Content, StaleOf, Front
    <3>5. UNCHANGED Abstract!vars
      BY <2>1, <3>4, Zenon DEF Abstract!vars, TheSeq, TheFrail
    <3>6. QED
      BY <3>1, <3>2, <3>5 DEF Listed
  <2>3. QED
    BY <1>1, <2>1, <2>2, IsStutter DEF Whole
<1>8. QED
  BY <1>3, <1>4, <1>5, <1>6, <1>7 DEF Next

\* Up to the first unset of a variable whose prev pointer is not right, or of
\* the last variable, or append to a variable without a value, the linked cells
\* behave as a list of variables with distinct names, for any number of names
\* and addresses, whatever malloc() hands out again.
THEOREM EnvIsList == Spec => ImplementsEnvList
<1>1. Init => Whole
  BY InitAsList
<1>2. Init => Abstract!Init
  BY InitAsList
<1>3. Whole /\ [Next]_vars => Whole'
  BY StepAsList
<1>4. Whole /\ [Next]_vars => [Abstract!Next]_(Abstract!vars)
  BY StepAsList
<1>5. QED
  BY <1>1, <1>2, <1>3, <1>4, PTL DEF Spec, ImplementsEnvList, Abstract!Spec
=============================================================================
