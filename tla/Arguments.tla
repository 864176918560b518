------------------------------ MODULE Arguments ------------------------------
(***************************************************************************)
(* What the shell reads in a text: src/builtins/exit.c and                 *)
(* ft_atoi_long_long(), a number of any length for exit;                   *)
(* builtin_utils.c and envoirment_utils.c, NAME, NAME=value and            *)
(* NAME+=value for export; init.c and init_utils.c, the level of a shell   *)
(* that is started by another one.                                         *)
(*                                                                         *)
(* Texts are sequences of characters.  The widths of long long, int and    *)
(* of an exit code are parameters, as is the level that is too high.       *)
(***************************************************************************)
EXTENDS Integers, SequencesExt

CONSTANTS
  LongBits, IntBits, ByteBits,  \* widths: 64, 32 and 8 in the code
  Cap,                          \* the level that is not shown: 1000 in the code
  Characters, Letters,          \* of texts, and of names
  Levels,                       \* values of SHLVL in the first shell's environment
  ExitWords, ExportWords,       \* the arguments of an exit and of an export
  Statuses,                     \* num_return_error of a shell that has run something
  MaxShells, MaxNames, MaxText  \* bounds: shells in each other, names in the
                                \* environment, length of their values

SHLVL  == <<"L">>
Digits == <<"0", "1", "2", "3", "4", "5", "6", "7", "8", "9">>
Digit  == ToSet(Digits)
Blank  == {" "}
Sign   == {"+", "-"}
Text   == Seq(Characters)

\* How many numbers there are of so many bits.
Width[bits \in 0..LongBits] == IF bits = 0 THEN 1 ELSE 2 * Width[bits - 1]

ASSUME ArgumentsAssumption ==
  /\ {LongBits, IntBits, ByteBits} \subseteq Nat \ {0}
  /\ ByteBits < IntBits /\ IntBits < LongBits
  /\ Cap \in 2..(Width[IntBits - 1] - 1)
  /\ Letters \cap (Digit \cup Blank \cup Sign \cup {"="}) = {}
  /\ "L" \in Letters /\ "NULL" \notin Characters
  /\ Letters \cup Digit \cup Blank \cup Sign \cup {"="} \subseteq Characters
  /\ Levels \subseteq Text /\ Statuses \subseteq Int
  /\ ExitWords \cup ExportWords \subseteq Seq(Text)

VARIABLES
  env,               \* master->env_list: the values of the names that are there
  num_return_error,  \* "$?"
  code,              \* the exit code of the shell, or Running
  command,           \* the last command of this shell and what it found
  base, depth        \* the last SHLVL that no shell gave itself, the shells since

vars == <<env, num_return_error, code, command, base, depth>>

Running == -1
NoValue == <<"NULL">>  \* a value that is NULL, as a text
Empty   == [name \in {} |-> NoValue]
None    == [name |-> "none", words |-> <<>>, env |-> Empty, status |-> 0]

\* A bound: a shell reads one command, and then ends or starts another shell.
Fresh == code = Running /\ command = None

Put(e, name, value) == [n \in {name} \cup DOMAIN e |-> IF n = name THEN value ELSE e[n]]
Shown(e) == IF SHLVL \in DOMAIN e THEN e[SHLVL] ELSE NoValue
-----------------------------------------------------------------------------
Init == /\ env \in {Empty} \cup {Put(Empty, SHLVL, t) : t \in Levels}
        /\ num_return_error \in Statuses
        /\ code = Running /\ command = None
        /\ base = Shown(env) /\ depth = 0
-----------------------------------------------------------------------------
INT_MAX   == Width[IntBits - 1] - 1
LLONG_MAX == Width[LongBits - 1] - 1

Wrapped(n) == ((n + LLONG_MAX + 1) % Width[LongBits]) - (LLONG_MAX + 1)

ValueOf(c) == CHOOSE d \in 0..9 : Digits[d + 1] = c
\* A number as a text; LLONG_MAX + 1 is the limit of the negative ones.
ToText[n \in 0..(LLONG_MAX + 1)] ==
  LET last == <<Digits[(n % 10) + 1]>>
  IN  IF n < 10 THEN last ELSE ToText[n \div 10] \o last

\* What t begins with as long as its characters are of S, and what follows.
Leading(t, S) == LET end == SelectInSeq(t, LAMBDA c : c \notin S)
                 IN  IF end = 0 THEN t ELSE SubSeq(t, 1, end - 1)
Behind(t, S)  == SubSeq(t, Len(Leading(t, S)) + 1, Len(t))
Starts(t, S)  == t # <<>> /\ t[1] \in S
Unsigned(t)   == IF Starts(t, Sign) THEN Tail(t) ELSE t

\* num behind the loop over the digits t.
ReadDigits(t) ==
  LET num[k \in 0..Len(t)] ==
        IF k = 0 THEN 0 ELSE Wrapped(10 * num[k - 1] + ValueOf(t[k]))
  IN  num[Len(t)]

ft_atoi_long_long(t) ==
  LET text == Behind(t, Blank)
      num  == ReadDigits(Leading(Unsigned(text), Digit))
  IN  Wrapped(IF Starts(text, {"-"}) THEN -num ELSE num)

is_numeric(t) ==
  LET text == Behind(t, Blank)
  IN  /\ text # <<>>
      /\ ~(Starts(text, Sign) /\ Len(text) = 1)
      /\ Behind(Behind(Unsigned(text), Digit), Blank) = <<>>

\* The order of strncmp() on the characters a number is made of.
Rank(c)    == IF c \in Digit THEN 1 + ValueOf(c) ELSE 0
Above(t, u) == \E i \in 1..Len(t) : /\ Rank(t[i]) > Rank(u[i])
                                    /\ \A j \in 1..(i - 1) : Rank(t[j]) = Rank(u[j])

WithoutZeros(t) == LET rest == Behind(t, {"0"})
                   IN  IF rest = <<>> /\ t # <<>> THEN <<"0">> ELSE rest

\* Seeded fault: the limit of the positive numbers is that of all.
valid_numeric_argv_OneLimit(t) ==
  LET number == WithoutZeros(Unsigned(t))
      limit  == ToText[LLONG_MAX]
  IN  /\ is_numeric(t)
      /\ Len(number) <= Len(limit)
      /\ Len(number) = Len(limit) => ~Above(number, limit)

valid_numeric_argv(t) ==
  LET number == WithoutZeros(Unsigned(t))
      limit  == ToText[IF Starts(t, {"-"}) THEN LLONG_MAX + 1 ELSE LLONG_MAX]
  IN  /\ is_numeric(t)
      /\ Len(number) <= Len(limit)
      /\ Len(number) = Len(limit) => ~Above(number, limit)

Byte(n) == n % Width[ByteBits]

exit(n) == /\ code' = n /\ num_return_error' = n
           /\ env' = Empty /\ base' = NoValue /\ depth' = 0

exec_exit(words) ==
  /\ Fresh
  /\ command' = [name |-> "exit", words |-> words, env |-> Empty,
                 status |-> num_return_error]
  /\ \/ words = <<>> /\ exit(Byte(num_return_error))
     \/ words # <<>> /\ ~valid_numeric_argv(words[1]) /\ exit(Byte(255))
     \/ /\ Len(words) = 1 /\ valid_numeric_argv(words[1])
        /\ exit(Byte(ft_atoi_long_long(words[1])))
     \/ /\ Len(words) > 1 /\ valid_numeric_argv(words[1])
        /\ num_return_error' = -1
        /\ UNCHANGED <<env, code, base, depth>>
-----------------------------------------------------------------------------
is_valid_name(t) == Starts(t, Letters) /\ ToSet(t) \subseteq Letters \cup Digit

\* Seeded fault: any "+" in front of the "=" belongs to the operator.
export_set_values_AnyPlus(word) ==
  LET equals == SelectInSeq(word, LAMBDA c : c = "=")
      plus   == SelectInSeq(word, LAMBDA c : c = "+")
      end    == IF plus > 1 /\ plus < equals THEN plus ELSE equals
  IN  IF equals > 1 THEN [name |-> SubSeq(word, 1, end - 1), op |-> word[end],
                          value |-> SubSeq(word, equals + 1, Len(word))]
      ELSE [name |-> word, op |-> "none", value |-> <<>>]

export_set_values(word) ==
  LET equals == SelectInSeq(word, LAMBDA c : c = "=")
      plus   == SelectInSeq(word, LAMBDA c : c = "+")
      end    == IF plus > 1 /\ plus = equals - 1 THEN plus ELSE equals
  IN  IF equals > 1 THEN [name |-> SubSeq(word, 1, end - 1), op |-> word[end],
                          value |-> SubSeq(word, equals + 1, Len(word))]
      ELSE [name |-> word, op |-> "none", value |-> <<>>]

\* What value_condition() stores; ft_strjoin() reads a NULL it appends to.
NewValue(e, x) == CASE x.op = "none" -> NoValue
                    [] x.op = "="    -> x.value
                    [] x.op = "+"    -> IF x.name \in DOMAIN e
                                        THEN e[x.name] \o x.value ELSE x.value
Undefined(e, x) == x.op = "+" /\ x.name \in DOMAIN e /\ e[x.name] = NoValue

\* One round of exec_export()'s loop.
ExportWord(r, word) ==
  LET x == export_set_values(word)
  IN  IF ~is_valid_name(x.name) THEN [r EXCEPT !.rtrn = 1]
      ELSE [r EXCEPT !.env = Put(@, x.name, NewValue(@, x)),
                     !.defined = @ /\ ~Undefined(r.env, x)]

Fits(e) == /\ Cardinality(DOMAIN e) <= MaxNames
           /\ \A name \in DOMAIN e : e[name] = NoValue \/ Len(e[name]) <= MaxText

\* What the loop has come to behind the last word.
ExportAll(words) ==
  LET round[k \in 0..Len(words)] ==
        IF k = 0 THEN [env |-> env, rtrn |-> 0, defined |-> TRUE]
        ELSE ExportWord(round[k - 1], words[k])
  IN  round[Len(words)]

exec_export(words) ==
  LET r == ExportAll(words)
  IN  /\ Fresh /\ r.defined /\ Fits(r.env)
      /\ env' = r.env
      /\ num_return_error' = IF r.rtrn = 1 THEN 1 ELSE num_return_error
      /\ command' = [name |-> "export", words |-> words, env |-> env,
                     status |-> num_return_error]
      /\ IF Shown(r.env) = Shown(env) THEN UNCHANGED <<base, depth>>
         ELSE base' = Shown(r.env) /\ depth' = 0
      /\ UNCHANGED code
-----------------------------------------------------------------------------
\* Seeded fault: a level of Cap is still shown.
bash_lvl_calculator_Shown(t) ==
  LET long  == ft_atoi_long_long(t)
      value == IF t = ToText[LLONG_MAX] THEN Width[IntBits] - 1
               ELSE IF long = LLONG_MAX THEN 0 ELSE long % Width[IntBits]
      next  == (value + 1) % Width[IntBits]
      level == IF next > INT_MAX THEN 0 ELSE next
  IN  ToText[IF level > Cap THEN 1 ELSE level]

bash_lvl_calculator(t) ==
  LET long  == ft_atoi_long_long(t)
      value == IF t = ToText[LLONG_MAX] THEN Width[IntBits] - 1
               ELSE IF long = LLONG_MAX THEN 0 ELSE long % Width[IntBits]
      next  == (value + 1) % Width[IntBits]
      level == IF next > INT_MAX THEN 0 ELSE next
  IN  IF level = Cap THEN NoValue ELSE ToText[IF level > Cap THEN 1 ELSE level]

\* A value on its way through env_to_array() and env_parser().
Passed(v) == IF v = NoValue THEN <<>>
             ELSE Leading(Behind(v, {"="}), Letters \cup Digit \cup Blank \cup Sign)

add_bash_lvl(e) ==
  Put(e, SHLVL, IF SHLVL \in DOMAIN e THEN bash_lvl_calculator(e[SHLVL]) ELSE <<"1">>)

StartShell ==
  /\ code = Running /\ depth < MaxShells
  /\ env' = add_bash_lvl([name \in DOMAIN env |-> Passed(env[name])])
  /\ num_return_error' = 0 /\ command' = None
  /\ depth' = depth + 1
  /\ UNCHANGED <<code, base>>
-----------------------------------------------------------------------------
Next == \/ \E words \in ExitWords : exec_exit(words)
        \/ \E words \in ExportWords : exec_export(words)
        \/ StartShell

Spec == Init /\ [][Next]_vars
-----------------------------------------------------------------------------
(* Numbers as they are written: blanks, a sign, digits, blanks.            *)

IsNumber(t) ==
  \E i \in 1..Len(t) : \E k \in i..Len(t) :
    /\ ToSet(SubSeq(t, 1, i - 1) \o SubSeq(t, k + 1, Len(t))) \subseteq Blank
    /\ t[k] \in Digit /\ t[i] \in Sign \cup Digit
    /\ ToSet(SubSeq(t, i + 1, k)) \subseteq Digit

\* Numeral(t)[k]: the number that the digits among the first k characters make.
Numeral(t) == LET made[k \in 0..Len(t)] ==
                    IF k = 0 THEN 0
                    ELSE IF t[k] \in Digit THEN 10 * made[k - 1] + ValueOf(t[k])
                    ELSE made[k - 1]
              IN  made

Number(t) == LET n == Numeral(t)[Len(t)] IN IF "-" \in ToSet(t) THEN -n ELSE n

IsLong(t) == IsNumber(t) /\ Number(t) \in -(LLONG_MAX + 1)..LLONG_MAX

\* Blanks count as digits of a number that is long.
Padded(t) == ToSet(t) \cap Blank # {} /\ Len(t) >= Len(ToText[LLONG_MAX])

\* A sign and a blank are taken for 0.
SignOnly(t) == ~IsNumber(t) /\ is_numeric(t)

\* exit ends the shell with its number, with the last status if it has none,
\* with 255 if it has something else; a number of a long text with blanks may
\* also count as something else.  With two arguments the shell goes on, with a
\* status that tells.
ExitRight ==
  command.name = "exit" =>
    LET words == command.words
        first == words[1]
    IN  CASE words = <<>> -> code = Byte(command.status)
          [] words # <<>> /\ SignOnly(first) -> TRUE
          [] words # <<>> /\ ~SignOnly(first) ->
               \/ ~IsLong(first) /\ code = Byte(255)
               \/ Padded(first)  /\ code = Byte(255)
               \/ IsLong(first) /\ Len(words) = 1 /\ code = Byte(Number(first))
               \/ /\ IsLong(first) /\ Len(words) > 1
                  /\ code = Running /\ num_return_error # 0

\* Where the name in a word for export ends: what follows is nothing, "=" or "+=".
NameEnds(word) ==
  {k \in 1..Len(word) : /\ is_valid_name(SubSeq(word, 1, k))
                        /\ \/ k = Len(word)
                           \/ word[k + 1] = "="
                           \/ k + 1 < Len(word) /\ word[k + 1] = "+" /\ word[k + 2] = "="}

Exported(e, word) ==
  IF NameEnds(word) = {} THEN e
  ELSE LET k     == CHOOSE k \in NameEnds(word) : TRUE
           name  == SubSeq(word, 1, k)
           value == IF k = Len(word) THEN NoValue
                    ELSE IF word[k + 1] = "=" THEN SubSeq(word, k + 2, Len(word))
                    ELSE (IF name \in DOMAIN e THEN e[name] ELSE <<>>)
                         \o SubSeq(word, k + 3, Len(word))
       IN  Put(e, name, value)

AllExported(e, words) ==
  LET after[k \in 0..Len(words)] ==
        IF k = 0 THEN e ELSE Exported(after[k - 1], words[k])
  IN  after[Len(words)]

\* export does what its words say, one after the other: those that are no names
\* change nothing but the status, whatever stands in front of them or behind.
\* A name alone takes the value away from a variable that has one.
ExportRight ==
  command.name = "export" =>
    /\ env = AllExported(command.env, command.words)
    /\ num_return_error =
         IF \E word \in ToSet(command.words) : NameEnds(word) = {} THEN 1
         ELSE command.status

\* The levels a shell may have that was started with the text t for a level.
FirstLevels(t) ==
  IF t = NoValue \/ ToSet(t) \subseteq Blank THEN {1}
  ELSE IF IsNumber(t) /\ Number(t) < INT_MAX /\ Number(t) >= -(INT_MAX + 1)
  THEN {IF Number(t) < 0 THEN 0 ELSE IF Number(t) >= Cap THEN 1 ELSE Number(t) + 1}
  ELSE 0..Cap

\* The level of the k-th shell: behind Cap it starts again with 1.
LevelOf(first, k) ==
  IF first + k - 1 <= Cap THEN first + k - 1 ELSE ((first + k - 2) % Cap) + 1

\* A shell's level says how many shells are around it since somebody set SHLVL
\* to a number an int holds; after anything else it is a level all the same.
LevelRight ==
  depth > 0 => \E first \in FirstLevels(base) :
                 LET level == LevelOf(first, depth)
                 IN  env[SHLVL] = IF level = Cap THEN NoValue ELSE ToText[level]
=============================================================================
