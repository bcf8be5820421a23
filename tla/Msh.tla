-------------------------------- MODULE Msh --------------------------------
(***************************************************************************)
(* The command interpreter of rt-thread/components/finsh/msh.c.  It works  *)
(* in the line buffer itself: words are offsets into it, and a blank or a  *)
(* closing quote behind a word is replaced by NUL.                         *)
(***************************************************************************)
EXTENDS KString

CONSTANTS
  Command,        \* the names of the table, in its order
  FINSH_ARG_MAX

ASSUME MshAssumption == FINSH_ARG_MAX \in Nat \ {0} /\ Command \in Seq(Seq(STRING))

Blank == {" ", "TAB"}
QUOTE == "quote"
BACKSLASH == "backslash"

NoCommand == <<>>

(* The first address from a on, before n, where what is looked for is. *)
FirstFrom(m, a, n, found) == Min({b \in a..n - 1 : m[b] \in found} \cup {IF a > n THEN a ELSE n})

(* The end of a quoted string that begins at a: the position may run one   *)
(* past n behind a backslash.                                              *)
RECURSIVE EndOfString(_, _, _)
EndOfString(m, a, n) ==
  IF m[a] = QUOTE \/ a >= n THEN a
  ELSE IF m[a] = BACKSLASH /\ m[a + 1] = QUOTE THEN EndOfString(m, a + 2, n)
  ELSE EndOfString(m, a + 1, n)

Terminated(m, a, b) == [c \in DOMAIN m |-> IF c \in a..b - 1 THEN NUL ELSE m[c]]

(* One round of the loop of msh_split from a, with the offsets found so    *)
(* far.                                                                    *)
RECURSIVE SplitFrom(_, _, _, _)
SplitFrom(m, a, n, argv) ==
  LET b == Min({c \in a..n - 1 : m[c] \notin Blank} \cup {IF a > n THEN a ELSE n})
      mm == Terminated(m, a, b)
      q == EndOfString(mm, b + 1, n)
      w == FirstFrom(mm, b, n, Blank)
  IN  IF a >= n THEN [m |-> m, argv |-> argv]
      ELSE IF Len(argv) >= FINSH_ARG_MAX \/ b >= n THEN [m |-> mm, argv |-> argv]
      ELSE IF mm[b] = QUOTE
           THEN IF q >= n THEN [m |-> mm, argv |-> Append(argv, b + 1)]
                ELSE SplitFrom([mm EXCEPT ![q] = NUL], q + 1, n, Append(argv, b + 1))
      ELSE SplitFrom(mm, w, n, Append(argv, b))

msh_split(m, a, n) ==
  LET s == SplitFrom(m, a, n, <<>>)
  IN  [i \in DOMAIN s.argv |-> StringAt(s.m, s.argv[i])]

msh_get_cmd(cmd, size) ==
  LET hits == {k \in DOMAIN Command : /\ ~rt_strncmp(Command[k], cmd, size)
                                      /\ ByteOf(Command[k], size + 1) = NUL}
  IN  IF hits = {} THEN NoCommand ELSE Command[Min(hits)]

Nothing == [cmd |-> NoCommand, argv |-> <<>>]

(* What runs: the command and its words. *)
_msh_exec_cmd(m, a, n) ==
  LET size == FirstFrom(m, a, n, Blank) - a
      cmd == msh_get_cmd(StringAt(m, a), size)
      argv == msh_split(m, a, n)
  IN  IF size = 0 \/ cmd = NoCommand \/ argv = <<>> THEN Nothing
      ELSE [cmd |-> cmd, argv |-> argv]

msh_exec(m, n) ==
  LET a == Min({c \in 0..n - 1 : m[c] \notin Blank} \cup {n})
  IN  IF a = n THEN Nothing ELSE _msh_exec_cmd(m, a, n)

-----------------------------------------------------------------------------
(* The length of what two strings have in common at their beginning. *)
str_common(s1, s2) ==
  Max({k \in 0..Min({Len(s1), Len(s2)}) : SubSeq(s1, 1, k) = SubSeq(s2, 1, k)})

(* The line is completed in place; behind what is copied it stays as it is. *)
msh_auto_complete(m, prefix) ==
  LET hits == {k \in DOMAIN Command : ~rt_strncmp(prefix, Command[k], Len(prefix))}
      name == Command[Min(hits)]
      length == Min({str_common(name, Command[k]) : k \in hits})
  IN  IF prefix = <<>> \/ hits = {} THEN m ELSE rt_strncpy(m, name, length)
=============================================================================
