------------------------------- MODULE Finsh -------------------------------
(***************************************************************************)
(* The shell's thread, rt-thread/components/finsh/shell.c: the editor of   *)
(* the command line, one byte of input at a time, with its history and its *)
(* completion, and what its output makes of the terminal's line.           *)
(*                                                                         *)
(* Input comes from board.c's rt_hw_console_getchar: where no byte waits   *)
(* it returns 0xFF, which the thread handles like a byte.  A control key   *)
(* is three bytes.  The names of commands are no longer than the line.     *)
(***************************************************************************)
EXTENDS Msh

CONSTANTS
  Char,                 \* what can be typed
  FINSH_CMD_SIZE,
  FINSH_HISTORY_LINES,
  MaxPressed,           \* bound of the keys pressed
  GapsInKeys            \* the bytes of a control key are polled for one by one

ASSUME FinshAssumption ==
  /\ {FINSH_CMD_SIZE, FINSH_HISTORY_LINES} \subseteq Nat \ {0} /\ MaxPressed \in Nat
  /\ GapsInKeys \in BOOLEAN
  /\ \A k \in DOMAIN Command : Len(Command[k]) < FINSH_CMD_SIZE

VARIABLES
  shell,  \* struct finsh_shell
  term,   \* the terminal's line: its cells and its cursor's column
  ran,    \* what the last byte ran
  due,    \* how many bytes of a control key are still to come
  pressed, \* how many keys were pressed
  overrun  \* history: the line was filled and is still in the buffer behind
           \* the new one, or has become part of a line again

vars == <<shell, term, ran, due, pressed, overrun>>

Cell == 0..FINSH_CMD_SIZE - 1
EmptyLine == [a \in Cell |-> NUL]
Width == FINSH_CMD_SIZE + 2

(* The buffer as string functions see it: line_position lies behind it. *)
Bytes(s) ==
  [a \in 0..FINSH_CMD_SIZE + 1 |->
     IF a \in Cell THEN s.line[a]
     ELSE IF a = FINSH_CMD_SIZE /\ s.line_position % 256 # 0 THEN "position" ELSE NUL]

LineOf(m) == [a \in Cell |-> m[a]]

-----------------------------------------------------------------------------
(* What the terminal does with the output. *)
BlankLine == [cells |-> [k \in 0..Width - 1 |-> " "], col |-> 0]

Puts(t, str) ==
  [cells |-> [k \in DOMAIN t.cells |->
                IF k - t.col \in 0..Len(str) - 1 THEN str[k - t.col + 1] ELSE t.cells[k]],
   col |-> t.col + Len(str)]

Backs(t, n) == [t EXCEPT !.col = @ - n]

(* The prompt, and behind it the line. *)
Prompted(s) == Puts(BlankLine, StringAt(Bytes(s), 0))

-----------------------------------------------------------------------------
(* An entry is the line up to its position, and NUL behind it. *)
Entry(s) == rt_memcpy(EmptyLine, s.line, s.line_position)

shell_push_history(s) ==
  LET count == Len(s.cmd_history)
      new == /\ s.line_position # 0
             /\ count = 0 \/ rt_memcmp(s.cmd_history[count], s.line, FINSH_CMD_SIZE)
      h == IF ~new THEN s.cmd_history
           ELSE Append(IF count >= FINSH_HISTORY_LINES THEN Tail(s.cmd_history)
                       ELSE s.cmd_history, Entry(s))
  IN  [s EXCEPT !.cmd_history = h, !.current_history = Len(h)]

(* A line of the history becomes the line. *)
shell_handle_history(s) ==
  LET u == [s EXCEPT !.line = s.cmd_history[s.current_history + 1]]
      n == rt_strlen(Bytes(u), 0)
  IN  [u EXCEPT !.line_position = n, !.line_curpos = n]

-----------------------------------------------------------------------------
(* A recall or a completion takes the length that strlen finds.  With its  *)
(* position outside the buffer the thread's next write is, too: what       *)
(* follows is not modelled.                                                *)
Astray == [shell EXCEPT !.stat = "ASTRAY"]

Takes(s, t) ==
  /\ IF s.line_position \in 0..FINSH_CMD_SIZE THEN shell' = s /\ term' = t
     ELSE shell' = Astray /\ term' = BlankLine
  /\ overrun' = IF overrun = "no" THEN "no" ELSE "again"

Becomes(s, t) == shell' = s /\ term' = t /\ UNCHANGED overrun

Pressed == pressed < MaxPressed /\ pressed' = pressed + 1

Letter == {"A", "B", "C", "D"}

(* finsh_getchar returns ch: the key after an escape is [ and a letter. *)
Gets(ch) ==
  /\ shell.stat # "ASTRAY"
  /\ due = 2 => ch = "["
  /\ due = 1 => ch \in Letter
  /\ due = 0 => ch \in Char \cup {"TAB", "BS", "CR"}
  /\ due' = IF due = 0 THEN 0 ELSE due - 1
  /\ IF due = 0 THEN Pressed ELSE UNCHANGED pressed

FuncKey(ch) == shell.stat = "WAIT_FUNC_KEY" /\ Gets(ch) /\ ran' = Nothing

Normal == [shell EXCEPT !.stat = "WAIT_NORMAL"]

(* The user begins a control key, or presses the escape key. *)
EscapeKey ==
  /\ shell.stat # "ASTRAY"
  /\ due = 0 /\ due' \in {0, 2} /\ Pressed
  /\ shell' = [shell EXCEPT !.stat = "WAIT_SPEC_KEY"]
  /\ ran' = Nothing /\ UNCHANGED <<term, overrun>>

Bracket ==
  /\ shell.stat = "WAIT_SPEC_KEY" /\ Gets("[")
  /\ shell' = [shell EXCEPT !.stat = "WAIT_FUNC_KEY"]
  /\ ran' = Nothing /\ UNCHANGED <<term, overrun>>

UpKey ==
  /\ FuncKey("A")
  /\ LET s == shell_handle_history([Normal EXCEPT !.current_history = @ - 1])
     IN  IF shell.current_history > 0 THEN Takes(s, Prompted(s)) ELSE Becomes(Normal, term)

(* Mutant: the line behind the last one is taken. *)
DownToEnd ==
  /\ FuncKey("B")
  /\ LET count == Len(shell.cmd_history)
         s == shell_handle_history([Normal EXCEPT !.current_history = 0])
     IN  IF count = 0 THEN Becomes(Normal, term)
         ELSE Takes([s EXCEPT !.current_history = count + 1], Prompted(s))

DownKey ==
  /\ FuncKey("B")
  /\ LET count == Len(shell.cmd_history)
         s == shell_handle_history(
                [Normal EXCEPT !.current_history = IF @ < count - 1 THEN @ + 1 ELSE count - 1])
     IN  IF count = 0 THEN Becomes(Normal, term) ELSE Takes(s, Prompted(s))

RightKey ==
  /\ FuncKey("C")
  /\ IF shell.line_curpos < shell.line_position
     THEN Becomes([Normal EXCEPT !.line_curpos = @ + 1],
                  Puts(term, <<Bytes(shell)[shell.line_curpos]>>))
     ELSE Becomes(Normal, term)

LeftKey ==
  /\ FuncKey("D")
  /\ IF shell.line_curpos # 0 THEN Becomes([Normal EXCEPT !.line_curpos = @ - 1], Backs(term, 1))
     ELSE Becomes(Normal, term)

(* No byte waits: 0xFF ends a control key, and the thread sleeps. *)
NoInput ==
  /\ due = 0 \/ GapsInKeys
  /\ shell' = IF shell.stat = "ASTRAY" THEN shell ELSE Normal
  /\ UNCHANGED <<term, ran, due, pressed, overrun>>

-----------------------------------------------------------------------------
(* Bytes that are no part of a control key, or of one that was given up.   *)
Plain(ch) ==
  /\ Gets(ch)
  /\ ~(ch = "[" /\ shell.stat = "WAIT_SPEC_KEY")
  /\ ~(ch \in Letter /\ shell.stat = "WAIT_FUNC_KEY")

shell_auto_complete(s) == LineOf(msh_auto_complete(Bytes(s), StringAt(Bytes(s), 0)))

TabKey ==
  /\ Plain("TAB")
  /\ LET u == [Normal EXCEPT !.line = shell_auto_complete(shell)]
         n == rt_strlen(Bytes(u), 0)
     IN  Takes([u EXCEPT !.line_position = n, !.line_curpos = n], Prompted(u))
  /\ ran' = Nothing

(* Mutant: the terminal's cursor is left behind the text. *)
BackspaceNoReturn ==
  /\ Plain("BS")
  /\ LET pos == shell.line_position - 1
         cur == shell.line_curpos - 1
         moved == rt_memmove(shell.line, cur, cur + 1, pos - cur)
         u == [Normal EXCEPT !.line_position = pos, !.line_curpos = cur,
                             !.line = [(IF pos > cur THEN moved ELSE shell.line)
                                         EXCEPT ![pos] = NUL]]
     IN  IF shell.line_curpos = 0 THEN Becomes(Normal, term)
         ELSE Becomes(u, Backs(Puts(Backs(term, 1), StringAt(Bytes(u), cur) \o <<" ">>), 1))
  /\ ran' = Nothing

BackspaceKey ==
  /\ Plain("BS")
  /\ LET pos == shell.line_position - 1
         cur == shell.line_curpos - 1
         moved == rt_memmove(shell.line, cur, cur + 1, pos - cur)
         u == [Normal EXCEPT !.line_position = pos, !.line_curpos = cur,
                             !.line = [(IF pos > cur THEN moved ELSE shell.line)
                                         EXCEPT ![pos] = NUL]]
         tail == StringAt(Bytes(u), cur) \o <<" ", " ">>
     IN  IF shell.line_curpos = 0 THEN Becomes(Normal, term)
         ELSE IF pos > cur
         THEN Becomes(u, Backs(Backs(Puts(Backs(term, 1), tail), 1), pos - cur + 1))
         ELSE Becomes(u, Backs(Puts(Backs(term, 1), <<" ">>), 1))
  /\ ran' = Nothing

(* Where a line of the whole buffer was entered, recalling it fills the    *)
(* buffer again.                                                           *)
StillOverrun(s) ==
  IF \E k \in DOMAIN s.cmd_history : s.cmd_history[k][FINSH_CMD_SIZE - 1] # NUL
  THEN "again" ELSE "no"


EnterKey ==
  /\ Plain("CR")
  /\ ran' = msh_exec(Bytes(shell), shell.line_position)
  /\ shell' = [shell_push_history(Normal) EXCEPT !.line = rt_memset(@, NUL),
                                                 !.line_position = 0, !.line_curpos = 0]
  /\ term' = BlankLine /\ overrun' = StillOverrun(shell')

(* The line with ch in it, and the echo: what a full line loses is its     *)
(* position, here and behind the character.                                *)
Insert(s, ch) ==
  LET pos == IF s.line_position >= FINSH_CMD_SIZE THEN 0 ELSE s.line_position
      cur == s.line_curpos
      inside == cur < pos
      line == IF inside THEN [rt_memmove(s.line, cur + 1, cur, pos - cur) EXCEPT ![cur] = ch]
              ELSE [s.line EXCEPT ![pos] = ch]
      u == [s EXCEPT !.line = line]
      full == pos + 1 >= FINSH_CMD_SIZE
  IN  [shell |-> [u EXCEPT !.line_position = IF full THEN 0 ELSE pos + 1,
                           !.line_curpos = IF full THEN 0 ELSE cur + 1],
       term |-> IF inside
                THEN Backs(Puts(term, StringAt(Bytes([u EXCEPT !.line_position = pos]), cur)),
                           pos - cur)
                ELSE Puts(term, <<ch>>)]

NormalKey(ch) ==
  /\ Plain(ch)
  /\ LET u == Insert(Normal, ch)
     IN  /\ shell' = u.shell /\ term' = u.term
         /\ overrun' = IF u.shell.line_position = 0 THEN "behind" ELSE overrun
  /\ ran' = Nothing

-----------------------------------------------------------------------------
(* finsh_system_init and the beginning of finsh_thread_entry. *)
Init ==
  /\ shell = [line |-> EmptyLine, line_position |-> 0, line_curpos |-> 0, stat |-> "WAIT_NORMAL",
              cmd_history |-> <<>>, current_history |-> 0]
  /\ term = BlankLine /\ ran = Nothing /\ due = 0 /\ pressed = 0
  /\ overrun = "no"

Next ==
  \/ EscapeKey \/ Bracket \/ UpKey \/ DownKey \/ RightKey \/ LeftKey
  \/ NoInput \/ TabKey \/ BackspaceKey \/ EnterKey
  \/ \E ch \in Char \cup Letter \cup {"["} : NormalKey(ch)

Spec == Init /\ [][Next]_vars

-----------------------------------------------------------------------------
(* The position of shell.c stays within the line buffer, and the history   *)
(* within its ring.                                                        *)
TypeOK ==
  /\ shell.line \in [Cell -> Char \cup Letter \cup {"[", NUL}]
  /\ shell.line_position \in 0..FINSH_CMD_SIZE /\ shell.line_curpos \in Nat
  /\ shell.stat \in {"WAIT_NORMAL", "WAIT_SPEC_KEY", "WAIT_FUNC_KEY", "ASTRAY"}
  /\ Len(shell.cmd_history) <= FINSH_HISTORY_LINES
  /\ shell.current_history \in 0..Len(shell.cmd_history)
  /\ overrun \in {"no", "behind", "again"}

(* What is behind the position is clear, so that the words msh_split finds *)
(* end where the line does, and a completion and a recalled line have the  *)
(* length that strlen finds.                                               *)
LineClear == \A a \in Cell : shell.line[a] = NUL <=> a >= shell.line_position

(* The terminal shows the line, with its cursor where the next character   *)
(* goes, after every echo, erasure and redrawing of a line that did not    *)
(* reach the buffer's end.                                                 *)
ScreenShows ==
  overrun # "no" \/
    /\ term.col = shell.line_curpos
    /\ \A k \in DOMAIN term.cells :
         term.cells[k] = IF k < shell.line_position THEN shell.line[k] ELSE " "

(* The bytes of a control key do not become part of the line. *)
KeysNotTyped == \A a \in Cell : shell.line[a] # "["

Text(line, n) == [i \in 1..n |-> line[i - 1]]

Editor ==
  INSTANCE LineEditor WITH
    text <- Text(shell.line, shell.line_position),
    cursor <- shell.line_curpos,
    past <- [k \in DOMAIN shell.cmd_history |->
               LET line == shell.cmd_history[k]
               IN  Text(line, Cardinality({a \in Cell : line[a] # NUL}))],
    MaxWords <- FINSH_ARG_MAX, MaxPast <- FINSH_HISTORY_LINES,
    MaxText <- FINSH_CMD_SIZE - 1

(* What was discarded becomes part of a line that is run, recalled or      *)
(* completed.                                                              *)
TakesLeftover == overrun = "again" \/ overrun' = "again" \/ (overrun = "behind" /\ ran' # Nothing)


=============================================================================
