----------------------------- MODULE LineEditor -----------------------------
(***************************************************************************)
(* What a command line promises: a text with a cursor, the lines entered   *)
(* before, and the command and the words that run when a line is entered.  *)
(***************************************************************************)
EXTENDS Integers, Sequences, SequencesExt

CONSTANTS Char, Blank, QUOTE, BACKSLASH, Command, MaxWords, MaxPast, MaxText

VARIABLES text, cursor, past, ran

edit == <<text, cursor, past, ran>>

Texts == Seq(Char)

(* The words of a text: what blanks separate, and quoted strings, which    *)
(* end at a quote without a backslash before it.                           *)
UpTo(t, Ends(_)) == Min({k \in DOMAIN t : Ends(k)} \cup {Len(t) + 1})

From(t, k) == SubSeq(t, k, Len(t))

RECURSIVE Words(_)
Words(t) ==
  LET isBlank(k) == t[k] \in Blank
      closes(k) == k > 1 /\ t[k] = QUOTE /\ (k = 2 \/ t[k - 1] # BACKSLASH)
      word == UpTo(t, isBlank)
      string == UpTo(t, closes)
  IN  IF t = <<>> THEN <<>>
      ELSE IF t[1] \in Blank THEN Words(Tail(t))
      ELSE IF t[1] = QUOTE THEN <<SubSeq(t, 2, string - 1)>> \o Words(From(t, string + 1))
      ELSE <<SubSeq(t, 1, word - 1)>> \o Words(From(t, word))

Unknown == [cmd |-> <<>>, argv |-> <<>>]

Execution(t) ==
  LET ws == Words(t)
  IN  IF ws # <<>> /\ Contains(Command, ws[1])
         /\ LET s == SelectInSeq(t, LAMBDA c : c \notin Blank) IN t[s] # QUOTE
      THEN [cmd |-> ws[1], argv |-> SubSeq(ws, 1, Min({Len(ws), MaxWords}))]
      ELSE Unknown

(* A line is kept unless it is empty or the one before again. *)
Kept(t) ==
  IF t = <<>> \/ (past # <<>> /\ Last(past) = t) THEN past
  ELSE LET p == Append(past, t) IN IF Len(p) > MaxPast THEN Tail(p) ELSE p

(* The longest text that every command the line begins begins with. *)
Completion(t) ==
  LET fits == {k \in DOMAIN Command : IsPrefix(t, Command[k])}
  IN  IF t = <<>> \/ fits = {} THEN t
      ELSE LongestCommonPrefix({Command[k] : k \in fits})

-----------------------------------------------------------------------------
Init == text = <<>> /\ cursor = 0 /\ past = <<>> /\ ran = Unknown

Type(c) ==
  /\ Len(text) < MaxText
  /\ text' = InsertAt(text, cursor + 1, c) /\ cursor' = cursor + 1
  /\ UNCHANGED past /\ ran' = Unknown

(* A character too many. *)
Discard ==
  /\ Len(text) >= MaxText
  /\ text' = <<>> /\ cursor' = 0
  /\ UNCHANGED past /\ ran' = Unknown

Erase ==
  /\ cursor > 0
  /\ text' = RemoveAt(text, cursor) /\ cursor' = cursor - 1
  /\ UNCHANGED past /\ ran' = Unknown

Move ==
  /\ cursor' \in {cursor - 1, cursor + 1} \cap 0..Len(text)
  /\ UNCHANGED <<text, past>> /\ ran' = Unknown

Recall ==
  /\ \E k \in DOMAIN past : text' = past[k]
  /\ cursor' = Len(text')
  /\ UNCHANGED past /\ ran' = Unknown

Complete ==
  /\ text' = Completion(text) /\ cursor' = Len(text')
  /\ UNCHANGED past /\ ran' = Unknown

Enter ==
  /\ past' = Kept(text) /\ ran' = Execution(text)
  /\ text' = <<>> /\ cursor' = 0

Next == (\E c \in Char : Type(c)) \/ Discard \/ Erase \/ Move \/ Recall \/ Complete \/ Enter

Spec == Init /\ [][Next]_edit
=============================================================================
