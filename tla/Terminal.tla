------------------------------ MODULE Terminal ------------------------------
(***************************************************************************)
(* What a text console promises: a window of character cells, written one  *)
(* character after the other, that wraps at its right edge, scrolls at its  *)
(* bottom, and takes a character back on a backspace.                       *)
(***************************************************************************)
EXTENDS Integers, Sequences

CONSTANTS
  Strings,      (* What callers write.                                     *)
  Greeting,     (* What a console that opens may write by itself.          *)
  Sizes         (* The sizes <<columns, rows>> the window may have.        *)

VARIABLES
  size,         (* Of the window, or <<0, 0>> while it has none.           *)
  pos,          (* The cursor <<column, row>>, both from 0.                *)
  cells         (* Of each place, the character it shows.                  *)

vars == <<size, pos, cells>>

Blank == " "
BlankWindow(s) == [p \in (0 .. s[1] - 1) \X (0 .. s[2] - 1) |-> Blank]

(* The window and the cursor, with the width that characters have now.     *)
Window == [size |-> size, pos |-> pos, cells |-> cells, wide |-> FALSE]

Down(w) ==
  IF w.pos[2] < w.size[2] - 1 THEN [w EXCEPT !.pos[2] = @ + 1]
  ELSE [w EXCEPT !.cells = [p \in DOMAIN @ |-> IF p[2] < w.size[2] - 1
                                               THEN @[<<p[1], p[2] + 1>>] ELSE Blank]]

Advance(w, n) ==
  IF w.pos[1] + n < w.size[1] THEN [w EXCEPT !.pos[1] = @ + n]
  ELSE Down([w EXCEPT !.pos[1] = 0])

Show(w, left, right) ==
  [w EXCEPT !.cells = [p \in DOMAIN @ |->
     IF p = w.pos THEN left
     ELSE IF w.wide /\ p = <<w.pos[1] + 1, w.pos[2]>> THEN right ELSE @[p]]]

Back(w) ==
  LET to == IF w.pos[1] > 0 THEN <<w.pos[1] - 1, w.pos[2]>>
            ELSE IF w.pos[2] > 0 THEN <<w.size[1] - 1, w.pos[2] - 1>> ELSE w.pos
  IN IF to = w.pos THEN w ELSE [w EXCEPT !.pos = to, !.cells[to] = Blank]

(* A wide character that does not fit into the row leaves a blank there.   *)
Fitted(w) ==
  IF w.wide /\ w.pos[1] = w.size[1] - 1
  THEN Advance([w EXCEPT !.cells[w.pos] = Blank], 1) ELSE w

Put(w, ch) ==
  CASE ch = "backspace" -> Back(w)
    [] ch = "linefeed" -> Down(w)
    [] ch = "return" -> [w EXCEPT !.pos[1] = 0]
    [] ch = "widen" -> [w EXCEPT !.wide = TRUE]
    [] ch = "narrow" -> [w EXCEPT !.wide = FALSE]
    [] ch = "unknown" -> Advance(Fitted(w), IF w.wide THEN 2 ELSE 1)
    [] OTHER -> Advance(Show(Fitted(w), ch, "<"), IF w.wide THEN 2 ELSE 1)

(* A string, one character after the other.                                *)
Typed(w, text) ==
  LET upTo[n \in 0 .. Len(text)] ==
        IF n = 0 THEN w ELSE Put(upTo[n - 1], text[n])
  IN upTo[Len(text)]

Init == size = <<0, 0>> /\ pos = <<0, 0>> /\ cells = BlankWindow(size)

Write ==
  /\ size # <<0, 0>>
  /\ \E s \in Strings : LET w == Typed(Window, s) IN pos' = w.pos /\ cells' = w.cells
  /\ UNCHANGED size

(* The window is cleared, or gets a new size, or is lost.                  *)
Clear ==
  \E s \in Sizes \cup {<<0, 0>>}, text \in {<<>>, Greeting} :
    LET empty == [size |-> s, pos |-> <<0, 0>>, cells |-> BlankWindow(s), wide |-> FALSE]
        w == IF s = <<0, 0>> THEN empty ELSE Typed(empty, text)
    IN size' = s /\ pos' = w.pos /\ cells' = w.cells

Move == pos' \in DOMAIN cells /\ UNCHANGED <<size, cells>>

(* Somebody else draws on the screen.                                      *)
Wiped == cells' = BlankWindow(size) /\ UNCHANGED <<size, pos>>

Next == Write \/ Clear \/ Move \/ Wiped

Spec == Init /\ [][Next]_vars
=============================================================================
