----------------------------- MODULE GfxConsole -----------------------------
(***************************************************************************)
(* GraphicsConsoleDxe: a text console drawn on a graphics output.           *)
(*                                                                         *)
(* The cursor is drawn by inverting pixels (FlushCursor), so that drawing   *)
(* it and taking it away are the same operation: every path through the     *)
(* driver, with the calls it makes to itself, has to do both.  The screen   *)
(* is modelled as the characters in the cells of the text window and the    *)
(* inverted places over them; the graphics output may be used by others.    *)
(***************************************************************************)
EXTENDS Integers, Sequences, SequencesExt, FiniteSets, FiniteSetsExt

CONSTANTS
  Strings,     (* What callers write, as in Terminal.  A character without *)
               (* a glyph, "unknown", is the only one of its string.       *)
  Greeting,    (* What Start writes in a build with DEBUG_CODE.            *)
  Basic,       (* 40 x 12, text mode 0.                                    *)
  Large,       (* 80 x 50, text mode 1 of a screen that holds it.          *)
  Defined,     (* The sizes 100 x 31 and 40 x 12 of the modes behind these. *)
  Glyphs,      (* The columns and rows that a resolution holds.            *)
  GopModes,    (* The resolutions of the graphics modes.                   *)
  Wanted,      (* PcdVideoHorizontalResolution and -VerticalResolution, or *)
               (* Highest for <<0, 0>>.                                    *)
  Standard,    (* 800 x 600.                                               *)
  Highest,
  Colours,     (* Attributes that callers set.                             *)
  Places       (* Positions that callers move to.                          *)

NoSize == <<0, 0>>
None == -1
Black == 0
Lightgray == 7

(* A wide character fits into a row of any of the sizes.                   *)
WindowSizes == {s \in Nat \X Nat : s[1] >= 2 /\ s[2] >= 1}

ASSUME GfxAssumption ==
  /\ Len(GopModes) > 0 /\ GopModes \in Seq(ToSet(GopModes))
  /\ Basic \in WindowSizes /\ Large \in WindowSizes /\ Defined \in Seq(WindowSizes)
  /\ \A res \in ToSet(GopModes) :
       /\ Glyphs[res] \in WindowSizes
       /\ Glyphs[res][1] >= Basic[1] /\ Glyphs[res][2] >= Basic[2]
  /\ \A s \in Strings \cup {Greeting} : s \in Seq(ToSet(s))
  /\ Colours \subseteq Nat

VARIABLES
  con,      (* The console's private data and mode, or NotStarted.         *)
  cells,    (* The characters of the window.                               *)
  ink,      (* The pairs of a place and a colour that are inverted.        *)
  gop,      (* The mode of the graphics output.                            *)
  hii,      (* The HII database, with the driver's font, and its fonts are *)
            (* there.                                                      *)
  spoiled   (* History: since the screen was cleared last, others drew on  *)
            (* it, a change of the mode failed, or a wide character had no *)
            (* glyph.                                                      *)

vars == <<con, cells, ink, gop, hii, spoiled>>

NotStarted == [mode |-> None, pos |-> <<0, 0>>, attr |-> Lightgray, visible |-> TRUE,
               buffer |-> "null", gopMode |-> None]

(* InitializeGraphicsConsoleTextMode: the text modes on graphics mode g.    *)
(* Mode 1 may be none; behind it comes each size that is defined, and the   *)
(* whole screen, if it fits and is not there yet.                           *)
TextModesOf(g) ==
  LET most == Glyphs[GopModes[g + 1]]
      sizes == Append(Defined, most)
      Fits(s) == s[1] \in 1 .. most[1] /\ s[2] \in 1 .. most[2]
      Added(modes, s) == IF Fits(s) /\ s \notin ToSet(modes) THEN Append(modes, s) ELSE modes
      upTo[n \in 0 .. Len(sizes)] ==
        IF n = 0 THEN <<Basic, IF Fits(Large) THEN Large ELSE NoSize>>
        ELSE Added(upTo[n - 1], sizes[n])
  IN upTo[Len(sizes)]

(* What Start hands to the console, for each graphics mode.                 *)
TextModes == [g \in 0 .. Len(GopModes) - 1 |-> TextModesOf(g)]

SizeOf(c) == IF c.mode = None THEN NoSize ELSE TextModes[c.gopMode][c.mode + 1]
T == INSTANCE Terminal WITH
       size <- SizeOf(con), pos <- con.pos, cells <- cells,
       Sizes <- UNION {ToSet(TextModes[g]) : g \in DOMAIN TextModes}

(* What one call works on; wide is EFI_WIDE_ATTRIBUTE.                     *)
Screen == [con |-> con, cells |-> cells, ink |-> ink, wide |-> FALSE, lost |-> FALSE]

Columns(w) == SizeOf(w.con)[1]
Rows(w) == SizeOf(w.con)[2]
Column(w) == w.con.pos[1]
Row(w) == w.con.pos[2]

(* The cursor is moved, and nothing is drawn.                              *)
At(w, column, row) == [w EXCEPT !.con.pos = <<column, row>>]
-----------------------------------------------------------------------------
(* Without a mode the place is read from before the table of modes.        *)
CursorPlace(w) == IF w.con.mode = None THEN "wild" ELSE w.con.pos

(* FlushCursor, with the colour of GetTextColors; black inverts nothing.   *)
FlushCursor(w) ==
  LET image == IF w.con.visible /\ w.con.attr % 16 # Black
               THEN {<<CursorPlace(w), w.con.attr % 16>>} ELSE {}
  IN [w EXCEPT !.ink = SymDiff(@, image)]

(* DrawUnicodeWeightAtCursorN: what is drawn covers the inverted places.   *)
DrawAtCursor(w, chars) ==
  LET width == IF w.wide THEN 2 ELSE 1
      first == Column(w)
      drawn == {p \in DOMAIN w.cells : /\ p[2] = Row(w)
                                       /\ p[1] \in first .. first + width * Len(chars) - 1
                                       /\ chars[(p[1] - first) \div width + 1] # "unknown"}
      Glyph(p) == IF (p[1] - first) % width = 0 THEN chars[(p[1] - first) \div width + 1] ELSE "<"
  IN [w EXCEPT !.cells = [p \in DOMAIN @ |-> IF p \in drawn THEN Glyph(p) ELSE @[p]],
               !.ink = {i \in @ : i[1] \notin drawn},
               !.lost = @ \/ (w.wide /\ "unknown" \in ToSet(chars))]

(* The branch of CHAR_LINEFEED: the window scrolls up, with what is        *)
(* inverted, when the cursor is in its last row.                           *)
LineFeed(w) ==
  IF Row(w) # Rows(w) - 1 THEN At(w, Column(w), Row(w) + 1)
  ELSE [w EXCEPT
          !.cells = [p \in DOMAIN @ |-> IF p[2] < Rows(w) - 1 THEN @[<<p[1], p[2] + 1>>] ELSE T!Blank],
          !.ink = {<<<<i[1][1], i[1][2] - 1>>, i[2]>> :
                     i \in {j \in @ : j[1] \in DOMAIN w.cells /\ j[1][2] > 0}}
                  \cup {i \in @ : i[1] \notin DOMAIN w.cells}]

(* CHAR_CARRIAGE_RETURN.                                                   *)
Return(w) == At(w, 0, Row(w))

(* OutputString of mCrLfString.                                            *)
OutputCrLf(w) == FlushCursor(LineFeed(Return(FlushCursor(w))))

(* Mutant: the cursor is not taken away behind the nested line break.      *)
LeftWrap(w) ==
  IF Column(w) >= Columns(w) THEN OutputCrLf(FlushCursor(w)) ELSE w

(* At the end of a line, carriage return and line feed.                    *)
Wrap(w) ==
  IF Column(w) >= Columns(w) THEN FlushCursor(OutputCrLf(FlushCursor(w))) ELSE w

(* The attribute EFI_WIDE_ATTRIBUTE, without drawing.                      *)
Widened(w, wide) == [w EXCEPT !.wide = wide]

(* OutputString of SpaceStr, a narrow blank.                               *)
OutputSpace(w) ==
  LET drawn == DrawAtCursor(Widened(FlushCursor(w), FALSE), <<T!Blank>>)
      moved == Wrap(At(drawn, Column(w) + 1, Row(w)))
  IN FlushCursor(Widened(moved, w.wide))

(* Mutant: the row that the nested call moved down to is not left again.   *)
HalfBackspace(w) ==
  LET v == FlushCursor(OutputSpace(IF Column(w) > 0 THEN At(w, Column(w) - 1, Row(w))
                                   ELSE At(w, Columns(w) - 1, Row(w) - 1)))
  IN IF w.con.pos = <<0, 0>> THEN w
     ELSE At(v, IF Column(v) = 0 THEN Columns(w) - 1 ELSE Column(v) - 1, Row(v))

(* The branch of CHAR_BACKSPACE: a blank is written over the character,    *)
(* which moves the cursor on again, from column 0 to the end of the row    *)
(* above and back.                                                         *)
Backspace(w) ==
  IF Column(w) > 0
  THEN LET v == FlushCursor(OutputSpace(At(w, Column(w) - 1, Row(w))))
       IN At(v, Column(v) - 1, Row(v))
  ELSE IF Row(w) > 0
  THEN LET v == FlushCursor(OutputSpace(At(w, Columns(w) - 1, Row(w) - 1)))
       IN At(v, Columns(w) - 1, Row(w) - 1)
  ELSE w

Controls == {"backspace", "linefeed", "return", "widen", "narrow"}

(* The characters up to the next control character that fit into the row.  *)
RunLength(w, s) ==
  LET fitting == (Columns(w) - Column(w)) \div (IF w.wide THEN 2 ELSE 1)
      most == IF fitting < Len(s) THEN fitting ELSE Len(s)
  IN Min({n \in 0 .. most : n = most \/ s[n + 1] \in Controls})

(* Only half of the wide character fits that follows n of them.            *)
HalfFits(w, s, n) ==
  w.wide /\ n < Len(s) /\ s[n + 1] \notin Controls /\ Column(w) + 2 * n = Columns(w) - 1

(* The last branch of the loop.  A wide character that only half fits is   *)
(* counted, then taken back and replaced by a blank, which breaks the line. *)
OutputRun(w, s) ==
  LET n == RunLength(w, s)
      drawn == DrawAtCursor(w, SubSeq(s, 1, n))
      end == Column(w) + (IF w.wide THEN 2 * n ELSE n)
  IN IF HalfFits(w, s, n) THEN Wrap(OutputSpace(At(drawn, end, Row(w))))
     ELSE Wrap(At(drawn, end, Row(w)))

(* One turn of the loop of GraphicsConsoleConOutOutputString, for what is  *)
(* left of the string.                                                     *)
Turn(x) ==
  LET w == x.w
      Left(v, n) == [w |-> v, left |-> SubSeq(x.left, n + 1, Len(x.left))]
  IN IF x.left = <<>> THEN x
     ELSE CASE Head(x.left) = "backspace" -> Left(Backspace(w), 1)
            [] Head(x.left) = "linefeed" -> Left(LineFeed(w), 1)
            [] Head(x.left) = "return" -> Left(Return(w), 1)
            [] Head(x.left) = "widen" -> Left(Widened(w, TRUE), 1)
            [] Head(x.left) = "narrow" -> Left(Widened(w, FALSE), 1)
            [] OTHER -> Left(OutputRun(w, x.left), RunLength(w, x.left))

(* The loop: a character takes a turn, or two if only half of it fits.     *)
Written(w, s) ==
  LET after[n \in 0 .. 2 * Len(s)] ==
        IF n = 0 THEN [w |-> w, left |-> s] ELSE Turn(after[n - 1])
  IN after[2 * Len(s)].w

(* Once spoiled, what is inverted is not followed until all is cleared.    *)
Becomes(w) ==
  /\ con' = w.con /\ cells' = w.cells /\ spoiled' = (spoiled \/ w.lost)
  /\ ink' = IF spoiled' THEN {} ELSE w.ink

(* GraphicsConsoleConOutOutputString.                                      *)
OutputString(s) ==
  /\ con.mode # None
  /\ Becomes(FlushCursor(Written(FlushCursor(Screen), s)))
  /\ UNCHANGED <<gop, hii>>

(* The whole screen is filled, and the cursor drawn in the corner.         *)
Cleared(w) ==
  FlushCursor([At(w, 0, 0) EXCEPT !.ink = {}, !.cells = T!BlankWindow(SizeOf(w.con))])

Clears(w) ==
  con' = w.con /\ cells' = w.cells /\ ink' = w.ink /\ spoiled' = FALSE

(* GraphicsConsoleConOutClearScreen.                                       *)
ClearScreen == con.mode # None /\ Clears(Cleared(Screen)) /\ UNCHANGED <<gop, hii>>
-----------------------------------------------------------------------------
IsMode(m) == m < Len(TextModes[con.gopMode]) /\ TextModes[con.gopMode][m + 1] # NoSize

(* What GraphicsConsoleConOutSetMode can come to: the same mode only clears *)
(* the screen; else the buffer for a line is exchanged, which may fail, and *)
(* the graphics mode is set if others changed it, which may fail as well.  *)
ModeOutcomes(m) ==
  LET again == con.buffer # "null"
      w == IF again THEN FlushCursor(Screen) ELSE Screen
      Failed(buffer) == [ok |-> FALSE, w |-> [w EXCEPT !.con.buffer = buffer], gop |-> gop]
      Set(v) == [ok |-> TRUE, w |-> Cleared(v), gop |-> con.gopMode]
  IN IF again /\ con.mode = m THEN {[Set(Screen) EXCEPT !.gop = gop]}
     ELSE {Failed(IF again THEN "freed" ELSE "null")}
          \cup (IF gop # con.gopMode THEN {Failed("held")} ELSE {})
          \cup {Set([w EXCEPT !.con.mode = m, !.con.buffer = "held"])}

SetMode(m) ==
  /\ con.gopMode # None /\ IsMode(m)
  /\ \E o \in ModeOutcomes(m) :
       /\ con' = o.w.con /\ cells' = o.w.cells /\ gop' = o.gop
       /\ spoiled' = (~o.ok /\ (spoiled \/ con.buffer # "null"))
       /\ ink' = IF spoiled' THEN {} ELSE o.w.ink
  /\ UNCHANGED hii

Attributed(w, a) ==
  IF a > 127 \/ a = w.con.attr THEN w
  ELSE FlushCursor([FlushCursor(w) EXCEPT !.con.attr = a])

(* GraphicsConsoleConOutSetAttribute, also without a mode.                 *)
SetAttribute(a) ==
  con.gopMode # None /\ Becomes(Attributed(Screen, a)) /\ UNCHANGED <<gop, hii>>

(* GraphicsConsoleConOutReset: mode 0 and a black background.              *)
Reset ==
  /\ con.gopMode # None
  /\ \E o \in {p \in ModeOutcomes(0) : p.ok} :
       Clears(Attributed(o.w, o.w.con.attr % 16)) /\ gop' = o.gop
  /\ UNCHANGED hii

(* GraphicsConsoleConOutSetCursorPosition.                                 *)
SetCursorPosition(p) ==
  /\ con.mode # None /\ p \in DOMAIN cells /\ p # con.pos
  /\ Becomes(FlushCursor(At(FlushCursor(Screen), p[1], p[2])))
  /\ UNCHANGED <<gop, hii>>

(* GraphicsConsoleConOutEnableCursor.                                      *)
EnableCursor(visible) ==
  /\ con.mode # None
  /\ Becomes(FlushCursor([FlushCursor(Screen) EXCEPT !.con.visible = visible]))
  /\ UNCHANGED <<gop, hii>>
-----------------------------------------------------------------------------
Init ==
  /\ con = NotStarted /\ cells = T!BlankWindow(NoSize) /\ ink = {}
  /\ gop \in 0 .. Len(GopModes) - 1 /\ hii = FALSE
  /\ spoiled = FALSE

(* InitializeGraphicsConsole registers RegisterFontPackage for the HII      *)
(* database, which adds the glyphs before anything else can see it.         *)
RegisterFontPackage ==
  /\ ~hii
  /\ hii' = TRUE
  /\ UNCHANGED <<con, cells, ink, gop, spoiled>>

(* GraphicsConsoleControllerDriverSupported: a graphics output with a device *)
(* path that no driver has opened, and the HII protocols.                   *)
Supported == con = NotStarted /\ hii

(* The modes with that resolution.                                         *)
ModesOf(res) == {m \in 0 .. Len(GopModes) - 1 : GopModes[m + 1] = res}

(* CheckModeSupported: the first such mode.                                *)
CheckModeSupported(res) == IF ModesOf(res) = {} THEN None ELSE Min(ModesOf(res))

(* The graphics mode that Start chooses: the wanted resolution, or 800 x   *)
(* 600, or the one that is set; or the first of the highest resolution.    *)
StartMode(highest) ==
  IF Wanted = Highest THEN Min(ModesOf(highest))
  ELSE IF CheckModeSupported(Wanted) # None THEN CheckModeSupported(Wanted)
  ELSE IF CheckModeSupported(Standard) # None THEN CheckModeSupported(Standard)
  ELSE gop

(* GraphicsConsoleControllerDriverStart.  A build with DEBUG_CODE sets     *)
(* mode 0 at once and greets; another leaves the console without a mode.   *)
(* A failure behind the change of the graphics mode does not undo that.    *)
Start(highest) ==
  /\ Supported /\ ModesOf(highest) # {}
  /\ gop' = StartMode(highest)
  /\ LET c == [NotStarted EXCEPT !.gopMode = StartMode(highest)]
         w == Cleared([Screen EXCEPT !.con = [c EXCEPT !.mode = 0, !.buffer = "held"]])
     IN \/ con' = c /\ UNCHANGED <<cells, ink>> /\ spoiled' = FALSE
        \/ Becomes(FlushCursor(Written(FlushCursor(w), Greeting)))
        \/ UNCHANGED <<con, cells, ink, spoiled>>
  /\ UNCHANGED hii

(* GraphicsConsoleControllerDriverStop.                                    *)
Stop ==
  /\ con.gopMode # None
  /\ con' = NotStarted /\ cells' = T!BlankWindow(NoSize) /\ ink' = {} /\ spoiled' = FALSE
  /\ UNCHANGED <<gop, hii>>

(* Others set a graphics mode, or draw over the text.                      *)
Foreign(m) ==
  /\ gop' = m /\ cells' = T!BlankWindow(SizeOf(con)) /\ ink' = {}
  /\ spoiled' = (con.mode # None)
  /\ UNCHANGED <<con, hii>>

Next ==
  \/ RegisterFontPackage
  \/ \E res \in ToSet(GopModes) : Start(res)
  \/ Stop
  \/ Reset
  \/ \E s \in Strings : OutputString(s)
  \/ ClearScreen
  \/ \E m \in 0 .. Len(Defined) + 3 : SetMode(m)
  \/ \E a \in Colours : SetAttribute(a)
  \/ \E p \in Places : SetCursorPosition(p)
  \/ \E v \in BOOLEAN : EnableCursor(v)
  \/ \E m \in 0 .. Len(GopModes) - 1 : Foreign(m)

Spec == Init /\ [][Next]_vars
-----------------------------------------------------------------------------
(* After every call the cursor is drawn exactly once, where it is and in   *)
(* its colour, or not at all if it is invisible, and nothing else is left  *)
(* inverted, whatever was written, wrapped, scrolled and erased by the     *)
(* nested calls (FlushCursor, GraphicsConsoleConOutOutputString).          *)
CursorDrawnOnce ==
  con.mode # None /\ ~spoiled =>
    ink = IF con.visible /\ con.attr % 16 # Black THEN {<<con.pos, con.attr % 16>>} ELSE {}

(* "The new line buffer could not be allocated, so return an error.  No    *)
(* changes to the state of the current console have been made, so the      *)
(* current console is still valid" (GraphicsConsole.c:1309).               *)
ConsoleStillValid == con.buffer # "freed"

(* The console is a terminal: a string written in runs, with its nested    *)
(* calls, shows and moves what its characters do one by one                *)
(* (GraphicsConsoleConOutOutputString).                                    *)
TerminalSpec == T!Spec
=============================================================================
