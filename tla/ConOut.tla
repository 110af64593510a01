------------------------------- MODULE ConOut -------------------------------
(***************************************************************************)
(* The output half of ConSplitterDxe: the virtual consoles ConOut and      *)
(* StdErr, each over a list of physical text consoles that come and go, the *)
(* modes all of them share, and the graphics modes of those with a screen.  *)
(*                                                                         *)
(* A console may be on both lists.  Every entry point runs to its end       *)
(* before the next, so each is one step; what is hard is what a step leaves *)
(* behind for the other splitter and for later steps.  A physical console   *)
(* is its mode, its colours and its graphics mode; the position of its      *)
(* cursor may be anywhere on its screen.  Allocations succeed.              *)
(***************************************************************************)
EXTENDS Integers, Sequences, SequencesExt, FiniteSets, FiniteSetsExt

CONSTANTS
  Devs,         (* Physical text consoles.                                 *)
  ErrDevs,      (* Those that carry gEfiStandardErrorDeviceGuid as well.   *)
  Modes,        (* Of each, the sizes <<columns, rows>> of its text modes, *)
                (* the first being mode 0; NoSize where QueryMode fails.   *)
  GopModes,     (* Of each, the resolutions of its graphics modes, the one *)
                (* it starts in first; <<>> for a console without a screen. *)
  Standard,     (* 800 x 600.                                              *)
  Wanted,       (* PcdConOutColumn and PcdConOutRow.                       *)
  Colours,      (* Attributes that callers set.                            *)
  Places,       (* Positions that callers, or the consoles, move to.       *)
  Unit,         (* CONSOLE_SPLITTER_ALLOC_UNIT, 32 in the code.            *)
  Flaky         (* Consoles whose SetMode may fail.                        *)

NoSize == <<0, 0>>
Base == <<2, 2>>   (* The size of mode 0, 40 x 12 on this phone.           *)

(* Mode 0 has the size every console must offer and only mode 1 may be     *)
(* missing; every screen can show the default resolution.  No console has  *)
(* mode 0xFF, which stands for none, and a size is wanted.                 *)
ASSUME DeviceAssumption ==
  /\ Unit \in Nat /\ Unit >= 2
  /\ Wanted[1] > 0 /\ Wanted[2] > 0
  /\ \A d \in Devs :
       /\ Len(Modes[d]) \in 1 .. 255 /\ Modes[d][1] = Base
       /\ \A m \in 1 .. Len(Modes[d]) : m # 2 => Modes[d][m] # NoSize
       /\ GopModes[d] # <<>> => Standard \in ToSet(GopModes[d])

(* Mode 1 is not the size of mode 0, and no later mode repeats either: 80 x *)
(* 50 is mode 1 where it fits, and "the final mode exposed does not include *)
(* the duplicated modes" (GraphicsConsole.c:261).                          *)
ASSUME ModesAssumption ==
  \A d \in Devs :
    /\ Len(Modes[d]) > 1 => Modes[d][2] # Base
    /\ \A m \in 3 .. Len(Modes[d]), e \in Devs :
         Modes[d][m] # Base /\ (Len(Modes[e]) > 1 => Modes[d][m] # Modes[e][2])

VARIABLES
  sp,        (* mConOut and mStdErr.                                       *)
  dev,       (* Of each console, its text mode, attribute and resolution.  *)
  gop,       (* mConOut.GraphicsOutput, with the buffer of its modes.      *)
  pcd,       (* PcdConOutColumn and PcdConOutRow.                          *)
  added      (* History: the splitter that the last step gave a console,   *)
             (* if no console failed, or "none".                           *)

vars == <<sp, dev, gop, pcd, added>>

Splitters == {"ConOut", "StdErr"}
Sizes == UNION {ToSet(Modes[d]) : d \in Devs}
Origin == <<0, 0>>
OnScreen(pos, size) == pos[1] < size[1] /\ pos[2] < size[2]
Unset == 255       (* The mode before any was set.                         *)
Lightgray == 7
Magenta == 5

(* TEXT_OUT_SPLITTER_PRIVATE_DATA.  map and query are arrays from 0, map of *)
(* one row of cap columns for each slot of query, or none at all.          *)
IsSplitter(S) ==
  /\ S.list \in Seq(Devs) /\ IsInjective(S.list) /\ Len(S.list) <= S.cap
  /\ S.maxMode \in 1 .. Cardinality(DOMAIN S.query) /\ S.mode \in -1 .. Unset
  /\ \A m \in DOMAIN S.query : S.query[m] \in Sizes \cup {NoSize}
  /\ S.map # <<>> => DOMAIN S.map = 0 .. S.cap * Cardinality(DOMAIN S.query) - 1
  /\ \A i \in DOMAIN S.map : S.map[i] \in Int
  /\ S.cursor \in Nat \X Nat /\ S.attr \in 0 .. 127

Gop(d) == GopModes[d] # <<>>

(* SimpleTextOut->QueryMode of a physical console.                         *)
SizeOf(d, m) == IF m + 1 \in 1 .. Len(Modes[d]) THEN Modes[d][m + 1] ELSE NoSize
-----------------------------------------------------------------------------
(* The modes all consoles of a splitter share.                             *)

Cell(r, c, S) == r * S.cap + c

(* Mutant: the old table is read with the new step.                        *)
SameStepGrown(S) ==
  [S EXCEPT !.map =
     [i \in 0 .. S.cap * Cardinality(DOMAIN S.query) - 1 |->
        IF i \in DOMAIN S.map /\ i \div S.cap < S.maxMode /\ i % S.cap < Len(S.list)
        THEN S.map[i] ELSE 0]]

(* ConSplitterGrowMapTable, after the list was enlarged.                   *)
GrowMapTable(S) ==
  [S EXCEPT !.map =
     [i \in 0 .. S.cap * Cardinality(DOMAIN S.query) - 1 |->
        LET r == i \div S.cap
            c == i % S.cap
        IN IF S.map # <<>> /\ r < S.maxMode /\ c < Len(S.list)
           THEN S.map[r * (S.cap - Unit) + c] ELSE -1]]

(* ConSplitterGrowBuffer, of the list and of the query data.               *)
GrowList(S) ==
  IF Len(S.list) < S.cap THEN S ELSE GrowMapTable([S EXCEPT !.cap = @ + Unit])

Units(n) == ((n + Unit - 1) \div Unit) * Unit

GrowQuery(S, n) ==
  [S EXCEPT !.query = [m \in 0 .. Units(Max({n, Cardinality(DOMAIN @)})) - 1 |->
                         IF m \in DOMAIN @ THEN @[m] ELSE NoSize]]

(* ConSplitterAddOutputMode: the modes of the first console.               *)
AddOutputMode(S, d) ==
  LET n == Len(Modes[d])
      G == GrowMapTable([GrowQuery(S, n) EXCEPT !.maxMode = n])
  IN [G EXCEPT
        !.query = [m \in DOMAIN @ |-> SizeOf(d, m)],
        !.map = [i \in DOMAIN @ |-> IF i % G.cap = 0 /\ i \div G.cap < n
                                    THEN i \div G.cap ELSE @[i]]]

(* The first n rows of a table without those that are gone, in their order. *)
RowsKept(gone, n) ==
  LET upTo[r \in 0 .. n] == IF r = 0 THEN <<>>
                            ELSE IF r - 1 \in gone THEN upTo[r - 1] ELSE Append(upTo[r - 1], r - 1)
  IN upTo[n]

(* ConSplitterGetIntersection: the rows without an entry leave the table,  *)
(* the rows after them move down, and the number of the current mode with  *)
(* them.  Modes 0 and 1 always stay.  What is left behind the last row is  *)
(* taken for unknown, here and below.                                      *)
GetIntersection(S, entry) ==
  LET gone == {r \in 2 .. S.maxMode - 1 : entry[r] = -1}
      kept == RowsKept(gone, S.maxMode)
  IN [S EXCEPT !.map = [i \in DOMAIN @ |-> IF i \div S.cap < Len(kept)
                          THEN @[Cell(kept[(i \div S.cap) + 1], i % S.cap, S)] ELSE -1],
               !.maxMode = Len(kept),
               !.mode = IF @ \in gone THEN -1 ELSE @ - Cardinality({r \in gone : r < @})]

SizeAt(S, r) == S.query[S.map[Cell(r, 0, S)]]

(* The first row of the splitter with that size, or none.                  *)
FirstRow(S, size) ==
  LET rows == {r \in 0 .. S.maxMode - 1 : SizeAt(S, r) = size}
  IN IF rows = {} THEN -1 ELSE Min(rows)

(* ConSplitterSyncOutputMode: the column of the new console, and the rows  *)
(* it has no mode for.                                                     *)
SyncOutputMode(S, d) ==
  LET c == Len(S.list)
      noOne == Len(Modes[d]) > 1 /\ Modes[d][2] = NoSize
      Q == IF noOne THEN [S EXCEPT !.query[1] = NoSize] ELSE S
      found(r) == {m \in 0 .. Len(Modes[d]) - 1 :
                     SizeOf(d, m) # NoSize /\ FirstRow(Q, SizeOf(d, m)) = r}
      entry == [r \in 0 .. Max({Q.maxMode - 1, 1}) |->
                  IF found(r) # {} THEN Max(found(r)) ELSE IF r = 1 /\ noOne THEN 1
                  ELSE Q.map[Cell(r, c, Q)]]
      T == [Q EXCEPT !.map = [i \in DOMAIN @ |->
                 IF i % Q.cap = c /\ i \div Q.cap \in DOMAIN entry THEN entry[i \div Q.cap] ELSE @[i]]]
  IN [GetIntersection(T, entry) EXCEPT !.list = Append(@, d)]

(* ConSplitterTextOutQueryMode.                                            *)
TextOutQueryMode(S, m) ==
  IF m >= S.maxMode THEN NoSize ELSE IF S.map = <<>> THEN S.query[m] ELSE SizeAt(S, m)

(* The sizes SetCursorPosition may take for the current one: outside the   *)
(* tables it reads whatever is there.                                      *)
CurrentSizes(S) ==
  IF S.map = <<>> THEN {S.query[0]}
  ELSE IF Cell(S.mode, 0, S) \in DOMAIN S.map /\ S.map[Cell(S.mode, 0, S)] \in DOMAIN S.query
       THEN {SizeAt(S, S.mode)} ELSE Sizes
-----------------------------------------------------------------------------
(* Calls on all consoles of a splitter, as functions of the whole state.   *)

World == [sp |-> sp, dev |-> dev, gop |-> gop, pcd |-> pcd]

Changes(w) == sp' = w.sp /\ dev' = w.dev /\ gop' = w.gop /\ pcd' = w.pcd

Becomes(w) == Changes(w) /\ added' = "none"

Consoles(w, s) == ToSet(w.sp[s].list)

(* TextOutSetMode.                                                         *)
TextOutSetMode(S, m) == [S EXCEPT !.mode = m, !.cursor = Origin]

(* ConSplitterTextOutClearScreen.                                          *)
TextOutClearScreen(S) == [S EXCEPT !.cursor = Origin]

(* The call of SetMode that console d gets for row m, and what it says.    *)
Row(S, m, d) == S.map[Cell(m, CHOOSE i \in 0 .. Len(S.list) - 1 : S.list[i + 1] = d, S)]
Takes(S, m, d, bad) == d \notin bad /\ SizeOf(d, Row(S, m, d)) # NoSize

(* ConSplitterTextOutSetMode.                                              *)
SetMode(w, s, m, bad) ==
  LET S == w.sp[s]
  IN IF m >= S.maxMode THEN w
     ELSE IF S.mode = m THEN [w EXCEPT !.sp[s] = TextOutClearScreen(S)]
     ELSE [w EXCEPT !.sp[s] = TextOutSetMode(S, m),
                    !.dev = [d \in Devs |->
                       IF d \in Consoles(w, s) /\ Takes(S, m, d, bad)
                       THEN [@[d] EXCEPT !.mode = Row(S, m, d)] ELSE @[d]]]

SetModeFails(w, s, m, bad) ==
  LET S == w.sp[s]
  IN \/ m >= S.maxMode
     \/ S.mode # m /\ \E d \in Consoles(w, s) : ~Takes(S, m, d, bad)

(* ConSplitterTextOutSetAttribute.                                         *)
SetAttribute(w, s, a) ==
  IF a > 127 THEN w
  ELSE [w EXCEPT !.sp[s].attr = a,
                 !.dev = [d \in Devs |-> IF d \in Consoles(w, s)
                                         THEN [@[d] EXCEPT !.attr = a] ELSE @[d]]]

(* ConsplitterSetConsoleOutMode.                                           *)
SetConsoleOutMode(w, s, bad) ==
  LET S == w.sp[s]
      Like(size) == {m \in 0 .. S.maxMode - 1 : TextOutQueryMode(S, m) = size}
      prefer == IF Like(w.pcd) = {} THEN Unset ELSE Max(Like(w.pcd))
      v == SetMode(w, s, prefer, bad)
  IN IF ~SetModeFails(w, s, prefer, bad) THEN v
     ELSE [SetMode(v, s, Max(Like(Base)), bad) EXCEPT !.pcd = Base]

(* Mutant: only the modes of ConOut are cut.                               *)
OnlyConOutCut(w) ==
  LET C == w.sp["ConOut"]
      E == w.sp["StdErr"]
      entry == [r \in 0 .. C.maxMode - 1 |-> IF FirstRow(E, SizeAt(C, r)) = -1 THEN -1 ELSE 1]
      v == [w EXCEPT !.sp["ConOut"] = GetIntersection(C, entry)]
  IN IF E.list = <<>> \/ C.list = <<>> \/ Head(C.list) \notin ToSet(E.list) THEN {w}
     ELSE {IF v.sp["ConOut"].mode < 0 THEN SetMode(v, "ConOut", 0, {}) ELSE v}

(* ConSplitterGetIntersectionBetweenConOutAndStrErr.  The pointer into the *)
(* list of StdErr is not taken back for the second console of ConOut, so   *)
(* from there on it is compared with what lies behind that list.           *)
GetIntersectionBetween(w) ==
  LET C == w.sp["ConOut"]
      E == w.sp["StdErr"]
      met == {FirstRow(E, SizeAt(C, r)) : r \in 0 .. C.maxMode - 1}
      cEntry == [r \in 0 .. C.maxMode - 1 |-> IF FirstRow(E, SizeAt(C, r)) = -1 THEN -1 ELSE 1]
      eEntry == [r \in 0 .. E.maxMode - 1 |-> IF r \in met THEN 1 ELSE -1]
      Repair(v, s) == IF v.sp[s].mode < 0 THEN SetMode(v, s, 0, {}) ELSE v
      u == Repair([w EXCEPT !.sp["ConOut"] = GetIntersection(C, cEntry)], "ConOut")
      v == Repair([u EXCEPT !.sp["StdErr"] = GetIntersection(E, eEntry)], "StdErr")
  IN IF E.list = <<>> \/ C.list = <<>> THEN {w}
     ELSE IF Head(C.list) \in ToSet(E.list) THEN {v}
     ELSE IF Len(C.list) > 1 THEN {v, w} ELSE {w}
-----------------------------------------------------------------------------
(* The graphics modes.                                                     *)

Screens(w) == SelectSeq(w.sp["ConOut"].list, Gop)

(* The first place of a resolution in the buffer of modes, or none.        *)
PlaceOf(modes, res) ==
  LET places == {i \in 1 .. Len(modes) : modes[i] = res}
  IN IF places = {} THEN -1 ELSE Min(places) - 1

(* ConSplitterGraphicsOutputSetMode: every screen is set, and with a single *)
(* screen its own frame buffer is offered.                                 *)
GopSetMode(w, m) ==
  LET g == w.gop
      single == g.n = 1 /\ Screens(w) # <<>>
      Can(d) == d \in ToSet(Screens(w)) /\ g.modes[m + 1] \in ToSet(GopModes[d])
  IN IF m >= Len(g.modes) THEN w
     ELSE [w EXCEPT !.dev = [d \in Devs |-> IF Can(d) THEN [@[d] EXCEPT !.res = g.modes[m + 1]] ELSE @[d]],
                    !.gop.mode = m,
                    !.gop.info = g.modes[m + 1],
                    !.gop.direct = single]

(* ConSplitterAddGraphicsOutputMode, up to the label Done: the modes the   *)
(* new screen shares with the others.                                      *)
SharedModes(g, d) ==
  IF g.n = 0 THEN GopModes[d]
  ELSE LET shared == {i \in 1 .. Len(g.modes) :
                        g.modes[i] \in ToSet(GopModes[d]) /\ PlaceOf(g.modes, g.modes[i]) = i - 1}
       IN SelectSeq(g.modes, LAMBDA r : \E i \in shared : g.modes[i] = r)

(* The mode of the new screen if it is among them, or else the default.    *)
ChosenPlace(modes, res) ==
  IF PlaceOf(modes, res) # -1 THEN PlaceOf(modes, res)
  ELSE IF PlaceOf(modes, Standard) # -1 THEN PlaceOf(modes, Standard) ELSE 0

(* The rest of ConSplitterAddGraphicsOutputMode: the new screen follows    *)
(* the others, or all are set anew.                                        *)
AddGraphicsOutputMode(w, d) ==
  LET first == w.gop.n = 0
      modes == SharedModes(w.gop, d)
      k == ChosenPlace(modes, w.dev[d].res)
      info == IF first THEN w.dev[d].res ELSE w.gop.info
      g == [w.gop EXCEPT !.n = @ + 1, !.modes = modes, !.info = info, !.direct = first]
      v == [w EXCEPT !.gop = g]
  IN IF modes[k + 1] = info
     THEN [v EXCEPT !.gop.mode = k, !.dev[d].res = modes[k + 1]]
     ELSE GopSetMode([v EXCEPT !.gop.mode = 65535], k)

(* InstallMultipleProtocolInterfaces at the first screen; a second install *)
(* of the same protocol is refused.                                        *)
Install(w, d) ==
  IF Gop(d) /\ w.gop.n = 1 THEN [w EXCEPT !.gop.installed = TRUE] ELSE w
-----------------------------------------------------------------------------
(* ConSplitterTextOutConstructor and the templates of mConOut and mStdErr. *)
Init ==
  /\ sp = [s \in Splitters |->
            [list |-> <<>>, cap |-> Unit, map |-> <<>>,
             query |-> [m \in 0 .. Unit - 1 |-> IF m = 0 THEN Base ELSE NoSize],
             maxMode |-> 1, mode |-> 0, cursor |-> Origin, attr |-> 0]]
  /\ dev = [d \in Devs |-> [mode |-> 0, attr |-> Lightgray,
                            res |-> IF Gop(d) THEN Head(GopModes[d]) ELSE Standard]]
  /\ gop = [n |-> 0, modes |-> <<Standard>>, mode |-> 0, info |-> Standard,
            direct |-> FALSE, installed |-> FALSE]
  /\ pcd = Wanted
  /\ added = "none"

(* Mutant: the mode is not put back to its initial state first.            *)
AddWithMode(s, d, bad) ==
  LET G == GrowList(sp[s])
      longer == IF G.list = <<>> THEN [AddOutputMode(G, d) EXCEPT !.list = <<d>>]
                ELSE SyncOutputMode(G, d)
  IN {SetConsoleOutMode(IF s = "ConOut" /\ Gop(d) THEN Install(AddGraphicsOutputMode(w, d), d) ELSE w,
                        s, bad) : w \in GetIntersectionBetween([World EXCEPT !.sp[s] = longer])}

(* ConSplitterTextOutAddDevice, with the reset of the mode by its callers. *)
AddDevice(s, d, bad) ==
  LET G == GrowList([sp[s] EXCEPT !.mode = Unset])
      longer == IF G.list = <<>> THEN [AddOutputMode(G, d) EXCEPT !.list = <<d>>]
                ELSE SyncOutputMode(G, d)
  IN {SetConsoleOutMode(IF s = "ConOut" /\ Gop(d) THEN Install(AddGraphicsOutputMode(w, d), d) ELSE w,
                        s, bad) : w \in GetIntersectionBetween([World EXCEPT !.sp[s] = longer])}

(* ConSplitterStart: a console that is managed already is not opened again. *)
Startable(s, d) == d \notin ToSet(sp[s].list)

(* ConSplitterConOutDriverBindingStart.                                    *)
ConOutStart(d, bad) ==
  /\ Startable("ConOut", d)
  /\ \E w \in AddDevice("ConOut", d, bad) : Changes(SetAttribute(w, "ConOut", Lightgray))
  /\ added' = IF bad = {} THEN "ConOut" ELSE "none"

(* ConSplitterStdErrDriverBindingStart.                                    *)
StdErrStart(d, bad) ==
  /\ Startable("StdErr", d) /\ d \in ErrDevs
  /\ \E w \in AddDevice("StdErr", d, bad) : Changes(SetAttribute(w, "StdErr", Magenta))
  /\ added' = IF bad = {} THEN "StdErr" ELSE "none"

(* ConSplitterTextOutDeleteDevice, when the last console goes.             *)
Emptied(S) == TextOutSetMode([S EXCEPT !.list = <<>>, !.maxMode = 1, !.query[0] = Base], 0)

(* The rest of it: the tables are built anew from the consoles that stay.  *)
Rebuilt(S, list) ==
  LET cleared == [S EXCEPT !.list = <<>>, !.map = <<>>, !.query = [m \in DOMAIN @ |-> NoSize]]
      first == [AddOutputMode(cleared, list[1]) EXCEPT !.list = <<list[1]>>]
      upTo[n \in 1 .. Len(list)] == IF n = 1 THEN first ELSE SyncOutputMode(upTo[n - 1], list[n])
  IN upTo[Len(list)]

DeleteDevice(s, d) ==
  LET stay == RemoveFirst(sp[s].list, d)
      w == [World EXCEPT !.gop.n = IF s = "ConOut" /\ Gop(d) THEN @ - 1 ELSE @]
  IN IF stay = <<>> THEN {[w EXCEPT !.sp[s] = Emptied(@)]}
     ELSE GetIntersectionBetween([w EXCEPT !.sp[s] = Rebuilt(@, stay)])

(* ConSplitterStop with the Stop of each binding, for one child.           *)
ConOutStop(d) ==
  /\ ~Startable("ConOut", d)
  /\ \E w \in DeleteDevice("ConOut", d) : Becomes(w)

StdErrStop(d) ==
  /\ ~Startable("StdErr", d)
  /\ \E w \in DeleteDevice("StdErr", d) : Becomes(w)
-----------------------------------------------------------------------------
(* The services.                                                           *)

TextOutReset(s) ==
  LET w == [World EXCEPT !.dev = [d \in Devs |-> IF d \in Consoles(World, s)
                                                 THEN [@[d] EXCEPT !.mode = 0] ELSE @[d]]]
      v == SetAttribute(w, s, sp[s].attr % 16)
  IN Becomes([v EXCEPT !.sp[s] = TextOutSetMode(@, 0)])

(* Where a character moves the cursor when there is no console.            *)
Moved(pos, size, ch) ==
  LET c == pos[1]  r == pos[2]
      down == IF r < size[2] - 1 THEN r + 1 ELSE r
  IN CASE ch = "backspace" -> IF c > 0 THEN <<c - 1, r>>
                              ELSE IF r > 0 THEN <<size[1] - 1, r - 1>> ELSE pos
       [] ch = "linefeed" -> <<c, down>>
       [] ch = "return" -> <<0, r>>
       [] OTHER -> IF c < size[1] - 1 THEN <<c + 1, r>> ELSE <<0, down>>

Screen(d) == {pos \in Places : OnScreen(pos, SizeOf(d, dev[d].mode))}

(* ConSplitterTextOutOutputString, of one character when there is no       *)
(* console; else the cursor is where the first console says.               *)
OutputString(s) ==
  LET w == SetAttribute(World, s, sp[s].attr)
  IN \/ /\ sp[s].list = <<>>
        /\ \E ch \in {"backspace", "linefeed", "return", "other"} :
             Becomes([w EXCEPT !.sp[s].cursor = Moved(@, TextOutQueryMode(sp[s], sp[s].mode), ch)])
     \/ /\ sp[s].list # <<>>
        /\ \E pos \in Screen(Head(sp[s].list)) : Becomes([w EXCEPT !.sp[s].cursor = pos])

CallSetMode(s, m, bad) == Becomes(SetMode(World, s, m, bad))

CallSetAttribute(s, a) == Becomes(SetAttribute(World, s, a))

ClearScreen(s) == Becomes([World EXCEPT !.sp[s] = TextOutClearScreen(@)])

(* ConSplitterTextOutSetCursorPosition.                                    *)
SetCursorPosition(s, pos) ==
  /\ \E size \in CurrentSizes(sp[s]) : OnScreen(pos, size)
  /\ Becomes([World EXCEPT !.sp[s].cursor = pos])

CallGopSetMode(m) == gop.installed /\ Becomes(GopSetMode(World, m))

Next ==
  \/ \E d \in Devs, bad \in SUBSET Flaky : ConOutStart(d, bad) \/ StdErrStart(d, bad)
  \/ \E d \in Devs : ConOutStop(d) \/ StdErrStop(d)
  \/ \E s \in Splitters :
       \/ TextOutReset(s)
       \/ OutputString(s)
       \/ \E m \in 0 .. sp[s].maxMode, bad \in SUBSET Flaky : CallSetMode(s, m, bad)
       \/ \E a \in Colours : CallSetAttribute(s, a)
       \/ ClearScreen(s)
       \/ \E pos \in Places : SetCursorPosition(s, pos)
  \/ \E m \in 0 .. Len(gop.modes) : CallGopSetMode(m)

Spec == Init /\ [][Next]_vars
-----------------------------------------------------------------------------
(* Every field of the splitters, of the consoles and of the graphics       *)
(* output holds a value the code can put there.                            *)
TypeOK ==
  /\ \A s \in Splitters : IsSplitter(sp[s])
  /\ \A d \in Devs : SizeOf(d, dev[d].mode) # NoSize /\ dev[d].attr \in 0 .. 127
  /\ added \in Splitters \cup {"none"}
  /\ gop.n = Len(Screens(World)) /\ gop.mode \in 0 .. Len(gop.modes) - 1

(* Rows a console must have a mode for: all but mode 1, which some lack.   *)
Shared(S) == (0 .. S.maxMode - 1) \ {1}

(* However consoles came and went, and however the tables were moved,      *)
(* grown or rebuilt, each shared mode names, for every console of the      *)
(* list, a mode of its own with the size that QueryMode reports            *)
(* (ConSplitterSyncOutputMode, ConSplitterGrowMapTable).                   *)
MapFaithful ==
  \A s \in Splitters : sp[s].list # <<>> =>
    \A r \in Shared(sp[s]), d \in ToSet(sp[s].list) :
      SizeOf(d, Row(sp[s], r, d)) = SizeAt(sp[s], r)

(* When the first console of ConOut is one of StdErr too, both offer the   *)
(* same sizes beyond mode 1, whichever of the two gained or lost a console *)
(* last (ConSplitterGetIntersectionBetweenConOutAndStrErr).                *)
FirstSharedAgree ==
  LET Offered(S) == {SizeAt(S, r) : r \in 2 .. S.maxMode - 1}
  IN sp["ConOut"].list # <<>> /\ sp["StdErr"].list # <<>>
       /\ Head(sp["ConOut"].list) \in ToSet(sp["StdErr"].list)
     => Offered(sp["ConOut"]) = Offered(sp["StdErr"])

(* Without a console the splitter is the 40 x 12 console it was at first,  *)
(* its cursor on that screen, after whatever was written and whichever     *)
(* console went last (ConSplitterTextOutOutputString,                      *)
(* ConSplitterTextOutDeleteDevice).                                        *)
NullConsole ==
  \A s \in Splitters : sp[s].list = <<>> =>
    /\ sp[s].mode = 0 /\ TextOutQueryMode(sp[s], 0) = Base /\ TextOutQueryMode(sp[s], 1) = NoSize
    /\ OnScreen(sp[s].cursor, Base)

InStep(s) ==
  \A d \in ToSet(sp[s].list) : SizeOf(d, dev[d].mode) = SizeAt(sp[s], sp[s].mode)

(* When a console has been added and none failed, all consoles of the list *)
(* are in the size of the current mode, those the other splitter had moved *)
(* included (the resets to 0xFF and ConsplitterSetConsoleOutMode).         *)
StartSyncs == added # "none" => InStep(added)

(* Every mode the graphics output offers is one of every screen, and all   *)
(* screens have the resolution of its current mode                         *)
(* (ConSplitterAddGraphicsOutputMode, ConSplitterGraphicsOutputSetMode).   *)
GopAgree ==
  \A d \in ToSet(Screens(World)) :
    /\ ToSet(gop.modes) \subseteq ToSet(GopModes[d])
    /\ dev[d].res = gop.modes[gop.mode + 1]

(* Without a screen no graphics output is offered: "If there is not any    *)
(* physical GOP and UGA device in system, Consplitter GOP or UGA protocol  *)
(* will be uninstalled" (ConSplitter.c:3233).                              *)
GopGoesAway == gop.installed => Screens(World) # <<>>
=============================================================================
