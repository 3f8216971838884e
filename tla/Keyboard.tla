------------------------------ MODULE Keyboard ------------------------------
(***************************************************************************)
(* The on-screen keyboard (src/platform/vita_kb.h).  The input tick of the *)
(* game thread writes its state one field after another; the presentation  *)
(* thread reads it to draw, with no lock.  A typed character is a number   *)
(* of its own, so that the same character can be followed from the key to  *)
(* the screen.                                                             *)
(***************************************************************************)
EXTENDS Integers, Sequences, SequencesExt

CONSTANTS
  Full, Simple,    \* the two layouts: [keys |-> the widths of the character rows, fn |-> the actions of the last row]
  EchoMax,         \* ECHO_MAX
  ScreenW, ScreenH,
  MaxTyped         \* bound: characters typed between two openings

VARIABLES
  s,               \* State: open, r, c, shift, mask, simple, n, echo
  todo,            \* the stores of the input tick still to come, in program order
  draw,            \* the frame being drawn: what it reads next, the cell, echo_n as read; whether
                   \* the mask came on after it was read for this cell (not in the code)
  text,            \* the characters of the field: typed, not erased
  typed, shown     \* how many were typed; those that were in the echo line while it was in the clear
vars == <<s, todo, draw, text, typed, shown>>

(* Rows of one to sixteen keys, which fit the screen with a gap beside each *)
(* key; every layout has a row of characters.                              *)
RowH == 40
EchoH == 34
Pad == 6
KeyAssumption ==
  /\ EchoMax \in Nat \ {0} /\ ScreenW \in Nat /\ ScreenH \in Nat /\ ScreenW >= 16 * 7
  /\ \A layout \in {Full, Simple} :
       /\ layout.keys \in Seq(1..16) /\ layout.keys # <<>>
       /\ layout.fn \in Seq(STRING) /\ Len(layout.fn) \in 1..16
       /\ Pad + EchoH + Pad + (Len(layout.keys) + 1) * RowH + Pad <= ScreenH

Nothing == 0
Blank == [k \in 0..EchoMax |-> Nothing]
NoFrame == [at |-> "open", cell |-> 0, n |-> 0, late |-> FALSE]
Init ==
  /\ s = [open |-> 0, r |-> 0, c |-> 0, shift |-> 0, mask |-> 0, simple |-> 0, n |-> 0, echo |-> Blank]
  /\ todo = <<>> /\ draw = NoFrame /\ text = <<>> /\ typed = 0 /\ shown = {}
----------------------------------------------------------------------------
(* Layout and geometry: rows of keys above a row of functions.             *)
Layout == IF s.simple = 1 THEN Simple ELSE Full
NRows == Len(Layout.keys) + 1
Cols(r) == IF r < 0 \/ r >= NRows THEN 0 ELSE IF r < NRows - 1 THEN Layout.keys[r + 1] ELSE Len(Layout.fn)
EchoLine == IF s.simple = 1 THEN 0 ELSE EchoH + Pad
PanelH == Pad + EchoLine + NRows * RowH + Pad
CellRect(r, c) ==
  LET cw == ScreenW \div Cols(r)
  IN [x |-> c * cw + 3, w |-> cw - 6, y |-> ScreenH - PanelH + Pad + EchoLine + r * RowH, h |-> RowH - 4]
Inside(px, py, q) == px >= q.x /\ px < q.x + q.w /\ py >= q.y /\ py < q.y + q.h
Hit(px, py) == {rc \in (0..NRows - 1) \X (0..15) : rc[2] < Cols(rc[1]) /\ Inside(px, py, CellRect(rc[1], rc[2]))}
----------------------------------------------------------------------------
(* The stores of each operation, in the order of the code.                 *)
St(f, v) == [f |-> f, i |-> 0, v |-> v]
EchoAt(i, v) == [f |-> "echo", i |-> i, v |-> v]
EchoClear == [k \in 1..EchoMax + 1 |-> EchoAt(k - 1, Nothing)] \o <<St("n", 0)>>
(* Fault: the window slides over one byte too few.                         *)
SlidShort == [k \in 1..EchoMax - 2 |-> EchoAt(k - 1, s.echo[k])]
Slid == [k \in 1..EchoMax - 1 |-> EchoAt(k - 1, s.echo[k])]
EchoPush(ch) ==
  LET full == s.n = EchoMax
      n == IF full THEN EchoMax - 1 ELSE s.n
  IN (IF full THEN Slid ELSE <<>>) \o <<EchoAt(n, ch), EchoAt(n + 1, Nothing), St("n", n + 1)>>
EchoPop == IF s.n <= 0 THEN EchoClear ELSE <<EchoAt(s.n - 1, Nothing), St("n", s.n - 1)>>
OpenStores(simple) == <<St("simple", simple), St("r", 1), St("c", 0), St("shift", 0), St("mask", 0)>> \o EchoClear \o <<St("open", 1)>>
(* Fault: the mask goes before the characters it hides.                    *)
CloseBared == <<St("open", 0), St("shift", 0), St("mask", 0)>> \o EchoClear
CloseStores == <<St("open", 0)>> \o EchoClear \o <<St("shift", 0), St("mask", 0)>>
----------------------------------------------------------------------------
Begins(stores) == todo = <<>> /\ todo' = stores /\ UNCHANGED <<s, draw>>
Keeps == UNCHANGED <<text, typed, shown>>

OpenKb == /\ s.open = 0 /\ text' = <<>> /\ typed' = 0 /\ shown' = {}
          /\ \E simple \in {0, 1} : Begins(OpenStores(simple))
CloseKb == s.open = 1 /\ Begins(CloseStores) /\ text' = <<>> /\ UNCHANGED <<typed, shown>>

(* nav: another row reprojects the column, the ends wrap.                  *)
Reproject(c, old, new) == LET p == (c * new + old \div 2) \div old IN IF p >= new THEN new - 1 ELSE p
NavRow(dr) == /\ s.open = 1 /\ Keeps
              /\ LET r == (s.r + dr) % NRows
                 IN Begins(<<St("r", r), St("c", Reproject(s.c, Cols(s.r), Cols(r)))>>)
NavCol(dc) == s.open = 1 /\ Begins(<<St("r", s.r), St("c", (s.c + dc) % Cols(s.r))>>) /\ Keeps

(* activate, on the selected key or on the one under the finger (a key     *)
(* without a character does nothing).                                      *)
Pushed(before) == /\ typed < MaxTyped /\ typed' = typed + 1 /\ text' = Append(text, typed + 1)
                  /\ Begins(before \o EchoPush(typed + 1)) /\ UNCHANGED shown
ActivateChar(r, c) == /\ s.open = 1 /\ r < NRows - 1 /\ c < Cols(r)
                      /\ Pushed(IF s.shift = 1 THEN <<St("shift", 0)>> ELSE <<>>)
Fn(act) == s.open = 1 /\ act \in Range(Layout.fn)
ActivateSpace == Fn("space") /\ Pushed(<<>>)
ActivateShift == Fn("shift") /\ Begins(<<St("shift", (s.shift + 1) % 3)>>) /\ Keeps
ActivateMask == Fn("mask") /\ Begins(<<St("mask", 1 - s.mask)>>) /\ Keeps
ActivateBack == /\ Fn("back") /\ Begins(EchoPop) /\ UNCHANGED <<typed, shown>>
                /\ text' = IF text = <<>> THEN <<>> ELSE Front(text)
ActivateEnter == Fn("enter") /\ Begins(EchoClear) /\ text' = <<>> /\ UNCHANGED <<typed, shown>>
ActivateClose == Fn("close") /\ CloseKb

(* One store.  What is in the echo line while the keyboard is open and not *)
(* masked was shown by the user's choice.                                  *)
Store ==
  /\ todo # <<>> /\ todo' = Tail(todo) /\ UNCHANGED <<text, typed>>
  /\ s' = LET w == Head(todo) IN IF w.f = "echo" THEN [s EXCEPT !.echo[w.i] = w.v] ELSE [s EXCEPT ![w.f] = w.v]
  /\ shown' = IF s'.open = 1 /\ s'.mask = 0 THEN shown \cup Range(s'.echo) ELSE shown
  /\ draw' = [draw EXCEPT !.late = draw.at = "echo" /\ (@ \/ s'.mask = 1)]
----------------------------------------------------------------------------
(* draw: the state as it is found, one read at a time: open, the layout,   *)
(* echo_n, and for each cell of the echo line the mask and the character.  *)
Draws(at, frame) == draw.at = at /\ draw' = frame /\ UNCHANGED <<s, todo>> /\ Keeps
DrawBegin  == s.open = 1 /\ Draws("open", [draw EXCEPT !.at = "layout"])
DrawLayout == Draws("layout", IF s.simple = 1 THEN NoFrame ELSE [draw EXCEPT !.at = "n"])
DrawEcho   == Draws("n", [draw EXCEPT !.at = "mask", !.n = IF s.n > EchoMax THEN EchoMax ELSE s.n])
DrawMask   == draw.cell < draw.n /\ Draws("mask", IF s.mask = 1 THEN [draw EXCEPT !.cell = @ + 1] ELSE [draw EXCEPT !.at = "echo"])
DrawCell   == Draws("echo", [draw EXCEPT !.at = "mask", !.cell = @ + 1, !.late = FALSE])
(* The caret and the keys, each in the rectangle hit looks for.            *)
DrawEnd    == draw.cell = draw.n /\ Draws("mask", NoFrame)
(* The character drawn, if it is read now.                                 *)
Glyph == IF draw.at = "echo" THEN s.echo[draw.cell] ELSE Nothing

Next ==
  \/ OpenKb \/ CloseKb
  \/ \E d \in {-1, 1} : NavRow(d) \/ NavCol(d)
  \/ \E r \in 0..NRows - 2 : \E c \in 0..Cols(r) - 1 : ActivateChar(r, c)
  \/ ActivateSpace \/ ActivateShift \/ ActivateMask \/ ActivateBack \/ ActivateEnter \/ ActivateClose
  \/ Store
  \/ DrawBegin \/ DrawLayout \/ DrawEcho \/ DrawMask \/ DrawCell \/ DrawEnd
Spec == Init /\ [][Next]_vars
----------------------------------------------------------------------------
(* A character is drawn in the clear only if its user has shown it, also   *)
(* in a frame that goes on after the keyboard was closed and opened again, *)
(* unless the mask came on between the two reads of its cell: the header   *)
(* says that masked input is drawn as dots (20-22), but 317 reads the mask *)
(* and 318 the character, and the tick may mask and type between them.     *)
NothingBared == Glyph # Nothing => Glyph \in shown \/ draw.late
(* Between two ticks the echo is the end of the text, nothing is left of   *)
(* what was erased, and a closed keyboard holds nothing.                   *)
EchoIsSuffix ==
  todo = <<>> =>
    /\ s.n \in 0..EchoMax /\ s.n <= Len(text)
    /\ \A k \in 0..EchoMax : s.echo[k] = IF k < s.n THEN text[Len(text) - s.n + k + 1] ELSE Nothing
    /\ s.open = 0 => s.n = 0 /\ s.mask = 0
(* The selection is on a key, inside the screen, and a finger on any corner *)
(* of the key drawn there presses that key.                                *)
TouchIsDrawn ==
  todo = <<>> /\ s.open = 1 =>
    /\ s.r < NRows /\ s.c < Cols(s.r)
    /\ LET q == CellRect(s.r, s.c)
       IN /\ q.x >= 0 /\ q.y >= 0 /\ q.x + q.w <= ScreenW /\ q.y + q.h <= ScreenH
          /\ \A px \in {q.x, q.x + q.w - 1}, py \in {q.y, q.y + q.h - 1} : Hit(px, py) = {<<s.r, s.c>>}

KeyboardHonest == NothingBared /\ EchoIsSuffix /\ TouchIsDrawn
============================================================================
