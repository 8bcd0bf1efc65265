------------------------------ MODULE Console -------------------------------
(***************************************************************************)
(* The console of SoulOS, kernel/console.cpp: text in video memory, a      *)
(* window of it on the screen, and a parser of escape sequences.  The      *)
(* window moves down as text scrolls, and back to the start of the memory  *)
(* when it comes to its end.                                               *)
(*                                                                         *)
(* A call of consoleWrite runs with interrupts off: a step is one of its   *)
(* characters.  Addresses count cells (two bytes) from mem_base.  The      *)
(* style of the cells is left out: ESC [ m changes nothing here, like the  *)
(* control characters and final characters without an effect.              *)
(***************************************************************************)
EXTENDS Integers, FiniteSetsExt

CONSTANTS
    Width, Height,  \* of the window
    MemRows,        \* lines of video memory
    TabStop,        \* the distance of the tab stops
    MaxArgs,        \* ARG_NR, the parameters of a sequence
    MaxArg,         \* bound: the largest parameter
    Chars,          \* the characters written
    Blank, Mark     \* the contents of a cell: the erase cell, a character

ASSUME ConsoleAssumption ==
    /\ Width \in Nat \ {0} /\ Height \in Nat \ {0}
    /\ MemRows \in Nat /\ MemRows > Height + 1
    /\ TabStop \in 1 .. Width /\ Width % TabStop = 0
    /\ MaxArgs \in Nat /\ MaxArgs >= 2 /\ MaxArg \in Nat

Size     == MemRows * Width
PageSize == Height * Width

VARIABLES
    con,        \* the fields mem (the memory), screen, pos, x and y
    saved,      \* saved_x and saved_y
    mode,       \* state: "NOR", "ESC", "QUE" or "ARG"
    args,       \* args, all 0 where nothing will read them
    argc        \* argc

conVars == <<con, saved, mode, args, argc>>

Consoles == [mem : [0 .. Size - 1 -> {Blank, Mark}], screen : 0 .. Size - 1,
             pos : 0 .. Size - 1, x : 0 .. Width, y : 0 .. Height - 1]

ConTypeOK ==
    /\ con \in Consoles
    /\ saved \in [x : 0 .. Width, y : 0 .. Height - 1]
    /\ mode \in {"NOR", "ESC", "QUE", "ARG"}
    /\ args \in [0 .. MaxArgs - 1 -> 0 .. MaxArg]
    /\ argc \in 0 .. MaxArgs

-----------------------------------------------------------------------------
\* setXY: its parameters are unsigned, what would be negative is too large.
SetXY(c, x, y) ==
    IF x \notin 0 .. Width \/ y \notin 0 .. Height - 1 THEN c
    ELSE [c EXCEPT !.x = x, !.y = y, !.pos = c.screen + y * Width + x]

\* eraseScreen of n cells.
EraseScreen(c, start, n) ==
    [c EXCEPT !.mem = [a \in DOMAIN @ |-> IF a \in start .. start + n - 1
                                          THEN Blank ELSE @[a]]]

\* memcpy of n cells, whose effect is that of a copy through a buffer.
Copy(c, to, from, n) ==
    [c EXCEPT !.mem = [a \in DOMAIN @ |-> IF a \in to .. to + n - 1
                                          THEN @[a - to + from] ELSE @[a]]]

\* Mutants: the cursor stays where it was in memory; a line of the text is
\* lost when the window returns.
RewindPos(c) ==
    [Copy(c, 0, c.screen, PageSize) EXCEPT !.screen = 0]
RewindShort(c) ==
    [Copy(c, 0, c.screen, PageSize - Width) EXCEPT !.pos = @ - c.screen, !.screen = 0]

\* scrollUp, the part that takes the window back to the start.
Rewind(c) ==
    [Copy(c, 0, c.screen, PageSize) EXCEPT !.pos = @ - c.screen, !.screen = 0]

ScrollUp(c) ==
    LET d == IF c.screen + PageSize + Width >= Size THEN Rewind(c) ELSE c IN
    [EraseScreen(d, d.screen + PageSize, Width)
        EXCEPT !.screen = @ + Width, !.pos = @ + Width]

Lf(c) == IF c.y + 1 < Height THEN [c EXCEPT !.y = @ + 1, !.pos = @ + Width]
                             ELSE ScrollUp(c)

Cr(c) == [c EXCEPT !.pos = @ - c.x, !.x = 0]

\* tab and chr: a column beyond the last one is one of the next line.
Wrap(c) ==
    IF c.x < Width THEN c ELSE Lf([c EXCEPT !.x = @ - Width, !.pos = @ - Width])

Tab(c) ==
    LET offset == TabStop - (c.x % TabStop) IN
    Wrap([c EXCEPT !.x = @ + offset, !.pos = @ + offset])

Bs(c) == IF c.x = 0 THEN c
         ELSE [c EXCEPT !.x = @ - 1, !.pos = @ - 1, !.mem[c.pos - 1] = Blank]

Del(c) == [c EXCEPT !.mem[c.pos] = Blank]

Chr(c) == LET d == Wrap(c) IN
    [d EXCEPT !.mem[d.pos] = Mark, !.pos = @ + 1, !.x = @ + 1]

-----------------------------------------------------------------------------
CsiJ(c, part) ==
    CASE part = 0 -> EraseScreen(c, c.pos, c.screen + PageSize - c.pos)
      [] part = 1 -> EraseScreen(c, c.screen, c.pos - c.screen)
      [] part = 2 -> EraseScreen(c, c.screen, PageSize)
      [] OTHER    -> c

CsiK(c, part) ==
    CASE part = 0 -> EraseScreen(c, c.pos, Width - c.x)
      [] part = 1 -> EraseScreen(c, c.pos - c.x, c.x)
      [] part = 2 -> EraseScreen(c, c.pos - c.x, Width)
      [] OTHER    -> c

LineStart(c) == c.screen + c.y * Width

\* insertLine: all lines from the cursor's on, to the end of the memory, are
\* moved down by one, and its own is cleared.
InsertLine(c) ==
    LET start == LineStart(c) IN
    EraseScreen(Copy(c, start + Width, start, Size - Width - start), start, Width)

\* deleteLine counts in bytes with a pointer to cells: of the lines below
\* the cursor's every second one is copied to the one before it.
DeleteLine(c) ==
    LET row(a) == (a - LineStart(c)) \div Width
        copied == [c EXCEPT !.mem = [a \in DOMAIN @ |->
                      IF row(a) >= 1 /\ row(a) % 2 = 1 /\ a + Width < Size
                      THEN @[a + Width] ELSE @[a]]]
    IN  EraseScreen(copied, Size - Width, Width)

\* deleteChar and insertChar move the rest of the line, if there is one.
DeleteChar(c) ==
    LET rest == Max({Width - c.x - 1, 0}) IN
    [Copy(c, c.pos, c.pos + 1, rest) EXCEPT !.mem[c.pos + rest] = Blank]

InsertChar(c) == Del(Copy(c, c.pos + 1, c.pos, Width - c.x - 1))

\* csiL, csiM, csiP and csiAt: how many lines or characters, of n asked for.
Times(n) == Min({Max({n, 1}), Height})

Once(c, ch) ==
    CASE ch = "L" -> InsertLine(c)
      [] ch = "M" -> DeleteLine(c)
      [] ch = "P" -> DeleteChar(c)
      [] ch = "@" -> InsertChar(c)

Repeated(c, ch, n) ==
    LET after[i \in 0 .. Height] == IF i = 0 THEN c ELSE Once(after[i - 1], ch)
    IN  after[Times(n)]

-----------------------------------------------------------------------------
NoArgs == [i \in 0 .. MaxArgs - 1 |-> 0]

ConInit ==
    /\ con = [mem |-> [a \in 0 .. Size - 1 |-> Blank],
              screen |-> 0, pos |-> 0, x |-> 0, y |-> 0]
    /\ saved = [x |-> 0, y |-> 0]
    /\ mode = "NOR"
    /\ args = NoArgs /\ argc = 0

\* stateNormal: what a character does outside of a sequence.
Normal(c, ch) ==
    CASE ch = "BS"  -> Bs(c)
      [] ch = "HT"  -> Tab(c)
      [] ch = "LF"  -> Cr(Lf(c))
      [] ch = "VT"  -> Lf(c)
      [] ch = "CR"  -> Cr(c)
      [] ch = "DEL" -> Del(c)
      [] OTHER      -> Chr(c)

Save == saved' = [x |-> con.x, y |-> con.y]

WriteNormal(ch) ==
    /\ mode = "NOR"
    /\ mode' = IF ch = "ESC" THEN "ESC" ELSE "NOR"
    /\ con' = IF ch = "ESC" THEN con ELSE Normal(con, ch)
    /\ UNCHANGED <<saved, args, argc>>

\* stateEsc, which only '[' ends.
WriteEsc(ch) ==
    /\ mode = "ESC"
    /\ mode' = IF ch = "[" THEN "QUE" ELSE "ESC"
    /\ con' = CASE ch = "E" -> Cr(Lf(con))
                [] ch = "D" -> Lf(con)
                [] ch = "8" -> SetXY(con, saved.x, saved.y)
                [] OTHER    -> con
    /\ IF ch = "7" THEN Save ELSE UNCHANGED saved
    /\ UNCHANGED <<args, argc>>

-----------------------------------------------------------------------------
\* stateCsi on the last character of a sequence with parameters p.
Csi(c, ch, p) ==
    LET n    == Max({p[0], 1})
        from == [i \in 0 .. 1 |-> Max({p[i] - 1, 0})]
    IN  CASE ch = "A" -> SetXY(c, c.x, c.y - n)
          [] ch = "B" -> SetXY(c, c.x, c.y + n)
          [] ch = "C" -> SetXY(c, c.x + n, c.y)
          [] ch = "D" -> SetXY(c, c.x - n, c.y)
          [] ch = "E" -> SetXY(c, 0, c.y + n)
          [] ch = "F" -> SetXY(c, 0, c.y - n)
          [] ch = "G" -> SetXY(c, from[0], c.y)
          [] ch = "d" -> SetXY(c, c.x, from[0])
          [] ch = "H" -> SetXY(c, from[1], from[0])
          [] ch = "J" -> CsiJ(c, p[0])
          [] ch = "K" -> CsiK(c, p[0])
          [] ch \in {"L", "M", "P", "@"} -> Repeated(c, ch, p[0])
          [] ch = "u" -> SetXY(c, saved.x, saved.y)
          [] OTHER    -> c

Digit == [ch \in {"1", "2"} |-> IF ch = "1" THEN 1 ELSE 2]

\* stateArg with the parameters p, n of them complete.  When there is no
\* room for another parameter, no character ends the sequence any more.
\* Parameters that nothing will read again are 0 here; the code clears them
\* when the next sequence begins.
Arg(ch, p, n) ==
    \/ /\ n >= MaxArgs \/ (ch = ";" /\ n + 1 = MaxArgs)
       /\ mode' = "ARG" /\ args' = NoArgs /\ argc' = MaxArgs
       /\ UNCHANGED <<con, saved>>
    \/ /\ ch = ";" /\ n + 1 < MaxArgs
       /\ mode' = "ARG" /\ args' = p /\ argc' = n + 1
       /\ UNCHANGED <<con, saved>>
    \/ /\ n < MaxArgs /\ ch \in DOMAIN Digit
       /\ p[n] * 10 + Digit[ch] <= MaxArg
       /\ mode' = "ARG" /\ argc' = n
       /\ args' = [p EXCEPT ![n] = @ * 10 + Digit[ch]]
       /\ UNCHANGED <<con, saved>>
    \/ /\ n < MaxArgs /\ ch \notin DOMAIN Digit \cup {";"}
       /\ mode' = "NOR" /\ args' = NoArgs /\ argc' = 0
       /\ con' = Csi(con, ch, p)
       /\ IF ch = "s" THEN Save ELSE UNCHANGED saved

WriteArg(ch) == mode = "ARG" /\ Arg(ch, args, argc)

\* The first character of the parameters, which may be a question mark.
WriteQue(ch) ==
    /\ mode = "QUE"
    /\ IF ch = "?"
       THEN mode' = "ARG" /\ args' = NoArgs /\ argc' = 0 /\ UNCHANGED <<con, saved>>
       ELSE Arg(ch, NoArgs, 0)

ConNext == \E ch \in Chars :
    WriteNormal(ch) \/ WriteEsc(ch) \/ WriteQue(ch) \/ WriteArg(ch)

ConSpec == ConInit /\ [][ConNext]_conVars

-----------------------------------------------------------------------------
(* The cursor's address, which the code moves along with its coordinates   *)
(* in every operation, is the one they stand for; the window lies within   *)
(* the memory, with a line to spare, so that no cell outside is written.   *)
CursorSound ==
    /\ ConTypeOK
    /\ con.pos = LineStart(con) + con.x
    /\ con.screen % Width = 0
    /\ con.screen + PageSize + Width <= Size

\* What the window shows.
Page(c) == [q \in 0 .. PageSize - 1 |-> c.mem[c.screen + q]]

Scr == INSTANCE Screen WITH page <- Page(con), x <- con.x, y <- con.y

\* A character ends ESC [ M, or ESC [ n M.
EndsDelete == mode' = "NOR" /\ (WriteQue("M") \/ WriteArg("M"))

\* All that is promised of it: the cursor and the lines above its own stay.
LineDeleted ==
    /\ EndsDelete
    /\ UNCHANGED <<con.x, con.y>>
    /\ \A q \in 0 .. con.y * Width - 1 : Page(con)'[q] = Page(con)[q]

(* The window in its ring of memory is a plain page of text: scrolling     *)
(* takes the first line away and brings in a blank one, the return of the  *)
(* window to the start of the memory is not seen, and a character writes,  *)
(* clears or moves what one operation of a terminal would, and nothing on  *)
(* the rest of the page.  The exception is the end of ESC [ n M, which     *)
(* does not delete lines: see LinesDeleted.                                *)
ScreenSpec ==
    Scr!Init /\ [][Scr!Next \/ LineDeleted]_<<Page(con), con.x, con.y>>

(* ESC [ n M deletes lines, the cursor's own first (console.cpp:315, 330   *)
(* and 490).                                                               *)
LinesDeleted == [][EndsDelete => Scr!DeleteLines]_conVars
=============================================================================
