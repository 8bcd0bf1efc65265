------------------------------- MODULE Screen -------------------------------
(***************************************************************************)
(* The terminal that the console of SoulOS (kernel/console.cpp) gives to   *)
(* those who write to it: a page of cells and a cursor.  Video memory, the *)
(* window that moves through it and the parser of escape sequences are in  *)
(* Console.tla, which is shown to implement this module but for one        *)
(* operation, DeleteLines, which it is shown not to implement.             *)
(***************************************************************************)
EXTENDS Integers

CONSTANTS
    Width, Height,  \* of the page, in cells
    TabStop,        \* the distance of the tab stops
    Blank, Mark     \* the contents of a cell: a blank, a character

VARIABLES
    page,       \* the content of every cell, line by line
    x, y        \* the cursor; x = Width after the last column of a line

Cells == 0 .. Width * Height - 1
Here  == y * Width + x
Line  == y * Width .. y * Width + Width - 1

Cleared(S) == [c \in Cells |-> IF c \in S THEN Blank ELSE page[c]]

\* The page moved up by a line.
Raised == [c \in Cells |-> IF c + Width \in Cells THEN page[c + Width] ELSE Blank]

Init == page = [c \in Cells |-> Blank] /\ x = 0 /\ y = 0

\* The cursor goes to column col of the next line.
Advance(col) ==
    /\ x' = col
    /\ y' = IF y + 1 < Height THEN y + 1 ELSE y
    /\ page' = IF y + 1 < Height THEN page ELSE Raised

Type ==
    IF x < Width
    THEN /\ x' = x + 1 /\ y' = y
         /\ page' = [page EXCEPT ![Here] = Mark]
    ELSE /\ x' = 1
         /\ y' = IF y + 1 < Height THEN y + 1 ELSE y
         /\ page' = [(IF y + 1 < Height THEN page ELSE Raised)
                        EXCEPT ![y' * Width] = Mark]

LineFeed == Advance(x) \/ Advance(0)

Tabulate ==
    LET to == x + TabStop - (x % TabStop) IN
    IF to < Width THEN x' = to /\ UNCHANGED <<page, y>> ELSE Advance(to - Width)

Backspace ==
    /\ x > 0
    /\ x' = x - 1
    /\ UNCHANGED y
    /\ page' = Cleared({Here - 1})

Move ==
    /\ x' \in 0 .. Width /\ y' \in 0 .. Height - 1
    /\ UNCHANGED page

\* Parts of the page or of the line, before or after the cursor, or a cell.
Erase ==
    /\ UNCHANGED <<x, y>>
    /\ \E S \in {Cells, Line, {Here}, {c \in Cells : c < Here},
                 {c \in Cells : c >= Here}, {c \in Line : c < Here},
                 {c \in Line : c >= Here}} : page' = Cleared(S)

\* Blank lines are put in above the cursor's line.
OpenLines == \E n \in 1 .. Height :
    /\ UNCHANGED <<x, y>>
    /\ page' = [c \in Cells |-> IF c < y * Width THEN page[c]
                                ELSE IF c < (y + n) * Width THEN Blank
                                ELSE page[c - n * Width]]

\* Lines are taken out from the cursor's on, and blank ones follow the last.
DeleteLines == \E n \in 1 .. Height :
    /\ UNCHANGED <<x, y>>
    /\ page' = [c \in Cells |-> IF c < y * Width THEN page[c]
                                ELSE IF c + n * Width \in Cells THEN page[c + n * Width]
                                ELSE Blank]

\* Cells are taken out of the line, or blank ones put in, at the cursor.
ShiftLine == \E n \in 1 .. Height :
    /\ UNCHANGED <<x, y>>
    /\ \/ page' = [c \in Cells |-> IF c \notin Line \/ c < Here THEN page[c]
                                   ELSE IF c + n \in Line THEN page[c + n]
                                   ELSE Blank]
       \/ page' = [c \in Cells |-> IF c \notin Line \/ c < Here THEN page[c]
                                   ELSE IF c < Here + n THEN Blank
                                   ELSE page[c - n]]

Next ==
    \/ Move \/ Type \/ LineFeed \/ Tabulate \/ Backspace
    \/ Erase \/ OpenLines \/ DeleteLines \/ ShiftLine

Spec == Init /\ [][Next]_<<page, x, y>>
=============================================================================
