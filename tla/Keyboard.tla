------------------------------ MODULE Keyboard ------------------------------
(***************************************************************************)
(* The keyboard of SoulOS from the keys to the readers: keyboardHandler    *)
(* and keyboardRead of kernel/keyboard.cpp, over the ring buffer of        *)
(* lib/fifo.cpp, the lock of kernel/mutex.cpp and the scheduler.  The user *)
(* and the controller's bytes are the environment.                         *)
(*                                                                         *)
(* keyboardRead is a system call and runs with interrupts off, up to the   *)
(* schedule() in the lock or in taskBlock: while the task on the processor *)
(* is inside it, no byte is taken and no other task runs.                  *)
(***************************************************************************)
EXTENDS Integers, Sequences

CONSTANTS
    NrTasks,    \* tasks in taskTable, the idle task among them
    Length,     \* BUFFER_SIZE, the cells of the ring
    MaxCount,   \* bound: how many characters a call asks for
    Rows, Plain, Shifted,   \* keymap, see Keymap.tla
    TypingKeys, \* the keys the user types
    Letters,    \* those of them that caps lock is for
    ArrowKeys,  \* the keys the user types that have a prefix
    NoKey       \* no character: INV, and an empty cell

Keys == ({Plain[k] : k \in Rows} \cup {Shifted[k] : k \in Rows}) \ {NoKey}

\* The keys that type nothing by themselves.
Modifiers == {"SHIFT_L", "SHIFT_R", "CAPSLOCK", "NUMLOCK", "SCRLOCK"}

ASSUME KeyboardAssumption ==
    /\ NrTasks \in Nat \ {0} /\ MaxCount \in Nat \ {0}
    /\ Length \in Nat /\ Length >= 2
    /\ "OTHER" \notin Rows /\ DOMAIN Plain = Rows /\ DOMAIN Shifted = Rows
    /\ {"SHIFT_L", "CAPSLOCK"} \subseteq Rows
    /\ \A k \in Modifiers \cap Rows : Plain[k] = NoKey /\ Shifted[k] = NoKey
    /\ TypingKeys \cup ArrowKeys \subseteq Rows \ Modifiers
    /\ Letters \subseteq TypingKeys /\ "SLASH" \notin ArrowKeys

VARIABLES
    current, state, value, waiters, holder, repeat, inLoop, depth,
    buf,        \* fifo_t.buf
    head,       \* fifo_t.head: where the next key goes
    tail,       \* fifo_t.tail: where the oldest key is
    waiter,     \* the task that waits for a key
    want,       \* keyboardRead's count, for every task
    text,       \* the caller's buffer: what the task has read in this call
    ext, shifts, locks,     \* the state of the handler, see Keymap.tla
    line,       \* the bytes the controller holds for the processor
    held,       \* the user holds the shift key down
    capsOn,     \* the user has capitals locked
    meant       \* the character the bytes of line should type

fifoVars == <<buf, head, tail>>
readVars == <<buf, head, tail, waiter, want, text>>
codeVars == <<ext, shifts, locks>>
userVars == <<held, capsOn>>
keyVars  == <<readVars, codeVars, userVars, line, meant>>
lockVars == <<current, state, value, waiters, holder, repeat, inLoop, depth>>
vars     == <<lockVars, keyVars>>

L == INSTANCE Lock WITH MaxDepth <- 1
K == INSTANCE Keymap

Cells == 0 .. Length - 1

TypeOK ==
    /\ L!TypeOK
    /\ buf \in [Cells -> Keys \cup {NoKey}]
    /\ head \in Cells /\ tail \in Cells
    /\ waiter \in L!Threads \cup {L!None}
    /\ want \in [L!Threads -> 0 .. MaxCount]
    /\ text \in [L!Threads -> Seq(Keys)]
    /\ ext \in BOOLEAN /\ shifts \subseteq K!ShiftKeys
    /\ locks \subseteq K!LockKeys
    /\ held \in BOOLEAN /\ capsOn \in BOOLEAN
    /\ meant \in Keys \cup {NoKey}

-----------------------------------------------------------------------------
FifoNext(pos) == (pos + 1) % Length

\* Mutant: fifoPut does not make room.
NeverFull == FALSE

FifoFull  == FifoNext(head) = tail
FifoEmpty == head = tail

\* fifoPut: a full ring gives up its oldest key.
FifoPut(k) ==
    /\ tail' = IF FifoFull THEN FifoNext(tail) ELSE tail
    /\ buf' = [buf EXCEPT ![head] = k]
    /\ head' = FifoNext(head)

Init ==
    /\ L!Init
    /\ buf = [i \in Cells |-> NoKey]
    /\ head = 0
    /\ tail = 0
    /\ waiter = L!None
    /\ want = [t \in L!Threads |-> 0]
    /\ text = [t \in L!Threads |-> <<>>]
    /\ K!Init
    /\ line = <<>> /\ meant = NoKey
    /\ held = FALSE /\ capsOn = FALSE

\* current is in keyboardRead, where interrupts are off.
Reading == current # L!Boot /\ (holder = current \/ inLoop[current])

Preempt ==
    /\ ~ Reading
    /\ L!Preempt
    /\ UNCHANGED keyVars

-----------------------------------------------------------------------------
\* The user presses keys when the bytes of the last ones have been taken.
Typing(bytes, char) ==
    /\ line = <<>>
    /\ line' = bytes
    /\ meant' = char
    /\ UNCHANGED <<lockVars, readVars, codeVars>>

Tap(k) == <<K!Make(k), K!Break(k)>>

TypeShift ==
    /\ Typing(<<(IF held THEN K!Break("SHIFT_L") ELSE K!Make("SHIFT_L"))>>, NoKey)
    /\ held' = ~ held /\ UNCHANGED capsOn

TypeCaps ==
    /\ Typing(Tap("CAPSLOCK"), NoKey)
    /\ capsOn' = ~ capsOn /\ UNCHANGED held

\* What the user means by a key: caps lock is for the letters.
Meaning(k) == IF held # (capsOn /\ k \in Letters) THEN Shifted[k] ELSE Plain[k]

TypeKey(k) ==
    /\ Typing(Tap(k), Meaning(k))
    /\ UNCHANGED userVars

\* A key of the middle block: its codes have the prefix, and with shift held
\* down the keyboard pretends that shift goes up for the time being.
TypeArrow(k) ==
    /\ Typing(IF held
              THEN <<K!Prefix, K!Break("SHIFT_L"), K!Prefix, K!Make(k),
                     K!Prefix, K!Break(k), K!Prefix, K!Make("SHIFT_L")>>
              ELSE <<K!Prefix, K!Make(k), K!Prefix, K!Break(k)>>, Shifted[k])
    /\ UNCHANGED userVars

\* A key that keymap has no row for.
TypeOther ==
    /\ Typing(<<K!Prefix, K!Make("OTHER"), K!Prefix, K!Break("OTHER")>>, NoKey)
    /\ UNCHANGED userVars

\* Mutant: the handler forgets to reset the waiter.
EnterKept(char) ==
    /\ FifoPut(char)
    /\ IF waiter = L!None THEN UNCHANGED state
       ELSE state' = [state EXCEPT ![waiter] = "READY"]
    /\ UNCHANGED waiter

\* keyboardHandler with a character: the task that waits is woken.
Enter(char) ==
    /\ FifoPut(char)
    /\ IF waiter = L!None THEN UNCHANGED state
       ELSE state' = [state EXCEPT ![waiter] = "READY"]
    /\ waiter' = L!None

\* keyboardHandler with a make code, and what it does with the character.
HandleMake(k) ==
    /\ K!Press(k)
    /\ IF K!Char(k) = NoKey THEN UNCHANGED <<fifoVars, waiter, state, meant>>
       ELSE Enter(K!Char(k)) /\ meant' = NoKey

HandleOther(byte) ==
    /\ IF byte = K!Prefix THEN K!Extend
       ELSE IF byte[1] \notin Rows THEN K!Ignore
       ELSE byte[2] = "break" /\ K!Release(byte[1])
    /\ UNCHANGED <<fifoVars, waiter, state, meant>>

Handle ==
    /\ ~ Reading
    /\ line # <<>>
    /\ line' = Tail(line)
    /\ \/ HandleOther(Head(line))
       \/ \E k \in Rows : Head(line) = K!Make(k) /\ HandleMake(k)
    /\ UNCHANGED <<current, value, waiters, holder, repeat, inLoop, depth>>
    /\ UNCHANGED <<want, text, userVars>>

-----------------------------------------------------------------------------
\* keyboardRead is called, and takes the lock or waits for it.
Call(count) ==
    /\ ~ Reading
    /\ L!Acquire
    /\ want' = [want EXCEPT ![current] = count]
    /\ UNCHANGED <<fifoVars, waiter, text, codeVars, userVars, line, meant>>

CallAgain == L!AcquireAgain /\ UNCHANGED keyVars

\* The task inside the loop of keyboardRead wants another character.
Wanting ==
    /\ current # L!Boot
    /\ holder = current
    /\ Len(text[current]) < want[current]

Get ==
    /\ Wanting
    /\ ~ FifoEmpty
    /\ text' = [text EXCEPT ![current] = Append(@, buf[tail])]
    /\ tail' = FifoNext(tail)
    /\ UNCHANGED <<lockVars, buf, head, waiter, want, codeVars, userVars, line, meant>>

Wait ==
    /\ Wanting
    /\ FifoEmpty
    /\ waiter' = current
    /\ L!Block
    /\ UNCHANGED <<fifoVars, want, text, codeVars, userVars, line, meant>>

\* Mutant: the call gives up the lock after the first character.
ReturnEarly ==
    /\ Reading /\ ~ inLoop[current]
    /\ text[current] # <<>>
    /\ L!Release
    /\ UNCHANGED keyVars

Return ==
    /\ Reading /\ ~ inLoop[current]
    /\ ~ Wanting
    /\ L!Release
    /\ want' = [want EXCEPT ![current] = 0]
    /\ text' = [text EXCEPT ![current] = <<>>]
    /\ UNCHANGED <<fifoVars, waiter, codeVars, userVars, line, meant>>

Next ==
    \/ Preempt
    \/ TypeShift
    \/ TypeCaps
    \/ \E k \in TypingKeys : TypeKey(k)
    \/ \E k \in ArrowKeys : TypeArrow(k)
    \/ TypeOther
    \/ Handle
    \/ \E count \in 1 .. MaxCount : Call(count)
    \/ CallAgain
    \/ Get
    \/ Wait
    \/ Return

Spec == Init /\ [][Next]_vars

-----------------------------------------------------------------------------
\* A task has read a part of what it wants.
Partial(t) == text[t] # <<>> /\ Len(text[t]) < want[t]

(* No key waits while a reader sleeps: the task that sleeps for a key is   *)
(* the one the handler will wake, it holds the lock, and there is no key.  *)
(* And the characters of one call are consecutive: across any number of    *)
(* waits in its middle, no other task reads (keyboardRead).                *)
ReadersSound ==
    /\ TypeOK
    /\ \A t \in L!Threads : waiter = t <=> holder = t /\ state[t] = "BLOCKED"
    /\ waiter # L!None => FifoEmpty
    /\ \A t \in L!Threads : Partial(t) =>
          holder = t /\ \A u \in L!Threads : Partial(u) => u = t

\* Where the code is known to differ from what the user means: with capitals
\* locked it also swaps the characters of the keys that are no letters, since
\* the test of keyboard.cpp:257 holds for every key, and a key of the keypad,
\* whose other character is INV, is lost.
Swapped(k) == capsOn /\ k \in TypingKeys \ Letters /\ Plain[k] # Shifted[k]

LockedSymbol ==
    /\ line # <<>> /\ ~ ext
    /\ \E k \in TypingKeys : Swapped(k) /\ Head(line) \in {K!Make(k), K!Break(k)}

(* But for the symbols under caps lock, what is typed is what the user     *)
(* meant: a key enters the ring with the character it has under the shift  *)
(* key (a letter under caps lock too) of the moment it was pressed, and    *)
(* when its bytes have been taken it has been entered.                     *)
TypedAsMeant ==
    [][~ LockedSymbol => /\ head' # head => buf'[head] = meant
                         /\ line # <<>> /\ line' = <<>> => meant' = NoKey]_vars

(* The keyboard keeps to the rules of the lock and of the scheduler.       *)
LockSpec == L!Spec

Filled == (head - tail) % Length

Contents == [i \in 1 .. Filled |-> buf[(tail + i - 1) % Length]]

T == INSTANCE TypeAhead WITH Readers <- L!Threads, Limit <- Length - 1,
                             queue <- Contents

(* No key is lost, doubled or out of order, but for the oldest ones that a *)
(* full ring gives up.                                                     *)
TypeAheadSpec == T!Spec
=============================================================================
