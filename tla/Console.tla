------------------------------ MODULE Console ------------------------------
(* The console device (console.cc) and ConsoleTest (progtest.cc), run with    *)
(* nachos -c.  Both interrupts of the device come ConsoleTime after they are  *)
(* scheduled, so those pending fire in that order.  The clock moves when P    *)
(* enables interrupts again, before it returns.                               *)
EXTENDS Integers, Sequences, FiniteSets

CONSTANTS
    Char,       \* the characters that are typed
    EOF,        \* the byte 255: as a char it equals the EOF of stdio.h
    QuitChar,   \* 'q'
    MaxTyped    \* bound: characters typed

VARIABLES
    keyboard,           \* typed and not read yet
    closed,             \* the input has ended
    incoming, putBusy,  \* Console's members
    pending,            \* console interrupts scheduled: "poll" and "write"
    readAvail, writeDone,   \* values of the semaphores
    echo,               \* where ConsoleTest is
    ch,                 \* its local variable
    status,             \* "off", "run", "halt", or "abort": an ASSERT failed
    screen,            \* what was written
    typed               \* history: all that was typed

device == <<keyboard, closed, incoming, putBusy, pending>>
vars == <<device, readAvail, writeDone, echo, ch, status, screen, typed>>

(* Console::Console, and ConsoleTest's semaphores.                            *)
Boot ==
    /\ keyboard = <<>> /\ closed = FALSE
    /\ incoming = EOF
    /\ putBusy = FALSE
    /\ pending = <<"poll">>
    /\ readAvail = 0 /\ writeDone = 0
    /\ echo = "read"
    /\ ch = EOF
    /\ screen = <<>> /\ typed = <<>>

Init == Boot /\ status = "run"

(* The user types, or ends the input.                                         *)
Type(c) ==
    /\ status = "run" /\ ~closed
    /\ Len(typed) < MaxTyped
    /\ keyboard' = Append(keyboard, c)
    /\ typed' = Append(typed, c)
    /\ UNCHANGED <<closed, incoming, putBusy, pending, readAvail, writeDone, echo, ch, status, screen>>

Close ==
    /\ status = "run" /\ ~closed
    /\ closed' = TRUE
    /\ UNCHANGED <<keyboard, incoming, putBusy, pending, readAvail, writeDone, echo, ch, status, screen, typed>>
-----------------------------------------------------------------------------
(* Mutant: a character is read over one that is buffered.                     *)
CheckCharAvailAlways ==
    /\ status = "run" /\ Head(pending) = "poll"
    /\ pending' = Append(Tail(pending), "poll")
    /\ IF keyboard = <<>>
       THEN /\ status' = IF closed THEN "abort" ELSE status
            /\ UNCHANGED <<keyboard, incoming, readAvail, echo>>
       ELSE /\ incoming' = Head(keyboard)
            /\ keyboard' = Tail(keyboard)
            /\ readAvail' = readAvail + 1
            /\ echo' = IF echo = "readAsleep" THEN "read" ELSE echo
            /\ UNCHANGED status
    /\ UNCHANGED <<closed, putBusy, writeDone, ch, screen, typed>>

(* CheckCharAvail and ReadAvail, readAvail->V().  At the end of the input     *)
(* PollFile says yes, and Read asserts that it got a character.               *)
CheckCharAvail ==
    /\ status = "run" /\ Head(pending) = "poll"
    /\ pending' = Append(Tail(pending), "poll")
    /\ IF incoming # EOF \/ keyboard = <<>>
       THEN /\ status' = IF incoming = EOF /\ closed THEN "abort" ELSE status
            /\ UNCHANGED <<keyboard, incoming, readAvail, echo>>
       ELSE /\ incoming' = Head(keyboard)
            /\ keyboard' = Tail(keyboard)
            /\ readAvail' = readAvail + 1
            /\ echo' = IF echo = "readAsleep" THEN "read" ELSE echo
            /\ UNCHANGED status
    /\ UNCHANGED <<closed, putBusy, writeDone, ch, screen, typed>>

(* Console::WriteDone and its handler, writeDone->V().                        *)
WriteDone ==
    /\ status = "run" /\ Head(pending) = "write"
    /\ pending' = Tail(pending)
    /\ putBusy' = FALSE
    /\ writeDone' = writeDone + 1
    /\ echo' = IF echo = "writeAsleep" THEN "write" ELSE echo
    /\ UNCHANGED <<keyboard, closed, incoming, readAvail, ch, status, screen, typed>>

(* P from the test of its loop, for either semaphore.                         *)
P(v, asleep, done) ==
    IF v = 0 THEN v' = v /\ echo' = asleep ELSE v' = v - 1 /\ echo' = done

WaitChar ==
    /\ status = "run" /\ echo = "read"
    /\ P(readAvail, "readAsleep", "got")
    /\ UNCHANGED <<device, writeDone, ch, status, screen, typed>>

(* Mutant: GetChar leaves the character in the buffer.                        *)
EchoKeeps ==
    /\ status = "run" /\ echo = "got"
    /\ ch' = incoming
    /\ screen' = Append(screen, incoming)
    /\ putBusy' = TRUE
    /\ pending' = Append(pending, "write")
    /\ P(writeDone, "writeAsleep", "wrote")
    /\ UNCHANGED <<keyboard, closed, incoming, readAvail, status, typed>>

(* GetChar, PutChar, and the first test of writeDone->P().                    *)
Echo ==
    /\ status = "run" /\ echo = "got"
    /\ ch' = incoming
    /\ incoming' = EOF
    /\ IF putBusy
       THEN status' = "abort" /\ UNCHANGED <<putBusy, pending, writeDone, echo, screen>>
       ELSE /\ screen' = Append(screen, incoming)
            /\ putBusy' = TRUE
            /\ pending' = Append(pending, "write")
            /\ P(writeDone, "writeAsleep", "wrote")
            /\ UNCHANGED status
    /\ UNCHANGED <<keyboard, closed, readAvail, typed>>

WaitWrite ==
    /\ status = "run" /\ echo = "write"
    /\ P(writeDone, "writeAsleep", "wrote")
    /\ UNCHANGED <<device, readAvail, ch, status, screen, typed>>

(* After the write: return from ConsoleTest and Halt, or the loop again.      *)
Again ==
    /\ status = "run" /\ echo = "wrote"
    /\ IF ch = QuitChar
       THEN status' = "halt" /\ UNCHANGED <<readAvail, echo>>
       ELSE P(readAvail, "readAsleep", "got") /\ UNCHANGED status
    /\ UNCHANGED <<device, writeDone, ch, screen, typed>>

Stopped == status # "run" /\ UNCHANGED vars

Next ==
    \/ \E c \in Char : Type(c)
    \/ Close \/ CheckCharAvail \/ WriteDone
    \/ WaitChar \/ Echo \/ WaitWrite \/ Again
    \/ Stopped

(* The clock runs on while the machine idles, and a ready thread runs.        *)
Fairness ==
    WF_vars(CheckCharAvail) /\ WF_vars(WriteDone) /\ WF_vars(WaitChar \/ Echo \/ WaitWrite \/ Again)

Spec == Init /\ [][Next]_vars /\ Fairness
-----------------------------------------------------------------------------
(* Properties.                                                                *)

(* How many of the first n characters of s are not the byte 255.              *)
Others(s, n) == Cardinality({i \in 1 .. n : s[i] # EOF})

(* ConsoleTest echoes what is typed in the order it is typed, up to the first *)
(* 'q': the n-th character echoed is the n-th typed.  Only the byte 255 may   *)
(* be overtaken, once read, by the character after it: to CheckCharAvail a    *)
(* buffer that holds it is empty.  PutChar's assertion never fails: only the  *)
(* end of the input ends the machine early.                                   *)
EchoInOrder ==
    /\ \A i \in DOMAIN screen : screen[i] # EOF =>
           \E j \in DOMAIN typed : typed[j] = screen[i] /\ Others(typed, j) = Others(screen, i)
    /\ Len(screen) - Others(screen, Len(screen)) <= Len(typed) - Others(typed, Len(typed))
    /\ \A i \in 1 .. Len(screen) - 1 : screen[i] # QuitChar
    /\ status = "halt" => screen # <<>> /\ screen[Len(screen)] = QuitChar
    /\ status = "abort" => closed

(* Everything typed is echoed, unless a 'q' or the end of input comes first.  *)
EchoCompletes == <>[](status # "run" \/ Len(screen) = Len(typed))
=============================================================================
