---------------------------- MODULE DevicesProofs ---------------------------
(* Proofs about the console device and the test that echoes through it, for   *)
(* any characters and any number of them, and about the elevators, for any    *)
(* number of them, of floors and of calls.                                    *)
EXTENDS Devices, TLAPS, FiniteSetTheorems, SequenceTheorems

-----------------------------------------------------------------------------
(* Counting the characters that are not the byte 255.                         *)

Others(s, n) == Cardinality({i \in 1 .. n : s[i] # EOF})

(* They are those that Console counts.                                        *)
LEMMA ConOthers == ASSUME NEW s, NEW n PROVE Con!Others(s, n) = Others(s, n)
BY Zenon DEF Con!Others, Con!Cardinality, Cardinality, Others

(* Others counts up to n.                                                     *)
LEMMA OthersType == ASSUME NEW s, NEW n \in Nat PROVE Others(s, n) \in Nat
<1>1. IsFiniteSet(1 .. n)
  BY FS_Interval
<1>2. {i \in 1 .. n : s[i] # EOF} \in SUBSET (1 .. n)
  OBVIOUS
<1>3. IsFiniteSet({i \in 1 .. n : s[i] # EOF})
  BY <1>1, <1>2, FS_Subset
<1>4. QED BY <1>3, FS_CardinalityType DEF Others

(* One more character.                                                        *)
LEMMA OthersNext ==
    ASSUME NEW s, NEW n \in Nat
    PROVE  Others(s, n + 1) = IF s[n + 1] # EOF THEN Others(s, n) + 1 ELSE Others(s, n)
<1> DEFINE R(k) == {i \in 1 .. k : s[i] # EOF}
<1>1. IsFiniteSet(R(n)) /\ n + 1 \notin R(n)
  <2>1. IsFiniteSet(1 .. n)
    BY FS_Interval
  <2>2. R(n) \in SUBSET (1 .. n)
    BY Zenon
  <2>3. QED BY <2>1, <2>2, FS_Subset
<1>2. CASE s[n + 1] # EOF
  <2>1. R(n + 1) = R(n) \cup {n + 1}
    BY <1>2
  <2>2. Cardinality(R(n) \cup {n + 1}) = Cardinality(R(n)) + 1
    BY Zenon, <1>1, FS_AddElement
  <2>3. QED BY <1>2, <2>1, <2>2 DEF Others
<1>3. CASE s[n + 1] = EOF
  <2>1. R(n + 1) = R(n)
    BY <1>3
  <2>2. QED BY Zenon, <1>3, <2>1 DEF Others
<1>4. QED BY Zenon, <1>2, <1>3

(* The count depends on the first n characters only.                          *)
LEMMA OthersSame ==
    ASSUME NEW s, NEW t, NEW n \in Nat, \A i \in 1 .. n : s[i] = t[i]
    PROVE  Others(s, n) = Others(t, n)
<1>1. {i \in 1 .. n : s[i] # EOF} = {i \in 1 .. n : t[i] # EOF}
  BY Zenon
<1>2. QED BY <1>1 DEF Others

(* From n to m there are at most m - n more.                                  *)
LEMMA OthersGrow ==
    ASSUME NEW s, NEW m \in Nat, NEW n \in Nat, n <= m
    PROVE  Others(s, m) <= Others(s, n) + (m - n)
<1> DEFINE R(k) == {i \in 1 .. k : s[i] # EOF}
<1>1. IsFiniteSet(1 .. n) /\ IsFiniteSet(n + 1 .. m) /\ Cardinality(n + 1 .. m) = m - n
  <2>1. n + 1 \in Int /\ m \in Int
    OBVIOUS
  <2>2. IsFiniteSet(1 .. n)
    BY FS_Interval
  <2>3. IsFiniteSet(n + 1 .. m) /\ Cardinality(n + 1 .. m) = IF n + 1 > m THEN 0 ELSE m - (n + 1) + 1
    BY Zenon, <2>1, FS_Interval
  <2>4. QED BY <2>2, <2>3
<1>2. R(n) \in SUBSET (1 .. n)
  BY Zenon
<1>3. IsFiniteSet(R(n))
  BY Zenon, <1>1, <1>2, FS_Subset
<1>4. /\ IsFiniteSet(R(n) \cup (n + 1 .. m))
      /\ Cardinality(R(n) \cup (n + 1 .. m)) =
             Cardinality(R(n)) + Cardinality(n + 1 .. m) - Cardinality(R(n) \cap (n + 1 .. m))
  BY Zenon, <1>1, <1>3, FS_Union
<1>5. Cardinality(R(n) \cap (n + 1 .. m)) = 0
  <2>1. R(n) \cap (n + 1 .. m) = {}
    OBVIOUS
  <2>2. QED BY Zenon, <2>1, FS_EmptySet
<1>6. R(m) \in SUBSET (R(n) \cup (n + 1 .. m))
  OBVIOUS
<1>7. Cardinality(R(m)) <= Cardinality(R(n) \cup (n + 1 .. m))
  BY Zenon, <1>4, <1>6, FS_Subset
<1>8. Cardinality(R(n)) \in Nat /\ Cardinality(R(m)) \in Nat
  BY Zenon, OthersType DEF Others
<1>9. QED BY <1>1, <1>4, <1>5, <1>7, <1>8 DEF Others

-----------------------------------------------------------------------------
(* The inductive invariant.                                                   *)

Byte == Char \cup {EOF}

TypeOK ==
    /\ keyboard \in Seq(Char) /\ typed \in Seq(Char) /\ screen \in Seq(Byte)
    /\ incoming \in Byte /\ ch \in Byte
    /\ readAvail \in Nat /\ writeDone \in Nat
    /\ echo \in {"read", "readAsleep", "got", "writeAsleep", "write", "wrote"}

(* How many characters Console has read.                                      *)
Taken == Len(typed) - Len(keyboard)
Got == IF echo = "got" THEN 1 ELSE 0
Due == readAvail + Got
Held == IF incoming # EOF THEN 1 ELSE 0

(* The keyboard holds the end of what was typed, and the buffer the last      *)
(* character read, unless it was taken or is the byte 255.                    *)
Buffered ==
    /\ Taken \in Nat
    /\ \A i \in 1 .. Len(keyboard) : keyboard[i] = typed[Taken + i]
    /\ incoming # EOF => Taken > 0 /\ incoming = typed[Taken]

(* Every character read is announced once, and is written, announced, or      *)
(* about to be written.                                                       *)
Announced ==
    /\ Taken = Len(screen) + Due
    /\ Held <= Due

(* What was written, and what is in the buffer, is what was read.             *)
Ordered ==
    /\ Others(screen, Len(screen)) + Held = Others(typed, Taken)
    /\ \A i \in DOMAIN screen : screen[i] # EOF =>
           \E j \in DOMAIN typed : typed[j] = screen[i] /\ Others(typed, j) = Others(screen, i)

(* A write is pending exactly while the device is busy and ConsoleTest sleeps *)
(* for it.                                                                    *)
Writing ==
    /\ putBusy <=> echo = "writeAsleep"
    /\ IF putBusy THEN conPending = <<"poll", "write">> \/ conPending = <<"write", "poll">> ELSE conPending = <<"poll">>
    /\ writeDone = IF echo = "write" THEN 1 ELSE 0

(* ConsoleTest goes on after what it wrote unless that was a 'q'.             *)
Wrote == {"writeAsleep", "write", "wrote"}
Quitting ==
    /\ \A i \in 1 .. Len(screen) - 1 : screen[i] # QuitChar
    /\ echo \in Wrote => screen # <<>> /\ screen[Len(screen)] = ch
    /\ echo \notin Wrote => \A i \in DOMAIN screen : screen[i] # QuitChar
    /\ conStatus = "halt" => screen # <<>> /\ screen[Len(screen)] = QuitChar
    /\ conStatus = "abort" => closed

ConsoleInv == TypeOK /\ Buffered /\ Announced /\ Ordered /\ Writing /\ Quitting

(* The machine starts with nothing typed and nothing written.                 *)
LEMMA ConsoleInit == ASSUME Con!Boot, conStatus \in {"off", "run"} PROVE ConsoleInv
<1> USE DEF Con!Boot
<1>1. TypeOK
  BY DEF TypeOK, Byte
<1>2. Len(screen) = 0 /\ Taken = 0 /\ Held = 0 /\ Due = 0
  BY DEF Taken, Held, Due, Got
<1>3. Buffered
  BY <1>2 DEF Buffered
<1>4. Announced
  BY <1>2 DEF Announced
<1>5. Ordered
  <2>1. Others(screen, 0) = Others(typed, 0)
    BY Zenon, OthersSame
  <2>2. Others(screen, 0) \in Nat
    BY Zenon, OthersType
  <2>3. DOMAIN screen = {}
    OBVIOUS
  <2>4. QED BY <1>2, <2>1, <2>2, <2>3 DEF Ordered
<1>6. Writing
  BY DEF Writing
<1>7. Quitting
  BY DEF Quitting, Wrote
<1>8. QED BY <1>1, <1>3, <1>4, <1>5, <1>6, <1>7 DEF ConsoleInv

(* Typing a character changes nothing that was counted.                       *)
LEMMA TypeKeeps == ASSUME ConsoleInv, NEW c \in Char, Con!Type(c) PROVE ConsoleInv'
<1> USE DEF ConsoleInv
<1>0. /\ keyboard' = Append(keyboard, c) /\ typed' = Append(typed, c)
      /\ incoming' = incoming /\ readAvail' = readAvail /\ writeDone' = writeDone
      /\ echo' = echo /\ ch' = ch /\ screen' = screen
  BY Zenon DEF Con!Type
<1>1. TypeOK'
  BY <1>0 DEF TypeOK
<1>2. /\ Len(typed') = Len(typed) + 1 /\ Len(keyboard') = Len(keyboard) + 1
      /\ Len(typed) \in Nat /\ Len(keyboard) \in Nat
      /\ \A i \in 1 .. Len(typed) : typed'[i] = typed[i]
      /\ typed'[Len(typed) + 1] = c /\ keyboard'[Len(keyboard) + 1] = c
      /\ \A i \in 1 .. Len(keyboard) : keyboard'[i] = keyboard[i]
  BY <1>0 DEF TypeOK
<1>3. /\ Taken' = Taken /\ Held' = Held /\ Due' = Due
      /\ Taken \in 0 .. Len(typed)
  BY <1>0, <1>2 DEF Taken, Held, Due, Got, Buffered
<1>4. Buffered'
  <2>1. \A i \in 1 .. Len(keyboard') : keyboard'[i] = typed'[Taken + i]
    <3> SUFFICES ASSUME NEW i \in 1 .. Len(keyboard') PROVE keyboard'[i] = typed'[Taken + i]
      BY Zenon
    <3>1. CASE i \in 1 .. Len(keyboard)
      <4>1. Taken + i \in 1 .. Len(typed)
        BY <1>2, <1>3, <3>1 DEF Taken
      <4>2. QED BY Zenon, <1>2, <3>1, <4>1 DEF Buffered
    <3>2. CASE i = Len(keyboard) + 1
      BY <1>2, <1>3, <3>2 DEF Taken
    <3>3. QED BY <1>2, <3>1, <3>2
  <2>2. incoming # EOF => Taken > 0 /\ incoming = typed'[Taken]
    BY <1>2, <1>3 DEF Buffered
  <2>3. QED BY Zenon, <1>0, <1>3, <2>1, <2>2 DEF Buffered
<1>5. Announced'
  BY Zenon, <1>0, <1>3 DEF Announced
<1>6. Ordered'
  <2>1. \A n \in 0 .. Len(typed) : Others(typed', n) = Others(typed, n)
    <3> SUFFICES ASSUME NEW n \in 0 .. Len(typed) PROVE Others(typed', n) = Others(typed, n)
      BY Zenon
    <3>1. n \in Nat /\ \A i \in 1 .. n : typed'[i] = typed[i]
      BY <1>2
    <3>2. QED BY <3>1, OthersSame
  <2>2. DOMAIN typed = 1 .. Len(typed) /\ DOMAIN typed \subseteq DOMAIN typed'
    BY <1>1, <1>2 DEF TypeOK
  <2>3. screen' = screen
    BY Zenon, <1>0
  <2>4. Others(screen, Len(screen)) + Held = Others(typed', Taken)
    BY Zenon, <1>3, <2>1 DEF Ordered
  <2>5. ASSUME NEW i \in DOMAIN screen, screen[i] # EOF
        PROVE  \E j \in DOMAIN typed' : typed'[j] = screen[i] /\ Others(typed', j) = Others(screen, i)
    <3>1. PICK j \in DOMAIN typed : typed[j] = screen[i] /\ Others(typed, j) = Others(screen, i)
      BY Zenon, <2>5 DEF Ordered
    <3>2. j \in DOMAIN typed' /\ typed'[j] = typed[j] /\ Others(typed', j) = Others(typed, j)
      BY <1>2, <2>1, <2>2
    <3>3. QED BY Zenon, <3>1, <3>2
  <2>6. QED BY <1>3, <2>3, <2>4, <2>5 DEF Ordered
<1>7. Writing' /\ Quitting'
  BY Zenon DEF Writing, Quitting, Con!Type
<1>8. QED BY Zenon, <1>1, <1>4, <1>5, <1>6, <1>7

(* What does not read, type or write keeps the counts.                        *)
LEMMA CountsKept ==
    ASSUME ConsoleInv, keyboard' = keyboard, typed' = typed, screen' = screen, incoming' = incoming,
           Due' = Due
    PROVE  Buffered' /\ Announced' /\ Ordered'
<1>1. Taken' = Taken /\ Held' = Held
  BY Zenon DEF Taken, Held
<1>2. Buffered'
  BY Zenon, <1>1 DEF ConsoleInv, Buffered
<1>3. Announced'
  BY Zenon, <1>1 DEF ConsoleInv, Announced
<1>4. Ordered'
  BY Zenon, <1>1 DEF ConsoleInv, Ordered
<1>5. QED BY Zenon, <1>2, <1>3, <1>4

(* The end of the input, and the interrupts and waits that move no character. *)
LEMMA CloseKeeps == ASSUME ConsoleInv, Con!Close PROVE ConsoleInv'
<1>1. /\ keyboard' = keyboard /\ typed' = typed /\ screen' = screen /\ incoming' = incoming
      /\ readAvail' = readAvail /\ writeDone' = writeDone /\ echo' = echo /\ ch' = ch
  BY Zenon DEF Con!Close
<1>2. TypeOK'
  BY Zenon, <1>1 DEF ConsoleInv, TypeOK
<1>3. Due' = Due
  BY Zenon, <1>1 DEF Due, Got
<1>4. Writing'
  BY Zenon DEF ConsoleInv, Writing, Con!Close
<1>5. Quitting'
  BY <1>1, Zenon DEF ConsoleInv, Quitting, Con!Close
<1>6. QED BY <1>1, <1>2, <1>3, <1>4, <1>5, CountsKept DEF ConsoleInv

LEMMA WriteDoneKeeps == ASSUME ConsoleInv, Con!WriteDone PROVE ConsoleInv'
<1>1. /\ keyboard' = keyboard /\ typed' = typed /\ screen' = screen /\ incoming' = incoming
      /\ readAvail' = readAvail /\ ch' = ch /\ closed' = closed /\ conStatus' = conStatus /\ conStatus = "run"
      /\ Head(conPending) = "write" /\ conPending' = Tail(conPending) /\ putBusy' = FALSE
      /\ writeDone' = writeDone + 1
      /\ echo' = IF echo = "writeAsleep" THEN "write" ELSE echo
  BY Zenon DEF Con!WriteDone
<1>2. echo = "writeAsleep" /\ writeDone = 0 /\ conPending = <<"write", "poll">>
  <2>1. CASE conPending = <<"poll">>
    BY <1>1, <2>1
  <2>2. CASE conPending = <<"poll", "write">>
    BY <1>1, <2>2
  <2>3. CASE conPending = <<"write", "poll">> /\ putBusy
    BY Zenon, <2>3 DEF ConsoleInv, Writing
  <2>4. QED BY <2>1, <2>2, <2>3, Zenon DEF ConsoleInv, Writing
<1>3. TypeOK'
  BY <1>1, <1>2 DEF ConsoleInv, TypeOK
<1>4. Due' = Due
  BY Zenon, <1>1, <1>2 DEF Due, Got
<1>5. Writing'
  <2>1. conPending' = <<"poll">>
    BY <1>1, <1>2
  <2>2. QED BY <1>1, <1>2, <2>1 DEF Writing
<1>6. Quitting'
  BY <1>1, <1>2, Zenon DEF ConsoleInv, Quitting, Wrote
<1>7. QED BY <1>1, <1>3, <1>4, <1>5, <1>6, CountsKept DEF ConsoleInv

LEMMA WaitCharKeeps == ASSUME ConsoleInv, Con!WaitChar PROVE ConsoleInv'
<1>1. /\ keyboard' = keyboard /\ typed' = typed /\ screen' = screen /\ incoming' = incoming
      /\ writeDone' = writeDone /\ ch' = ch /\ closed' = closed /\ conStatus' = conStatus /\ conStatus = "run"
      /\ conPending' = conPending /\ putBusy' = putBusy /\ echo = "read"
      /\ IF readAvail = 0 THEN readAvail' = readAvail /\ echo' = "readAsleep"
         ELSE readAvail' = readAvail - 1 /\ echo' = "got"
  BY Zenon DEF Con!WaitChar, Con!P, Con!device
<1>2. TypeOK'
  BY <1>1 DEF ConsoleInv, TypeOK
<1>3. Due' = Due
  BY <1>1 DEF Due, Got, ConsoleInv, TypeOK
<1>4. echo' \in {"readAsleep", "got"}
  BY Zenon, <1>1
<1>5. Writing'
  BY Zenon, <1>1, <1>4 DEF ConsoleInv, Writing
<1>6. Quitting'
  BY <1>1, <1>4, Zenon DEF ConsoleInv, Quitting, Wrote
<1>7. QED BY <1>1, <1>2, <1>3, <1>5, <1>6, CountsKept DEF ConsoleInv

LEMMA WaitWriteKeeps == ASSUME ConsoleInv, Con!WaitWrite PROVE ConsoleInv'
<1>1. /\ keyboard' = keyboard /\ typed' = typed /\ screen' = screen /\ incoming' = incoming
      /\ readAvail' = readAvail /\ ch' = ch /\ closed' = closed /\ conStatus' = conStatus /\ conStatus = "run"
      /\ conPending' = conPending /\ putBusy' = putBusy /\ echo = "write"
      /\ IF writeDone = 0 THEN writeDone' = writeDone /\ echo' = "writeAsleep"
         ELSE writeDone' = writeDone - 1 /\ echo' = "wrote"
  BY Zenon DEF Con!WaitWrite, Con!P, Con!device
<1>2. writeDone = 1
  BY Zenon, <1>1 DEF ConsoleInv, Writing
<1>3. writeDone' = 0 /\ echo' = "wrote"
  BY <1>1, <1>2
<1>4. TypeOK'
  BY Zenon, <1>1, <1>3 DEF ConsoleInv, TypeOK
<1>5. Due' = Due
  BY Zenon, <1>1, <1>3 DEF Due, Got
<1>6. Writing'
  BY Zenon, <1>1, <1>3 DEF ConsoleInv, Writing
<1>7. Quitting'
  BY <1>1, <1>3, Zenon DEF ConsoleInv, Quitting, Wrote
<1>8. QED BY <1>1, <1>4, <1>5, <1>6, <1>7, CountsKept DEF ConsoleInv

(* ConsoleTest loops, or ends after a 'q'.                                    *)
LEMMA AgainKeeps == ASSUME ConsoleInv, Con!Again PROVE ConsoleInv'
<1>1. /\ keyboard' = keyboard /\ typed' = typed /\ screen' = screen /\ incoming' = incoming
      /\ writeDone' = writeDone /\ ch' = ch /\ closed' = closed /\ conStatus = "run"
      /\ conPending' = conPending /\ putBusy' = putBusy /\ echo = "wrote"
  BY Zenon DEF Con!Again, Con!device
<1>2. CASE ch = QuitChar
  <2>1. conStatus' = "halt" /\ readAvail' = readAvail /\ echo' = echo
    BY <1>2, Zenon DEF Con!Again
  <2>2. TypeOK'
    BY Zenon, <1>1, <2>1 DEF ConsoleInv, TypeOK
  <2>3. Due' = Due
    BY Zenon, <2>1 DEF Due, Got
  <2>4. Writing'
    BY Zenon, <1>1, <2>1 DEF ConsoleInv, Writing
  <2>5. Quitting'
    BY <1>1, <1>2, <2>1 DEF ConsoleInv, Quitting, Wrote
  <2>6. QED BY <1>1, <2>2, <2>3, <2>4, <2>5, CountsKept DEF ConsoleInv
<1>3. CASE ch # QuitChar
  <2>1. /\ conStatus' = conStatus
        /\ IF readAvail = 0 THEN readAvail' = readAvail /\ echo' = "readAsleep"
           ELSE readAvail' = readAvail - 1 /\ echo' = "got"
    BY <1>3, Zenon DEF Con!Again, Con!P
  <2>2. TypeOK'
    BY <1>1, <2>1 DEF ConsoleInv, TypeOK
  <2>3. Due' = Due
    BY <1>1, <2>1 DEF Due, Got, ConsoleInv, TypeOK
  <2>4. echo' \in {"readAsleep", "got"}
    BY Zenon, <2>1
  <2>5. Writing'
    BY Zenon, <1>1, <2>4 DEF ConsoleInv, Writing
  <2>6. \A i \in DOMAIN screen : screen[i] # QuitChar
    <3>1. /\ screen[Len(screen)] # QuitChar /\ \A i \in 1 .. Len(screen) - 1 : screen[i] # QuitChar
          /\ screen \in Seq(Byte)
      BY Zenon, <1>1, <1>3 DEF ConsoleInv, Quitting, Wrote, TypeOK
    <3>2. QED BY <3>1
  <2>7. Quitting'
    BY Zenon, <1>1, <2>1, <2>4, <2>6 DEF ConsoleInv, Quitting, Wrote
  <2>8. QED BY <1>1, <2>2, <2>3, <2>5, <2>7, CountsKept DEF ConsoleInv
<1>4. QED BY Zenon, <1>2, <1>3

(* Append to a sequence of one element.                                       *)
LEMMA AppendOne == ASSUME NEW x, NEW y PROVE Append(<<x>>, y) = <<x, y>>
<1> DEFINE s == <<x>>
           t == <<x, y>>
<1>1. s \in Seq({x, y}) /\ t \in Seq({x, y}) /\ Append(s, y) \in Seq({x, y})
  OBVIOUS
<1>2. Len(s) = 1 /\ Len(t) = 2 /\ Len(Append(s, y)) = 2
  BY <1>1
<1>3. \A i \in 1 .. 2 : Append(s, y)[i] = t[i]
  BY <1>1, <1>2
<1>4. QED BY Zenon, <1>1, <1>2, <1>3, SeqEqual

(* A poll goes behind the write that is pending.                              *)
LEMMA PendingKept ==
    ASSUME ConsoleInv, Head(conPending) = "poll", conPending' = Append(Tail(conPending), "poll"), putBusy' = putBusy,
           writeDone' = writeDone, echo' = echo \/ (echo = "readAsleep" /\ echo' = "read")
    PROVE  Writing'
<1>1. CASE putBusy
  <2>1. conPending = <<"poll", "write">> \/ conPending = <<"write", "poll">>
    BY <1>1, Zenon DEF ConsoleInv, Writing
  <2>2. conPending = <<"poll", "write">>
    <3>1. CASE conPending = <<"write", "poll">>
      BY <3>1
    <3>2. QED BY <2>1, <3>1
  <2>3. conPending' = <<"write", "poll">>
    <3>1. Tail(conPending) = <<"write">>
      BY <2>2
    <3>2. QED BY Zenon, <3>1, AppendOne
  <2>4. echo = "writeAsleep" /\ writeDone = 0
    BY <1>1 DEF ConsoleInv, Writing
  <2>5. QED BY Zenon, <1>1, <2>3, <2>4 DEF Writing
<1>2. CASE ~putBusy
  <2>1. conPending = <<"poll">>
    BY <1>2, Zenon DEF ConsoleInv, Writing
  <2>2. conPending' = <<"poll">>
    BY <2>1
  <2>3. echo' # "writeAsleep" /\ writeDone = IF echo' = "write" THEN 1 ELSE 0
    BY Zenon, <1>2 DEF ConsoleInv, Writing
  <2>4. QED BY Zenon, <1>2, <2>2, <2>3 DEF Writing
<1>3. QED BY Zenon, <1>1, <1>2

(* A poll that reads nothing: the buffer is full, nothing is typed, or the    *)
(* input has ended, which fails Read's assertion.                             *)
LEMMA PollKeeps ==
    ASSUME ConsoleInv, Con!CheckCharAvail, incoming # EOF \/ keyboard = <<>>
    PROVE  ConsoleInv'
<1>1. /\ keyboard' = keyboard /\ typed' = typed /\ screen' = screen /\ incoming' = incoming
      /\ readAvail' = readAvail /\ writeDone' = writeDone /\ echo' = echo /\ ch' = ch
      /\ closed' = closed /\ putBusy' = putBusy
      /\ Head(conPending) = "poll" /\ conPending' = Append(Tail(conPending), "poll") /\ conStatus = "run"
      /\ conStatus' = IF incoming = EOF /\ closed THEN "abort" ELSE conStatus
  BY Zenon DEF Con!CheckCharAvail
<1>2. TypeOK'
  BY Zenon, <1>1 DEF ConsoleInv, TypeOK
<1>3. Due' = Due
  BY Zenon, <1>1 DEF Due, Got
<1>4. Quitting'
  <2>1. conStatus' = "abort" => closed
    BY Zenon, <1>1
  <2>2. conStatus' # "halt"
    BY Zenon, <1>1
  <2>3. QED BY <1>1, <2>1, <2>2, Zenon DEF ConsoleInv, Quitting, Wrote
<1>5. Writing'
  BY <1>1, PendingKept, Zenon
<1>6. QED BY <1>1, <1>2, <1>3, <1>4, <1>5, CountsKept DEF ConsoleInv

(* A poll that reads a character into the empty buffer.                       *)
LEMMA ReadKeeps ==
    ASSUME ConsoleInv, Con!CheckCharAvail, ~(incoming # EOF \/ keyboard = <<>>)
    PROVE  ConsoleInv'
<1>1. /\ typed' = typed /\ screen' = screen /\ writeDone' = writeDone /\ ch' = ch
      /\ closed' = closed /\ putBusy' = putBusy /\ conStatus' = conStatus
      /\ Head(conPending) = "poll" /\ conPending' = Append(Tail(conPending), "poll") /\ conStatus = "run"
      /\ incoming = EOF /\ incoming' = Head(keyboard) /\ keyboard' = Tail(keyboard) /\ keyboard # <<>>
      /\ readAvail' = readAvail + 1
      /\ echo' = IF echo = "readAsleep" THEN "read" ELSE echo
  BY Zenon DEF Con!CheckCharAvail
<1>2. TypeOK'
  BY <1>1 DEF ConsoleInv, TypeOK, Byte
<1>3. echo' = echo \/ (echo = "readAsleep" /\ echo' = "read")
  BY <1>1, Zenon
<1>4. Writing'
  BY <1>1, <1>3, PendingKept, Zenon
<1>5. Quitting'
  BY <1>1, <1>3, Zenon DEF ConsoleInv, Quitting, Wrote
<1>6. /\ Len(keyboard) \in Nat /\ Len(keyboard) > 0 /\ Len(keyboard') = Len(keyboard) - 1
      /\ \A i \in 1 .. Len(keyboard) - 1 : keyboard'[i] = keyboard[i + 1]
      /\ incoming' = keyboard[1] /\ Len(typed) \in Nat
  BY <1>1 DEF ConsoleInv, TypeOK
<1>7. /\ Taken' = Taken + 1 /\ Taken \in Nat /\ Held = 0 /\ Due' = Due + 1 /\ Due \in Nat
  BY <1>1, <1>6 DEF ConsoleInv, TypeOK, Buffered, Taken, Held, Due, Got
<1>8. incoming' = typed[Taken + 1]
  BY <1>6 DEF ConsoleInv, Buffered
<1>9. Buffered'
  <2>1. \A i \in 1 .. Len(keyboard') : keyboard'[i] = typed[Taken' + i]
    <3> SUFFICES ASSUME NEW i \in 1 .. Len(keyboard') PROVE keyboard'[i] = typed[Taken' + i]
      BY Zenon
    <3>1. keyboard'[i] = keyboard[i + 1] /\ i + 1 \in 1 .. Len(keyboard)
      BY <1>6
    <3>2. keyboard[i + 1] = typed[Taken + (i + 1)]
      BY Zenon, <3>1 DEF ConsoleInv, Buffered
    <3>3. Taken + (i + 1) = Taken' + i
      BY <1>7
    <3>4. QED BY Zenon, <3>1, <3>2, <3>3
  <2>2. QED BY <1>1, <1>7, <1>8, <2>1 DEF Buffered
<1>10. Held' \in {0, 1} /\ Len(screen) \in Nat
  BY DEF Held, ConsoleInv, TypeOK
<1>11. Announced'
  BY <1>1, <1>7, <1>10 DEF ConsoleInv, Announced
<1>12. Ordered'
  <2>1. Others(typed, Taken + 1) = IF typed[Taken + 1] # EOF THEN Others(typed, Taken) + 1 ELSE Others(typed, Taken)
    BY Zenon, <1>7, OthersNext
  <2>2. Others(typed, Taken) \in Nat /\ Others(screen, Len(screen)) \in Nat
    BY Zenon, <1>7, <1>10, OthersType
  <2>3. Others(screen, Len(screen)) + Held' = Others(typed, Taken + 1)
    BY <1>7, <1>8, <2>1, <2>2 DEF ConsoleInv, Ordered, Held
  <2>4. QED BY Zenon, <1>1, <1>7, <2>3 DEF ConsoleInv, Ordered
<1>13. QED BY <1>2, <1>4, <1>5, <1>9, <1>11, <1>12 DEF ConsoleInv

(* GetChar and PutChar: what was in the buffer is on the screen.              *)
LEMMA EchoKeepsAll == ASSUME ConsoleInv, Con!Echo PROVE ConsoleInv'
<1>1. ~putBusy /\ echo = "got" /\ writeDone = 0 /\ conPending = <<"poll">>
  BY Zenon DEF ConsoleInv, Writing, Con!Echo
<1>2. /\ keyboard' = keyboard /\ typed' = typed /\ readAvail' = readAvail /\ closed' = closed
      /\ conStatus = "run" /\ conStatus' = conStatus
      /\ ch' = incoming /\ incoming' = EOF /\ screen' = Append(screen, incoming) /\ putBusy' = TRUE
      /\ conPending' = Append(conPending, "write") /\ writeDone' = 0 /\ echo' = "writeAsleep"
  BY <1>1, Zenon DEF Con!Echo, Con!P
<1>3. TypeOK'
  BY <1>2 DEF ConsoleInv, TypeOK, Byte
<1>4. Writing'
  <2>1. conPending' = <<"poll", "write">>
    BY <1>1, <1>2, AppendOne
  <2>2. QED BY Zenon, <1>2, <2>1 DEF Writing
<1>5. /\ Len(screen) \in Nat /\ Len(screen') = Len(screen) + 1 /\ screen'[Len(screen) + 1] = incoming
      /\ \A i \in 1 .. Len(screen) : screen'[i] = screen[i]
      /\ DOMAIN screen = 1 .. Len(screen) /\ DOMAIN screen' = 1 .. Len(screen) + 1
  BY <1>2 DEF ConsoleInv, TypeOK
<1>6. Quitting'
  <2>1. \A i \in DOMAIN screen : screen[i] # QuitChar
    BY Zenon, <1>1 DEF ConsoleInv, Quitting, Wrote
  <2>2. \A i \in 1 .. Len(screen') - 1 : screen'[i] # QuitChar
    BY <1>5, <2>1
  <2>3. screen' # <<>> /\ screen'[Len(screen')] = ch'
    BY <1>2, <1>5
  <2>4. QED BY Zenon, <1>2, <2>2, <2>3 DEF Quitting, Wrote
<1>7. /\ Taken' = Taken /\ Taken \in Nat /\ Held' = 0 /\ Held \in {0, 1} /\ Due = Due' + 1 /\ Due' \in Nat
  BY <1>1, <1>2 DEF ConsoleInv, TypeOK, Buffered, Taken, Held, Due, Got
<1>8. Buffered'
  BY Zenon, <1>2, <1>7 DEF ConsoleInv, Buffered
<1>9. Announced'
  BY <1>5, <1>7 DEF ConsoleInv, Announced
<1>10. \A n \in 0 .. Len(screen) : Others(screen', n) = Others(screen, n)
  <2> SUFFICES ASSUME NEW n \in 0 .. Len(screen) PROVE Others(screen', n) = Others(screen, n)
    BY Zenon
  <2>1. n \in Nat /\ \A i \in 1 .. n : screen'[i] = screen[i]
    BY <1>5
  <2>2. QED BY Zenon, <2>1, OthersSame
<1>11. Others(screen', Len(screen')) = Others(typed, Taken)
  <2>1. Others(screen', Len(screen) + 1) = IF screen'[Len(screen) + 1] # EOF THEN Others(screen', Len(screen)) + 1
                                           ELSE Others(screen', Len(screen))
    BY Zenon, <1>5, OthersNext
  <2>2. Others(screen', Len(screen)) = Others(screen, Len(screen)) /\ Others(screen, Len(screen)) \in Nat
    BY <1>5, <1>10, OthersType
  <2>3. QED BY <1>5, <2>1, <2>2 DEF ConsoleInv, Ordered, Held
<1>12. ASSUME NEW i \in DOMAIN screen', screen'[i] # EOF
       PROVE  \E j \in DOMAIN typed : typed[j] = screen'[i] /\ Others(typed, j) = Others(screen', i)
  <2>1. CASE i \in 1 .. Len(screen)
    <3>1. screen[i] # EOF /\ screen'[i] = screen[i] /\ i \in DOMAIN screen /\ Others(screen', i) = Others(screen, i)
      BY <1>5, <1>10, <1>12, <2>1
    <3>2. PICK j \in DOMAIN typed : typed[j] = screen[i] /\ Others(typed, j) = Others(screen, i)
      BY Zenon, <3>1 DEF ConsoleInv, Ordered
    <3>3. QED BY Zenon, <3>1, <3>2
  <2>2. CASE i = Len(screen) + 1
    <3>1. incoming # EOF /\ Taken > 0 /\ incoming = typed[Taken]
      BY Zenon, <1>5, <1>12, <2>2 DEF ConsoleInv, Buffered
    <3>2. Taken \in DOMAIN typed
      BY <1>7, <3>1 DEF ConsoleInv, TypeOK, Taken
    <3>3. QED BY <1>5, <1>11, <2>2, <3>1, <3>2
  <2>3. QED BY <1>5, <2>1, <2>2
<1>13. Ordered'
  <2>1. Others(typed, Taken) \in Nat
    BY Zenon, <1>7, OthersType
  <2>2. QED BY <1>2, <1>7, <1>11, <1>12, <2>1 DEF Ordered
<1>14. QED BY <1>3, <1>4, <1>6, <1>8, <1>9, <1>13 DEF ConsoleInv

(* Every step keeps the invariant.                                            *)
LEMMA ConsoleStep == ASSUME ConsoleInv, Con!Next \/ UNCHANGED Con!vars PROVE ConsoleInv'
<1>1. CASE UNCHANGED Con!vars
  <2>1. /\ keyboard' = keyboard /\ typed' = typed /\ screen' = screen /\ incoming' = incoming
        /\ readAvail' = readAvail /\ writeDone' = writeDone /\ echo' = echo /\ ch' = ch
        /\ closed' = closed /\ putBusy' = putBusy /\ conPending' = conPending /\ conStatus' = conStatus
    BY <1>1, Zenon DEF Con!vars, Con!device
  <2>2. TypeOK'
    BY Zenon, <2>1 DEF ConsoleInv, TypeOK
  <2>3. Due' = Due
    BY Zenon, <2>1 DEF Due, Got
  <2>4. Writing' /\ Quitting'
    BY <2>1, Zenon DEF ConsoleInv, Writing, Quitting
  <2>5. QED BY <2>1, <2>2, <2>3, <2>4, CountsKept DEF ConsoleInv
<1>2. CASE Con!CheckCharAvail
  BY Zenon, <1>2, PollKeeps, ReadKeeps
<1>3. CASE Con!Stopped
  BY Zenon, <1>1, <1>3 DEF Con!Stopped
<1>4. CASE \E c \in Char : Con!Type(c)
  BY Zenon, <1>4, TypeKeeps
<1>5. CASE Con!Close \/ Con!WriteDone \/ Con!WaitChar \/ Con!Echo \/ Con!WaitWrite \/ Con!Again
  BY <1>5, CloseKeeps, WriteDoneKeeps, WaitCharKeeps, EchoKeepsAll, WaitWriteKeeps, AgainKeeps
<1>6. QED BY <1>1, <1>2, <1>3, <1>4, <1>5, Zenon DEF Con!Next

(* ConsoleTest echoes what is typed in order, each character but the byte 255 *)
(* as often as it was typed, stops at the first 'q', and never finds the      *)
(* device busy, however its interrupts fall between its waits.                *)
THEOREM EchoAlwaysInOrder == DevSpec => []EchoInOrder
<1>1. ConsoleInv => EchoInOrder
  <2> SUFFICES ASSUME ConsoleInv PROVE EchoInOrder
    BY Zenon
  <2>1. /\ Len(screen) \in Nat /\ Len(typed) \in Nat /\ Taken \in Nat /\ Taken <= Len(typed)
        /\ Due \in Nat /\ Held \in {0, 1}
    BY DEF ConsoleInv, TypeOK, Buffered, Taken, Due, Got, Held
  <2>2. Others(typed, Len(typed)) <= Others(typed, Taken) + (Len(typed) - Taken)
    BY Zenon, <2>1, OthersGrow
  <2>3. /\ Others(typed, Len(typed)) \in Nat /\ Others(typed, Taken) \in Nat
        /\ Others(screen, Len(screen)) \in Nat
    BY Zenon, <2>1, OthersType
  <2>4. Others(screen, Len(screen)) + Held = Others(typed, Taken) /\ Taken = Len(screen) + Due /\ Held <= Due
    BY Zenon DEF ConsoleInv, Ordered, Announced
  <2>5. Len(screen) - Others(screen, Len(screen)) <= Len(typed) - Others(typed, Len(typed))
    BY <2>1, <2>2, <2>3, <2>4
  <2>6. QED BY Zenon, <2>5, ConOthers DEF ConsoleInv, Ordered, Quitting, EchoInOrder, Con!EchoInOrder
<1>2. DevInit => ConsoleInv
  <2>1. DevInit => Con!Boot /\ conStatus \in {"off", "run"}
    BY Zenon DEF DevInit
  <2>2. QED BY Zenon, <2>1, ConsoleInit
<1>3. ConsoleInv /\ [DevNext]_<<vars, conVars, elVars>> => ConsoleInv'
  <2> SUFFICES ASSUME ConsoleInv, [DevNext]_<<vars, conVars, elVars>> PROVE ConsoleInv'
    BY Zenon
  <2>1. UNCHANGED conVars => UNCHANGED Con!vars
    BY Zenon DEF conVars, Con!vars, Con!device
  <2>2. Con!Next \/ UNCHANGED conVars
    BY Zenon DEF DevNext
  <2>3. QED BY Zenon, <2>1, <2>2, ConsoleStep
<1>4. QED BY <1>1, <1>2, <1>3, PTL DEF DevSpec
-----------------------------------------------------------------------------
(* The bank of elevators: no wakeup is lost.                                  *)

(* Beside the property: the interrupts are a sequence of times, and no        *)
(* semaphore is below zero.                                                   *)
BankInv ==
    /\ bankPending \in Seq(Int) /\ riderWakeup \in Nat /\ controllerWakeup \in Nat
    /\ El!NobodySleepsOnEvents

(* The sequence of interrupts after one more is scheduled.                    *)
LEMMA ScheduledMore ==
    ASSUME NEW p \in Seq(Int), NEW w \in Int
    PROVE  El!Scheduled(p, w) \in Seq(Int) /\ El!Scheduled(p, w) # <<>>
<1> DEFINE k == Cardinality({i \in DOMAIN p : p[i] <= w})
           a == SubSeq(p, 1, k)
           b == SubSeq(p, k + 1, Len(p))
<1>1. k \in Nat /\ k <= Len(p)
  <2>1. PICK n \in Nat : Len(p) = n /\ DOMAIN p = 1 .. n
    OBVIOUS
  <2>2. IsFiniteSet(1 .. n) /\ Cardinality(1 .. n) = IF 1 > n THEN 0 ELSE n - 1 + 1
    BY FS_Interval
  <2>3. {i \in DOMAIN p : p[i] <= w} \subseteq 1 .. n
    BY Zenon, <2>1
  <2>4. IsFiniteSet({i \in DOMAIN p : p[i] <= w}) /\ k <= Cardinality(1 .. n)
    BY Zenon, <2>2, <2>3, FS_Subset
  <2>5. k \in Nat
    BY Zenon, <2>4, FS_CardinalityType
  <2>6. QED BY <2>1, <2>2, <2>4, <2>5
<1>2. a \in Seq(Int) /\ b \in Seq(Int) /\ <<w>> \in Seq(Int)
  <2> HIDE DEF k
  <2>1. (\A i \in 1 .. k : p[i] \in Int) /\ (\A i \in k + 1 .. Len(p) : p[i] \in Int)
    BY <1>1
  <2>2. k \in Int /\ k + 1 \in Int /\ 1 \in Int /\ Len(p) \in Int
    BY <1>1
  <2>3. a \in Seq(Int)
    BY Zenon, <2>1, <2>2, SubSeqProperties
  <2>4. b \in Seq(Int)
    BY Zenon, <2>1, <2>2, SubSeqProperties
  <2>5. QED BY <2>3, <2>4
<1>3. El!Scheduled(p, w) = a \o <<w>> \o b
  <2>1. El!Cardinality({i \in DOMAIN p : p[i] <= w}) = Cardinality({i \in DOMAIN p : p[i] <= w})
    BY Zenon DEF El!Cardinality, Cardinality
  <2>2. QED BY Zenon, <2>1 DEF El!Scheduled
<1> HIDE DEF k, a, b
<1>4. /\ a \o <<w>> \in Seq(Int) /\ Len(a \o <<w>>) = Len(a) + 1 /\ Len(a) \in Nat /\ Len(b) \in Nat
  BY <1>2
<1>5. (a \o <<w>>) \o b \in Seq(Int) /\ Len((a \o <<w>>) \o b) = Len(a) + 1 + Len(b)
  BY <1>2, <1>4
<1>6. (a \o <<w>>) \o b # <<>>
  BY <1>4, <1>5
<1>7. QED BY Zenon, <1>3, <1>5, <1>6

(* And after the clock has moved on.                                          *)
LEMMA PassedOn ==
    ASSUME NEW p \in Seq(Int), NEW d \in Int
    PROVE  /\ [i \in DOMAIN p |-> p[i] - d] \in Seq(Int)
           /\ p # <<>> => [i \in DOMAIN p |-> p[i] - d] # <<>>
<1> DEFINE q == [i \in DOMAIN p |-> p[i] - d]
<1>1. DOMAIN p = 1 .. Len(p) /\ Len(p) \in Nat
  OBVIOUS
<1>2. q \in Seq(Int) /\ Len(q) = Len(p)
  BY <1>1
<1>3. p # <<>> => q # <<>>
  BY <1>1, <1>2
<1>4. QED BY <1>2, <1>3

(* A step that leaves the two threads where they are, and announces what it   *)
(* adds to their events.                                                      *)
LEMMA AnnouncedKeeps ==
    ASSUME BankInv, bankPending' \in Seq(Int), bankPending # <<>> => bankPending' # <<>>,
           riderWakeup' = riderWakeup, controllerWakeup' = controllerWakeup,
           rider' = rider \/ rider' = "done", controller' = controller \/ controller' = "done",
           riderEvents' = riderEvents \/ rider = "run" \/ bankPending' # <<>>,
           controllerEvents' = controllerEvents \/ controller = "run" \/ bankPending' # <<>>
    PROVE  BankInv'
BY Zenon DEF BankInv, El!NobodySleepsOnEvents

(* The clock moves on by a tick.                                              *)
LEMMA TickKeeps ==
    ASSUME BankInv, El!DelaysAreWhole, El!Pass(SystemTick)
    PROVE  /\ bankPending' \in Seq(Int) /\ (bankPending # <<>> => bankPending' # <<>>)
           /\ riderEvents' = riderEvents /\ controllerEvents' = controllerEvents
BY PassedOn DEF BankInv, El!DelaysAreWhole, El!Pass

(* A handler that runs wakes both, if there is an event for them.             *)
LEMMA HandleInterruptKeeps == ASSUME BankInv, El!DelaysAreWhole, El!HandleInterrupt PROVE BankInv'
<1>1. /\ \/ bankPending' = Tail(bankPending)
         \/ bankPending' = El!Scheduled(Tail(bankPending), DelayPerFloor)
      /\ riderEvents' = riderEvents
      /\ \/ riderEvents = <<>> /\ riderWakeup' = riderWakeup /\ rider' = rider
         \/ riderWakeup' = riderWakeup + 1 /\ rider' = IF rider = "asleep" THEN "woken" ELSE rider
      /\ \/ controllerEvents' = <<>> /\ controllerWakeup' = controllerWakeup /\ controller' = controller
         \/ /\ controllerWakeup' = controllerWakeup + 1
            /\ controller' = IF controller = "asleep" THEN "woken" ELSE controller
  BY Zenon DEF El!HandleInterrupt, El!MoveCars
<1>2. bankPending # <<>>
  <2>1. ~El!NothingDue
    BY Zenon DEF El!HandleInterrupt
  <2>2. PICK i \in DOMAIN bankPending : TRUE
    BY <2>1, Zenon DEF El!NothingDue
  <2>3. QED BY <2>2 DEF BankInv
<1>3. Tail(bankPending) \in Seq(Int)
  BY <1>2 DEF BankInv
<1>4. bankPending' \in Seq(Int)
  <2>1. DelayPerFloor \in Int
    BY DEF El!DelaysAreWhole
  <2>2. El!Scheduled(Tail(bankPending), DelayPerFloor) \in Seq(Int)
    BY Zenon, <1>3, <2>1, ScheduledMore
  <2>3. QED BY <1>1, <1>3, <2>2, Zenon
<1>5. riderWakeup' \in Nat /\ controllerWakeup' \in Nat
  BY <1>1 DEF BankInv
<1>6. rider' = "asleep" => riderWakeup' = 0 /\ riderEvents' = <<>>
  BY <1>1 DEF BankInv, El!NobodySleepsOnEvents
<1>7. controller' = "asleep" => controllerWakeup' = 0 /\ controllerEvents' = <<>>
  BY Zenon, <1>1 DEF BankInv, El!NobodySleepsOnEvents
<1>8. (rider' = "woken" => riderWakeup' > 0) /\ (controller' = "woken" => controllerWakeup' > 0)
  BY <1>1 DEF BankInv, El!NobodySleepsOnEvents
<1>9. QED BY Zenon, <1>4, <1>5, <1>6, <1>7, <1>8 DEF BankInv, El!NobodySleepsOnEvents

(* The waits: a thread sleeps only while nothing is listed for it.            *)
LEMMA WaitsKeep ==
    ASSUME BankInv, El!DelaysAreWhole,
           El!RiderWaits \/ El!ControllerWaits \/ El!RiderRunsAgain \/ El!ControllerRunsAgain
    PROVE  BankInv'
<1>1. CASE El!RiderWaits
  <2>1. /\ rider = "run" /\ riderEvents = <<>> /\ controller' = controller /\ controllerWakeup' = controllerWakeup
        /\ \/ /\ riderWakeup = 0 /\ rider' = "asleep" /\ bankPending' = bankPending /\ riderWakeup' = riderWakeup
              /\ riderEvents' = riderEvents /\ controllerEvents' = controllerEvents
           \/ riderWakeup # 0 /\ riderWakeup' = riderWakeup - 1 /\ El!Pass(SystemTick) /\ rider' = rider
    BY <1>1, Zenon DEF El!RiderWaits, El!bank
  <2>2. /\ bankPending' \in Seq(Int) /\ (bankPending # <<>> => bankPending' # <<>>)
        /\ riderEvents' = riderEvents /\ controllerEvents' = controllerEvents
    BY Zenon, <2>1, TickKeeps DEF BankInv
  <2>3. QED BY <2>1, <2>2 DEF BankInv, El!NobodySleepsOnEvents
<1>2. CASE El!ControllerWaits
  <2>1. /\ controller = "run" /\ controllerEvents = <<>> /\ rider' = rider /\ riderWakeup' = riderWakeup
        /\ \/ /\ controllerWakeup = 0 /\ controller' = "asleep" /\ bankPending' = bankPending
              /\ controllerWakeup' = controllerWakeup
              /\ riderEvents' = riderEvents /\ controllerEvents' = controllerEvents
           \/ /\ controllerWakeup # 0 /\ controllerWakeup' = controllerWakeup - 1 /\ El!Pass(SystemTick)
              /\ controller' = controller
    BY <1>2, Zenon DEF El!ControllerWaits, El!bank
  <2>2. /\ bankPending' \in Seq(Int) /\ (bankPending # <<>> => bankPending' # <<>>)
        /\ riderEvents' = riderEvents /\ controllerEvents' = controllerEvents
    BY Zenon, <2>1, TickKeeps DEF BankInv
  <2>3. QED BY <2>1, <2>2 DEF BankInv, El!NobodySleepsOnEvents
<1>3. CASE El!RiderRunsAgain
  <2>1. /\ rider = "woken" /\ rider' = "run" /\ riderWakeup' = riderWakeup - 1 /\ El!Pass(SystemTick)
        /\ controller' = controller /\ controllerWakeup' = controllerWakeup
    BY <1>3, Zenon DEF El!RiderRunsAgain
  <2>2. /\ bankPending' \in Seq(Int) /\ (bankPending # <<>> => bankPending' # <<>>)
        /\ controllerEvents' = controllerEvents
    BY Zenon, <2>1, TickKeeps
  <2>3. QED BY <2>1, <2>2 DEF BankInv, El!NobodySleepsOnEvents
<1>4. CASE El!ControllerRunsAgain
  <2>1. /\ controller' = "run" /\ El!Pass(SystemTick) /\ rider' = rider /\ riderWakeup' = riderWakeup
        /\ controllerWakeup' = controllerWakeup - (IF controller = "woken" THEN 1 ELSE 0)
    BY <1>4, Zenon DEF El!ControllerRunsAgain
  <2>2. /\ bankPending' \in Seq(Int) /\ (bankPending # <<>> => bankPending' # <<>>)
        /\ riderEvents' = riderEvents
    BY <2>1, TickKeeps
  <2>3. QED BY <2>1, <2>2 DEF BankInv, El!NobodySleepsOnEvents
<1>5. QED BY <1>1, <1>2, <1>3, <1>4

(* The calls of the two threads, scripted or not.  A step that adds an event  *)
(* to a list schedules an interrupt; one that takes an event is a step of the *)
(* thread it is for.                                                          *)
LEMMA RiderStepKeeps ==
    ASSUME BankInv, El!DelaysAreWhole,
           El!PressUp \/ El!GetOn \/ El!GetOff \/ El!Ride
    PROVE  BankInv'
<1> DEFINE Told == bankPending' = El!Scheduled(bankPending, 1)
<1>1. /\ riderWakeup' = riderWakeup /\ controllerWakeup' = controllerWakeup
      /\ rider = "run" /\ controller' = controller /\ (rider' = rider \/ rider' = "done")
  BY Zenon DEF El!PressUp, El!GetOn, El!GetOff, El!Ride, El!RiderRuns, El!Call, El!Free
<1>2. CASE El!PressUp
  <2>1. Told
    BY <1>2, Zenon DEF El!PressUp, El!PressButton, El!PostController
  <2>2. /\ bankPending' \in Seq(Int) /\ (bankPending # <<>> => bankPending' # <<>>)
        /\ (controllerEvents' = controllerEvents \/ bankPending' # <<>>)
    <3>1. bankPending \in Seq(Int) /\ 1 \in Int
      BY DEF BankInv
    <3>2. El!Scheduled(bankPending, 1) \in Seq(Int) /\ El!Scheduled(bankPending, 1) # <<>>
      BY <3>1, ScheduledMore
    <3>3. QED BY <2>1, <3>1, <3>2, Zenon
  <2>3. QED BY Zenon, <1>1, <2>2, AnnouncedKeeps
<1>3. CASE El!GetOn
  <2>1. Told \/ (bankPending' = bankPending /\ controllerEvents' = controllerEvents)
    BY <1>3, Zenon DEF El!GetOn, El!PressFloor, El!PostController, El!bank
  <2>2. /\ bankPending' \in Seq(Int) /\ (bankPending # <<>> => bankPending' # <<>>)
        /\ (controllerEvents' = controllerEvents \/ bankPending' # <<>>)
    <3>1. bankPending \in Seq(Int) /\ 1 \in Int
      BY DEF BankInv
    <3>2. El!Scheduled(bankPending, 1) \in Seq(Int) /\ El!Scheduled(bankPending, 1) # <<>>
      BY <3>1, ScheduledMore
    <3>3. QED BY <2>1, <3>1, <3>2, Zenon
  <2>3. QED BY <1>1, <2>2, AnnouncedKeeps
<1>4. CASE El!GetOff
  <2>1. bankPending' = bankPending /\ controllerEvents' = controllerEvents
    BY <1>4, Zenon DEF El!GetOff, El!bank
  <2>2. QED BY Zenon, <1>1, <2>1, AnnouncedKeeps DEF BankInv
<1>5. CASE El!Ride
  <2>1. Told \/ (bankPending' = bankPending /\ controllerEvents' = controllerEvents)
    BY <1>5, Zenon DEF El!Ride, El!PressButton, El!PressFloor, El!PostController
  <2>2. /\ bankPending' \in Seq(Int) /\ (bankPending # <<>> => bankPending' # <<>>)
        /\ (controllerEvents' = controllerEvents \/ bankPending' # <<>>)
    <3>1. bankPending \in Seq(Int) /\ 1 \in Int
      BY DEF BankInv
    <3>2. El!Scheduled(bankPending, 1) \in Seq(Int) /\ El!Scheduled(bankPending, 1) # <<>>
      BY <3>1, ScheduledMore
    <3>3. QED BY <2>1, <3>1, <3>2, Zenon
  <2>3. QED BY <1>1, <2>2, AnnouncedKeeps
<1>6. QED BY <1>2, <1>3, <1>4, <1>5

LEMMA ControllerStepKeeps ==
    ASSUME BankInv, El!DelaysAreWhole,
           El!AwaitCall \/ El!LetIn \/ El!Go \/ El!LetOut \/ El!Control
    PROVE  BankInv'
<1> DEFINE Told == bankPending' = El!Scheduled(bankPending, 1)
           Sent == bankPending' = El!Scheduled(bankPending, DelayPerFloor)
<1>1. /\ riderWakeup' = riderWakeup /\ controllerWakeup' = controllerWakeup
      /\ controller = "run" /\ rider' = rider /\ (controller' = controller \/ controller' = "done")
  BY Zenon DEF El!AwaitCall, El!LetIn, El!Go, El!LetOut, El!Control, El!ControllerRuns, El!Call, El!Free
<1>2. Told \/ ((Sent \/ bankPending' = bankPending) /\ riderEvents' = riderEvents)
  <2>1. CASE El!AwaitCall
    BY <2>1, Zenon DEF El!AwaitCall, El!bank
  <2>2. CASE El!LetIn
    BY <2>2, Zenon DEF El!LetIn, El!OpenDoors, El!PostRider, El!bank
  <2>3. CASE El!Go
    BY <2>3, Zenon DEF El!Go, El!MoveTo, El!bank
  <2>4. CASE El!LetOut
    BY <2>4, Zenon DEF El!LetOut, El!OpenDoors, El!PostRider, El!bank
  <2>5. CASE El!Control
    BY <2>5, Zenon DEF El!Control, El!OpenDoors, El!PostRider, El!MoveTo
  <2>6. QED BY <2>1, <2>2, <2>3, <2>4, <2>5
<1>3. /\ bankPending' \in Seq(Int) /\ (bankPending # <<>> => bankPending' # <<>>)
      /\ (riderEvents' = riderEvents \/ bankPending' # <<>>)
  <2>1. bankPending \in Seq(Int) /\ 1 \in Int /\ DelayPerFloor \in Int
    BY DEF BankInv, El!DelaysAreWhole
  <2>2. /\ El!Scheduled(bankPending, 1) \in Seq(Int) /\ El!Scheduled(bankPending, 1) # <<>>
        /\ El!Scheduled(bankPending, DelayPerFloor) \in Seq(Int)
        /\ El!Scheduled(bankPending, DelayPerFloor) # <<>>
    BY Zenon, <2>1, ScheduledMore
  <2>3. QED BY <1>2, <2>1, <2>2, Zenon
<1>4. QED BY Zenon, <1>1, <1>3, AnnouncedKeeps

LEMMA OtherStepKeeps ==
    ASSUME BankInv, El!DelaysAreWhole, El!Idle \/ El!TakeEvent \/ El!Work \/ UNCHANGED El!vars
    PROVE  BankInv'
<1>1. CASE El!Idle
  <2>1. /\ riderWakeup' = riderWakeup /\ controllerWakeup' = controllerWakeup /\ rider' = rider
        /\ controller' = controller /\ riderEvents' = riderEvents /\ controllerEvents' = controllerEvents
        /\ \/ bankPending' = bankPending
           \/ /\ bankPending # <<>>
              /\ bankPending' = [i \in DOMAIN bankPending |-> bankPending[i] - bankPending[1]]
    BY <1>1, Zenon DEF El!Idle, El!bank, El!Pass
  <2>2. bankPending # <<>> => bankPending[1] \in Int
    BY DEF BankInv
  <2>3. bankPending' \in Seq(Int) /\ (bankPending # <<>> => bankPending' # <<>>)
    BY Zenon, <2>1, <2>2, PassedOn DEF BankInv
  <2>4. QED BY Zenon, <2>1, <2>3, AnnouncedKeeps
<1>2. CASE El!TakeEvent
  <2>1. /\ riderWakeup' = riderWakeup /\ controllerWakeup' = controllerWakeup /\ rider' = rider
        /\ controller' = controller /\ bankPending' = bankPending
        /\ (riderEvents' = riderEvents \/ rider = "run")
        /\ (controllerEvents' = controllerEvents \/ controller = "run")
    BY <1>2, Zenon DEF El!TakeEvent, El!Free
  <2>2. QED BY Zenon, <2>1, AnnouncedKeeps DEF BankInv
<1>3. CASE El!Work
  <2>1. /\ riderWakeup' = riderWakeup /\ controllerWakeup' = controllerWakeup /\ rider' = rider
        /\ controller' = controller /\ El!Pass(SystemTick)
    BY <1>3, Zenon DEF El!Work, El!Free
  <2>2. QED BY Zenon, <2>1, TickKeeps, AnnouncedKeeps
<1>4. CASE UNCHANGED El!vars
  <2>1. /\ riderWakeup' = riderWakeup /\ controllerWakeup' = controllerWakeup /\ rider' = rider
        /\ controller' = controller /\ bankPending' = bankPending
        /\ riderEvents' = riderEvents /\ controllerEvents' = controllerEvents
    BY <1>4, Zenon DEF El!vars, El!bank, El!threads
  <2>2. QED BY Zenon, <2>1, AnnouncedKeeps DEF BankInv
<1>5. QED BY <1>1, <1>2, <1>3, <1>4

(* However buttons, doors, arrivals and the scheduler interleave, a thread of *)
(* the elevators that sleeps in P has no wakeup left for it, and has an       *)
(* interrupt to come if an event is listed for it.                            *)
THEOREM BankLosesNoWakeup == DevSpec => []NobodySleepsOnEvents
<1>1. DevInit => BankInv
  <2>1. DevInit => El!Boot
    BY Zenon DEF DevInit
  <2>2. QED BY <2>1 DEF El!Boot, El!BankInit, BankInv, El!NobodySleepsOnEvents
<1>2. BankInv /\ [DevNext]_<<vars, conVars, elVars>> => BankInv'
  <2> SUFFICES ASSUME BankInv, [DevNext]_<<vars, conVars, elVars>> PROVE BankInv'
    OBVIOUS
  <2>1. UNCHANGED elVars => UNCHANGED El!vars
    BY Zenon DEF elVars, El!vars, El!bank, El!cars, El!threads
  <2>2. El!Next \/ UNCHANGED elVars
    BY Zenon DEF DevNext
  <2>3. El!Stopped => UNCHANGED El!vars
    BY Zenon DEF El!Stopped
  <2>4. QED BY <2>1, <2>2, <2>3, DelaysAssumption, HandleInterruptKeeps, WaitsKeep, RiderStepKeeps,
               ControllerStepKeeps, OtherStepKeeps DEF El!Next
<1>3. BankInv => NobodySleepsOnEvents
  BY DEF BankInv, NobodySleepsOnEvents
<1>4. QED BY <1>1, <1>2, <1>3, PTL DEF DevSpec
=============================================================================
