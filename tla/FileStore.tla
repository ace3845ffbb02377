----------------------------- MODULE FileStore -----------------------------
(* What the file system promises its callers: named files of a fixed length,  *)
(* each its own, as long as directory entries and sectors last.               *)
EXTENDS Integers, Sequences, FiniteSets

CONSTANTS
    Key,            \* names, as the directory tells them apart
    Value,          \* values of bytes
    MaxFiles,       \* directory entries
    Capacity,       \* sectors for headers and data of files
    SectorSize,
    Lengths, Positions, Buffers \* arguments of Create and Write

VARIABLES
    files,          \* the bytes of each file, a function from offsets
    free,           \* the sectors no file has
    result          \* what the last Create, Remove or Open returned

NoFile == [k \in {} |-> <<>>]

Length(f) == Cardinality(DOMAIN f)

(* Sectors a file takes: its header and its data.                             *)
Footprint(length) == 1 + (length + SectorSize - 1) \div SectorSize

Init == files = NoFile /\ free = Capacity /\ result = TRUE

(* The reasons Create has to refuse are that the name is taken, the directory *)
(* is full, or the sectors do not suffice.                                    *)
Fits(k, length) ==
    /\ k \notin DOMAIN files
    /\ Cardinality(DOMAIN files) < MaxFiles
    /\ Footprint(length) <= free

(* A new file's bytes are whatever its sectors held.                          *)
Create(k, length) ==
    /\ Fits(k, length)
    /\ DOMAIN files' = DOMAIN files \cup {k}
    /\ \A j \in DOMAIN files : files'[j] = files[j]
    /\ files'[k] \in [0 .. length - 1 -> Value]
    /\ free' = free - Footprint(length)
    /\ result' = TRUE

Refuse(k, length) ==
    /\ ~Fits(k, length)
    /\ result' = FALSE
    /\ UNCHANGED <<files, free>>

(* All the sectors of a file are free again.                                  *)
Remove(k) ==
    /\ k \in DOMAIN files
    /\ files' = [j \in DOMAIN files \ {k} |-> files[j]]
    /\ free' = free + Footprint(Length(files[k]))
    /\ result' = TRUE

Open(k) == k \in DOMAIN files /\ result' = TRUE /\ UNCHANGED <<files, free>>

(* Remove and Open of a name that is not there.                               *)
NotFound(k) == k \notin DOMAIN files /\ result' = FALSE /\ UNCHANGED <<files, free>>

(* Some bytes of one file change, in one interval, and no other file does.    *)
Write ==
    /\ LET before == files
           after  == files'
       IN  \E k \in DOMAIN before, position \in Positions, from \in Buffers :
              after = [before EXCEPT ![k] =
                         [p \in DOMAIN before[k] |->
                             IF p \in position .. position + Len(from) - 1
                             THEN from[p - position + 1] ELSE before[k][p]]]
    /\ UNCHANGED <<free, result>>

Format == files' = NoFile /\ free' = Capacity /\ UNCHANGED result

Next ==
    \/ \E k \in Key, length \in Lengths : Create(k, length) \/ Refuse(k, length)
    \/ \E k \in Key : Remove(k) \/ Open(k) \/ NotFound(k)
    \/ Write \/ Format

Spec == Init /\ [][Next]_<<files, free, result>>
=============================================================================
