------------------------------- MODULE Disk -------------------------------
(* The simulated disk (disk.cc): one request at a time, each completed by an  *)
(* interrupt after the time the arm and the rotation take.  Which data moves  *)
(* is left out: it moves at the request, before the interrupt.                *)
EXTENDS Integers

CONSTANTS
    SectorsPerTrack, NumTracks, \* disk.h
    RotationTime, SeekTime      \* stats.h

ASSUME DiskAssumption ==
    /\ SectorsPerTrack \in Nat \ {0}
    /\ NumTracks \in Nat \ {0}
    /\ RotationTime \in Nat \ {0}
    /\ SeekTime \in Nat \ {0}

VARIABLES
    totalTicks, \* Statistics::totalTicks
    active,     \* Disk::active
    lastSector, \* Disk::lastSector
    bufferInit, \* Disk::bufferInit
    doneAt,     \* when the scheduled DiskInt is due
    arrived     \* history: when the arm reached the track it is on

diskVars == <<totalTicks, active, lastSector, bufferInit, doneAt, arrived>>

Sector == 0 .. SectorsPerTrack * NumTracks - 1
Track(s) == s \div SectorsPerTrack

DiskInit ==
    /\ active = FALSE
    /\ lastSector = 0
    /\ bufferInit = 0
    /\ doneAt = 0
    /\ arrived = 0

(* TimeToSeek: its result, and the time to the next sector boundary it returns *)
(* through "rotation".                                                          *)
Seek(s) ==
    SeekTime * (IF Track(s) > Track(lastSector) THEN Track(s) - Track(lastSector)
                                                ELSE Track(lastSector) - Track(s))
Rotation(s) ==
    LET over == (totalTicks + Seek(s)) % RotationTime IN
    IF over > 0 THEN RotationTime - over ELSE 0

ModuloDiff(to, from) ==
    (((to % SectorsPerTrack) - (from % SectorsPerTrack)) + SectorsPerTrack) % SectorsPerTrack

(* How long a request takes; the first case is a read served by the track      *)
(* buffer.                                                                     *)
ComputeLatency(s, writing) ==
    LET timeAfter == totalTicks + Seek(s) + Rotation(s) IN
    IF /\ ~writing
       /\ Seek(s) = 0
       /\ (timeAfter - bufferInit) \div RotationTime > ModuloDiff(s, bufferInit \div RotationTime)
    THEN RotationTime
    ELSE Seek(s) + Rotation(s) + ModuloDiff(s, timeAfter \div RotationTime) * RotationTime
         + RotationTime

(* Mutant: the buffer is discarded at every request.                           *)
UpdateLastAlways(s) ==
    /\ lastSector' = s
    /\ bufferInit' = totalTicks + Seek(s) + Rotation(s)
    /\ arrived' = IF Track(s) # Track(lastSector) THEN totalTicks + Seek(s) ELSE arrived

UpdateLast(s) ==
    /\ lastSector' = s
    /\ bufferInit' = IF Seek(s) # 0 THEN totalTicks + Seek(s) + Rotation(s) ELSE bufferInit
    /\ arrived' = IF Track(s) # Track(lastSector) THEN totalTicks + Seek(s) ELSE arrived

(* ReadRequest and WriteRequest, after ASSERT(!active).                        *)
Request(s, writing) ==
    /\ ~active
    /\ active' = TRUE
    /\ doneAt' = totalTicks + ComputeLatency(s, writing)
    /\ UpdateLast(s)
    /\ UNCHANGED totalTicks

(* HandleInterrupt, up to the handler it calls; "now" is the clock then.       *)
HandleInterrupt(now) ==
    /\ active /\ doneAt <= now
    /\ active' = FALSE
    /\ totalTicks' = now
    /\ UNCHANGED <<lastSector, bufferInit, doneAt, arrived>>
-----------------------------------------------------------------------------
(* The disk the latencies are those of: it turns past one sector every          *)
(* RotationTime ticks, and never stops.                                         *)

PassBegins(s, t) ==
    t % RotationTime = 0 /\ (t \div RotationTime) % SectorsPerTrack = s % SectorsPerTrack

OneTurn == RotationTime * SectorsPerTrack

(* The sector has begun to pass under the head since the arm came to the track: *)
(* at the next boundary it has passed whole.                                    *)
InTrackBuffer(s) ==
    \E t \in arrived .. totalTicks - 1 : PassBegins(s, t)

(* A request, made now, ends when the sector has passed under the head, whole,  *)
(* for the first time after the arm is over its track.                          *)
PassEnds(s) ==
    LET over == totalTicks + Seek(s) IN
    CHOOSE t \in over .. over + OneTurn + RotationTime :
        /\ PassBegins(s, t - RotationTime) /\ t - RotationTime >= over
        /\ \A u \in over .. t - RotationTime - 1 : ~PassBegins(s, u)
===========================================================================
