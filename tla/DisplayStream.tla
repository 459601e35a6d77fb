---------------------------- MODULE DisplayStream ----------------------------
(***************************************************************************)
(* The counter of composited frames (bmtop-macos/src/bmtop_link.m 231-340, *)
(* link.rs 74-117).  Two threads meet at one atomic: the serial queue that *)
(* the system calls for every complete frame, and the sampling thread,     *)
(* which starts, stops and reads.  A stream that was stopped may still     *)
(* have calls on the queue: they count for whoever comes next.             *)
(*                                                                         *)
(* The tenths counts tenths of a second: a reading needs more than one.     *)
(***************************************************************************)
EXTENDS Naturals

CONSTANTS MostDropped,  \* frames one call may report as dropped before it
          MaxQueued,    \* bound: calls waiting on the queue
          MaxFrames,    \* bound: frames counted in a behaviour
          MaxClock,     \* bound: tenths of a second
          MaxStarts     \* bound: starts of the stream

ASSUME DisplayAssumption ==
    {MostDropped, MaxQueued, MaxFrames, MaxClock, MaxStarts} \subseteq Nat

VARIABLES tenths,    \* mach_absolute_time
          stream,   \* g_fps_stream # NULL
          frames,   \* g_fps_frames
          lastRead, \* g_fps_last_read
          calls,    \* calls of the handler that wait on the queue
          sampler,  \* where the sampling thread is in start or in read
          readAt,      \* `readAt` of the read in progress
          fps,      \* the last reading, as frames and the window they are for
          starts,   \* how often the stream was started
          counted,  \* frames counted since the counter was last set to zero
          told      \* and those of them that a read has taken

displayVars ==
    <<tenths, stream, frames, lastRead, calls, sampler, readAt, fps, starts, counted, told>>

NoReading == [frames |-> 0, window |-> 0]

DisplayInit ==
    /\ tenths = 0
    /\ stream = FALSE
    /\ frames = 0 /\ lastRead = 0 /\ calls = 0 /\ readAt = 0
    /\ sampler = "idle"
    /\ fps = NoReading
    /\ starts = 0 /\ counted = 0 /\ told = 0

Tick ==
    /\ tenths < MaxClock
    /\ tenths' = tenths + 1
    /\ UNCHANGED <<stream, frames, lastRead, calls, sampler, readAt, fps, starts, counted, told>>

\* The system completes a frame of an open stream and queues a call for it.
Draw ==
    /\ stream
    /\ calls < MaxQueued
    /\ calls' = calls + 1
    /\ UNCHANGED <<tenths, stream, frames, lastRead, sampler, readAt, fps, starts, counted, told>>

\* The handler adds the frame and those dropped before it, in one atomic step.
Handler ==
    /\ calls > 0
    /\ \E dropped \in 0..MostDropped :
         LET n == 1 + dropped IN
           /\ counted + n <= MaxFrames
           /\ frames' = frames + n
           /\ counted' = counted + n
    /\ calls' = calls - 1
    /\ UNCHANGED <<tenths, stream, lastRead, sampler, readAt, fps, starts, told>>

(***************************************************************************)
(* bmtop_fps_start: nothing to do when there is a stream; without          *)
(* permission, or when the system refuses, there is none afterwards.  The  *)
(* stream runs before the counter is cleared and the window begins.        *)
(***************************************************************************)
StartRefused ==
    /\ sampler = "idle"
    /\ ~stream
    /\ UNCHANGED displayVars

Start ==
    /\ sampler = "idle"
    /\ ~stream
    /\ starts < MaxStarts
    /\ starts' = starts + 1
    /\ stream' = TRUE
    /\ sampler' = "clear"
    /\ UNCHANGED <<tenths, frames, lastRead, calls, readAt, fps, counted, told>>

ClearFrames ==
    /\ sampler = "clear"
    /\ frames' = 0
    /\ counted' = 0 /\ told' = 0
    /\ sampler' = "begin"
    /\ UNCHANGED <<tenths, stream, lastRead, calls, readAt, fps, starts>>

BeginWindow ==
    /\ sampler = "begin"
    /\ lastRead' = tenths
    /\ sampler' = "idle"
    /\ UNCHANGED <<tenths, stream, frames, calls, readAt, fps, starts, counted, told>>

\* bmtop_fps_stop: the calls on the queue stay there.
Stop ==
    /\ sampler = "idle"
    /\ stream
    /\ stream' = FALSE
    /\ UNCHANGED <<tenths, frames, lastRead, calls, sampler, readAt, fps, starts, counted, told>>

(***************************************************************************)
(* bmtop_fps_read: the time, then the counter, exchanged for zero; frames  *)
(* of a window that is too short for a rate are taken and not shown.       *)
(***************************************************************************)
Read ==
    /\ sampler = "idle"
    /\ stream
    /\ readAt' = tenths
    /\ sampler' = "read"
    /\ UNCHANGED <<tenths, stream, frames, lastRead, calls, fps, starts, counted, told>>

Reading(taken) ==
    IF readAt - lastRead > 1 /\ taken > 0
      THEN [frames |-> taken, window |-> readAt - lastRead]
      ELSE NoReading

\* Seeded fault: the counter is loaded, and not set back.
LoadOnly ==
    /\ sampler = "read"
    /\ frames' = frames
    /\ told' = told + frames
    /\ lastRead' = readAt
    /\ fps' = Reading(frames)
    /\ sampler' = "idle"
    /\ UNCHANGED <<tenths, stream, calls, readAt, starts, counted>>

Exchange ==
    /\ sampler = "read"
    /\ frames' = 0
    /\ told' = told + frames
    /\ lastRead' = readAt
    /\ fps' = Reading(frames)
    /\ sampler' = "idle"
    /\ UNCHANGED <<tenths, stream, calls, readAt, starts, counted>>

DisplayNext ==
    \/ Tick \/ Draw \/ Handler
    \/ StartRefused \/ Start \/ ClearFrames \/ BeginWindow \/ Stop
    \/ Read \/ Exchange

DisplaySpec == DisplayInit /\ [][DisplayNext]_displayVars

-----------------------------------------------------------------------------

(***************************************************************************)
(* However the handler's calls fall between the steps of a start or a      *)
(* read, and whenever a stopped stream's calls still arrive, each frame    *)
(* counted is taken by one reading or still waits for the next.            *)
(***************************************************************************)
EveryFrameOnce == told + frames = counted

=============================================================================
