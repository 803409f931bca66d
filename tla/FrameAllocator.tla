--------------------------- MODULE FrameAllocator ---------------------------
(* What the physical memory manager promises its callers: frames are handed  *)
(* out only while they are free, a request is refused only when no run of    *)
(* free frames is long enough, and only frames that were handed out can be   *)
(* given back.  Which free run is chosen is left open.                       *)
EXTENDS Naturals

CONSTANTS Frames,  \* frame numbers, 0 included
          Counts   \* how many frames a call may ask for or give back

VARIABLES usable,      \* frames of RAM the allocator manages
          free,        \* those not handed out
          initialized,
          answer       \* the last call and what it returned; 0 is failure

vars == <<usable, free, initialized, answer>>

Run(s, n) == s .. (s + n - 1)

Answer(op, s, n, r) == [op |-> op, start |-> s, count |-> n, result |-> r]

Init == /\ usable = {} /\ free = {} /\ initialized = FALSE
        /\ answer = Answer("none", 0, 0, 0)

\* Booting: some frames, never frame 0, become usable and free.
AddFrames == /\ ~initialized
             /\ 0 \notin usable'
             /\ usable \subseteq usable'
             /\ free' = free \cup (usable' \ usable)
             /\ UNCHANGED <<initialized, answer>>

Boot == /\ ~initialized
        /\ initialized' = (free # {})
        /\ UNCHANGED <<usable, free, answer>>

\* A request for n frames can be met with those from s on.
Available(s, n) == initialized /\ n > 0 /\ Run(s, n) \subseteq free

Allocate(s, n) == /\ Available(s, n)
                  /\ free' = free \ Run(s, n)
                  /\ answer' = Answer("allocate", 0, n, s)
                  /\ UNCHANGED <<usable, initialized>>

Exhausted(n) == /\ \A s \in Frames : ~Available(s, n)
                /\ answer' = Answer("allocate", 0, n, 0)
                /\ UNCHANGED <<usable, free, initialized>>

\* The n frames from s on are all handed out.
Releasable(s, n) == initialized /\ n > 0 /\ Run(s, n) \subseteq usable \ free

Release(s, n) == /\ Releasable(s, n)
                 /\ free' = free \cup Run(s, n)
                 /\ answer' = Answer("free", s, n, 1)
                 /\ UNCHANGED <<usable, initialized>>

\* An address that is not a frame's is taken for frame 0.
Refuse(s, n) == /\ ~Releasable(s, n)
                /\ answer' = Answer("free", s, n, 0)
                /\ UNCHANGED <<usable, free, initialized>>

Next == \/ AddFrames \/ Boot
        \/ \E n \in Counts : \/ Exhausted(n)
                             \/ \E s \in Frames : \/ Allocate(s, n)
                                                  \/ Release(s, n) \/ Refuse(s, n)

Spec == Init /\ [][Next]_vars
=============================================================================
