---------------------------- MODULE HandleClient ---------------------------
(* A program that keeps one handle it was given, uses it after it was closed *)
(* and counts how often the handle's entry has been closed since: what a     *)
(* stale handle resolves to (include/kos/handle.h:26-30).                    *)
EXTENDS HandleTable

VARIABLE kept   \* empty, or the one handle the program keeps

MaxCloses == GenModulus   \* bound: closings counted

\* Entries that the step puts into use, and the handles it makes.
Made == {x \in Slots : object[x] = NoObject /\ object'[x] # NoObject}

\* The kept handle is forgotten with its process's table.
Aged(h) ==
  IF tstate'[h.x[1]] = "none" THEN {}
  ELSE IF object[h.x] # NoObject /\ object'[h.x] = NoObject /\ h.closes < MaxCloses
       THEN {[h EXCEPT !.closes = @ + 1]}
       ELSE {h}

Keep == IF kept = {}
        THEN \/ kept' = {}
             \/ \E x \in Made : kept' = {[x |-> x, g |-> generation[x],
                                          o |-> object'[x], closes |-> 0]}
        ELSE \E h \in kept : kept' = Aged(h)

ClientInit == Init /\ kept = {}
ClientNext == Next /\ Keep
ClientSpec == ClientInit /\ [][ClientNext]_<<vars, kept>>

-----------------------------------------------------------------------------
\* Until its entry has been closed as often as there are generations, a kept
\* handle resolves to the object it was made for while it is open, and to
\* nothing once it is closed (handle.c:117, 176-179).
HandleDenotesItsObject ==
  \A h \in kept :
    LET found == handle_lookup(h.x, h.g, {})
    IN  /\ h.closes = 0 /\ tstate[h.x[1]] = "open" => found = h.o
        /\ h.closes \in 1 .. (GenModulus - 2) => found = NoObject

\* What handle.h:29 says of the encoding: "Prevents stale handle access / ABA
\* handle reuse", however often the entry is reused.
StaleHandleNeverResolves ==
  \A h \in kept : h.closes > 0 => handle_lookup(h.x, h.g, {}) = NoObject
=============================================================================
