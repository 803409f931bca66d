----------------------------- MODULE MCProcesses -----------------------------
(* Handles, threads and processes, program loading, the log and the other
   processors, side by side: a behaviour is that of one part, the others
   staying as they start.  Which table, object or thread holds a handle does
   not matter. *)
EXTENDS HandleClient, Lifecycle, Smp, TLC

CONSTANTS ElfFiles, ArgumentLists, ElfPage, UserBase, StackBottom, StackTop, UserEnd,
          Word, StackAlign, Slack, ArgumentMax, LengthMax, FrameSupply,
          Writers, Formats, LogSize, LineMax, ReadMax, ActiveLevel, Lines

VARIABLES part,
          file, arguments, supply, stage, segment, page, bytes, pageRights, frames, rsp,
          log, log_lock, log_emergency_mode, writer, serial, history, cleared, cursor,
          lastRead, calls

E == INSTANCE Elf WITH rights <- pageRights
L == INSTANCE Log

handleVars == <<vars, kept>>
elfVars == <<file, arguments, supply, stage, segment, page, bytes, pageRights, frames, rsp>>
logVars == <<log, log_lock, log_emergency_mode, writer, serial, history, cleared, cursor,
             lastRead, calls>>

Symmetry == Permutations(Tables) \cup Permutations(Objects)
              \cup Permutations(Threads)

-----------------------------------------------------------------------------
(* Program files: good ones, overlapping segments, segments that share a page
   or reach the stack, file parts past the end, and damaged headers. *)
LoadSegment(v, m, f, o, w, x) ==
  [type |-> "load", vaddr |-> v, memsz |-> m, filesz |-> f, offset |-> o,
   align |-> 4, write |-> w, exec |-> x]
Note == [type |-> "note"]
File(e, segs) == [header |-> TRUE, entry |-> e, size |-> 24, segments |-> segs]
Text == LoadSegment(8, 4, 4, 0, FALSE, TRUE)
MCFiles ==
  {File(e, <<LoadSegment(8, 12, 10, 0, FALSE, TRUE), Note, LoadSegment(v, m, 4, o, TRUE, FALSE)>>) :
     e \in {8, 19, 20}, v \in {16, 20, 24, 28, 72}, m \in {4, 13}, o \in {12, 20, 24}}
  \cup {File(8, <<Text, LoadSegment(48, 9, 0, 0, TRUE, FALSE)>>),
        File(8, <<Text, [type |-> "interp"]>>),
        File(8, <<LoadSegment(8, 0, 0, 0, FALSE, TRUE)>>), File(8, <<Note>>),
        [File(8, <<Text>>) EXCEPT !.header = FALSE]}
MCArguments == {<<>>, <<1>>, <<3, 0, 2>>, <<9>>, <<5, 5, 3>>, <<1, 1, 1, 1>>}

(* Messages: "a\n", "%05d%x" of -12 and 31, and "%-3.2s" of "bce". *)
Directive(spec, arg, width, left, zero, precision) ==
  [spec |-> spec, arg |-> arg, width |-> width, left |-> left, zero |-> zero,
   precision |-> precision]
Literal(c) == Directive("lit", c, 0, FALSE, FALSE, -1)
MCFormats ==
  { <<Literal("a"), Literal("\n")>>,
    <<Directive("d", -12, 5, FALSE, TRUE, -1), Directive("x", 31, 0, FALSE, FALSE, -1)>>,
    <<Directive("s", <<"b", "c", "e">>, 3, TRUE, FALSE, 2)>> }

-----------------------------------------------------------------------------
(* The value of the variables of a part that is not running; the parts this
   module extends stay in their initial state. *)
Off == "off"
NoProgram == /\ file = Off /\ arguments = Off /\ supply = Off /\ stage = Off
             /\ segment = Off /\ page = Off /\ bytes = Off /\ pageRights = Off
             /\ frames = Off /\ rsp = Off
NoLog == /\ log = Off /\ log_lock = Off /\ log_emergency_mode = Off
         /\ writer = Off /\ serial = Off /\ history = Off /\ cleared = Off
         /\ cursor = Off /\ lastRead = Off /\ calls = Off

ProcessesInit ==
  /\ part \in {"handles", "lifecycle", "elf", "log", "smp"}
  /\ ClientInit
  /\ LifecycleInit
  /\ IF part = "elf" THEN E!ElfInit ELSE NoProgram
  /\ IF part = "log" THEN L!LogInit ELSE NoLog
  /\ SmpInit

ProcessesNext ==
  \/ /\ part = "handles" /\ ClientNext
     /\ UNCHANGED <<part, lifecycleVars, elfVars, logVars, smpVars>>
  \/ /\ part = "lifecycle" /\ LifecycleNext
     /\ UNCHANGED <<part, handleVars, elfVars, logVars, smpVars>>
  \/ /\ part = "elf" /\ E!ElfNext
     /\ UNCHANGED <<part, handleVars, lifecycleVars, logVars, smpVars>>
  \/ /\ part = "log" /\ L!LogNext
     /\ UNCHANGED <<part, handleVars, lifecycleVars, elfVars, smpVars>>
  \/ /\ part = "smp" /\ SmpNext
     /\ UNCHANGED <<part, handleVars, lifecycleVars, elfVars, logVars>>

ProcessesSpec ==
  ProcessesInit /\ [][ProcessesNext]_<<part, handleVars, lifecycleVars, elfVars, logVars, smpVars>>

-----------------------------------------------------------------------------
(* Properties *)

(* A program that elf_load_binary accepts is in memory as its segments say,
   with its arguments below the stack top and every frame accounted for. *)
ProgramLoaded == part = "elf" => E!ImageExact /\ E!StackLaidOut

(* The log's ring keeps whole lines in order, numbers are formatted as asked,
   and a reader with a cursor misses only what was overwritten. *)
LogSound == part = "log" => L!RingWhole /\ L!FormatterExact /\ L!CursorExact
=============================================================================
