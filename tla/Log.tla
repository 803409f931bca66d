-------------------------------- MODULE Log --------------------------------
(* The kernel log of kernel/log.c: the formatter, the line a message becomes,
   the ring buffer it is kept in, and the path a panic takes past a lock its
   own victim may hold.  A character is a string of length one; a level's
   prefix (time, thread, level) is cut down to one character. *)
EXTENDS Integers, FiniteSets, SequencesExt

CONSTANTS Writers,
          Formats,      \* messages: sequences of directives
          LogSize,      \* LOG_BUFFER_SIZE
          LineMax,      \* LOG_LINE_MAX
          ReadMax,      \* size of a reader's buffer
          ActiveLevel,  \* active_log_level
          Lines         \* bound on log_write calls

Debug == 0
Info == 1
Panic == 4
Levels == {Debug, Info, Panic}

VARIABLES log,      \* ring_buffer: data, head, tail, dropped_bytes, total_records
          log_lock, \* whether log_lock is held
          log_emergency_mode,
          writer,   \* what each thread is doing in log_vwrite
          serial,   \* lines sent to the serial port
          history,  \* every character ever recorded
          cleared,  \* characters discarded by log_clear_ring_buffer
          cursor, lastRead,  \* a reader of log_read_from_offset
          calls
logVars == <<log, log_lock, log_emergency_mode, writer, serial, history, cleared,
             cursor, lastRead, calls>>

Idle == [at |-> "idle"]

LogInit ==
  /\ log = [data |-> [i \in 0 .. LogSize - 1 |-> ""], head |-> 0, tail |-> 0,
            dropped_bytes |-> 0, total_records |-> 0]
  /\ log_lock = FALSE /\ log_emergency_mode = FALSE
  /\ writer = [w \in Writers |-> Idle]
  /\ serial = <<>> /\ history = <<>> /\ cleared = 0
  /\ cursor = 0 /\ lastRead = [from |-> 0, text |-> <<>>] /\ calls = 0

-----------------------------------------------------------------------------
(* The formatter.  A directive is a literal character or a conversion with
   its flags, width, precision and argument. *)

Pad(c, n) == IF n <= 0 THEN <<>> ELSE [i \in 1 .. n |-> c]

RECURSIVE Digits(_, _)
Digits(value, base) ==
  LET digit == <<"0", "1", "2", "3", "4", "5", "6", "7", "8", "9", "a", "b", "c", "d", "e", "f">>
  IN IF value < base THEN <<digit[value + 1]>>
     ELSE Append(Digits(value \div base, base), digit[(value % base) + 1])

Aligned(body, d) ==
  IF d.left THEN body \o Pad(" ", d.width - Len(body)) ELSE Pad(" ", d.width - Len(body)) \o body

(* A number: its sign or 0x, zeros when asked for (and not overridden by
   '-'), its digits. *)
Number(sign, digits, d) ==
  IF d.zero /\ ~d.left
  THEN sign \o Pad("0", d.width - Len(sign) - Len(digits)) \o digits
  ELSE Aligned(sign \o digits, d)

Convert(d) ==
  CASE d.spec = "lit" -> <<d.arg>>
    [] d.spec = "c" -> Aligned(<<d.arg>>, d)
    [] d.spec = "s" -> Aligned(IF d.precision >= 0 /\ Len(d.arg) > d.precision
                               THEN SubSeq(d.arg, 1, d.precision) ELSE d.arg, d)
    [] d.spec = "d" -> IF d.arg < 0 THEN Number(<<"-">>, Digits((0 - (d.arg + 1)) + 1, 10), d)
                       ELSE Number(<<>>, Digits(d.arg, 10), d)
    [] d.spec = "u" -> Number(<<>>, Digits(d.arg, 10), d)
    [] d.spec = "x" -> Number(<<>>, Digits(d.arg, 16), d)
    [] d.spec = "p" -> Number(<<"0", "x">>, Digits(d.arg, 16), d)
    [] OTHER -> <<"%", d.spec>>

(* What fits in the buffer, and the length that was wanted. *)
kvsnprintf(size, format) ==
  LET text == FlattenSeq([i \in DOMAIN format |-> Convert(format[i])])
  IN [text |-> SubSeq(text, 1, IF Len(text) < size THEN Len(text) ELSE size - 1),
      written |-> Len(text)]

log_format_prefix(level) == <<CASE level = Debug -> "D" [] level = Info -> "I" [] level = Panic -> "P">>

(* The line log_vwrite builds: the last character kept gives way to the
   newline when the message is too long. *)
\* Mutant: a message that fills the buffer is taken to end with a newline.
LineUnterminated(level, format) ==
  LET prefix == log_format_prefix(level)
      message == kvsnprintf(LineMax - Len(prefix), format)
      line == prefix \o message.text
      offset == Len(prefix) + message.written
  IN IF offset + 1 < LineMax
     THEN IF line[offset] # "\n" THEN Append(line, "\n") ELSE line
     ELSE line

Line(level, format) ==
  LET prefix == log_format_prefix(level)
      message == kvsnprintf(LineMax - Len(prefix), format)
      line == prefix \o message.text
      offset == Len(prefix) + message.written
  IN IF offset + 1 < LineMax
     THEN IF line[offset] # "\n" THEN Append(line, "\n") ELSE line
     ELSE [line EXCEPT ![LineMax - 1] = "\n"]

-----------------------------------------------------------------------------
(* The ring *)

At(data, position) == data[position % LogSize]

Stored(l, text) ==
  [l EXCEPT !.data = [i \in DOMAIN @ |->
     IF \E k \in DOMAIN text : (l.head + k - 1) % LogSize = i
     THEN text[CHOOSE k \in DOMAIN text : (l.head + k - 1) % LogSize = i] ELSE @[i]]]

(* The end of the line that contains a position, or the head. *)
RECURSIVE LineEnd(_, _)
LineEnd(l, position) ==
  IF position >= l.head \/ At(l.data, position) = "\n" THEN position
  ELSE LineEnd(l, position + 1)

\* Mutant: the tail is left where the overflow put it.
AdvancedUnaligned(l, n) ==
  LET moved == [l EXCEPT !.head = @ + n, !.total_records = @ + 1]
      overflow == moved.head - moved.tail - LogSize
  IN IF overflow > 0 THEN [moved EXCEPT !.tail = @ + overflow, !.dropped_bytes = @ + overflow]
     ELSE moved

(* Counters after n stored characters: an overflow moves the tail past the
   next newline. *)
Advanced(l, n) ==
  LET moved == [l EXCEPT !.head = @ + n, !.total_records = @ + 1]
      overflow == moved.head - moved.tail - LogSize
      end == LineEnd(moved, moved.tail + overflow)
      tail == IF end < moved.head THEN end + 1 ELSE end
  IN IF overflow > 0 THEN [moved EXCEPT !.tail = tail, !.dropped_bytes = @ + (tail - moved.tail)]
     ELSE moved

log_ring_buffer_write_locked(text) ==
  /\ log' = Advanced(Stored(log, text), Len(text))
  /\ history' = history \o text

Running == ~log_emergency_mode

(* A normal log_vwrite (nothing logs at LOG_LEVEL_PANIC outside a panic): under the lock, which disables interrupts, so that
   only a fault of the writer itself can come between the copy and the
   counters... *)
log_vwrite(w, level, format) ==
  /\ Running /\ calls < Lines /\ writer[w] = Idle /\ ~log_lock
  /\ level >= ActiveLevel
  /\ log_lock' = TRUE /\ calls' = calls + 1
  /\ log' = Stored(log, Line(level, format))
  /\ writer' = [writer EXCEPT ![w] = [at |-> "locked", line |-> Line(level, format)]]
  /\ UNCHANGED <<log_emergency_mode, serial, history, cleared, cursor, lastRead>>

log_vwrite_unlock(w) ==
  /\ Running /\ writer[w].at = "locked"
  /\ log' = Advanced(log, Len(writer[w].line))
  /\ history' = history \o writer[w].line
  /\ log_lock' = FALSE
  /\ writer' = [writer EXCEPT ![w].at = "print"]
  /\ UNCHANGED <<log_emergency_mode, serial, cleared, cursor, lastRead, calls>>

(* ...and printed after it. *)
log_vwrite_print(w) ==
  /\ Running /\ ~log_lock /\ writer[w].at = "print"
  /\ serial' = Append(serial, writer[w].line)
  /\ writer' = [writer EXCEPT ![w] = Idle]
  /\ UNCHANGED <<log, log_lock, log_emergency_mode, history, cleared, cursor, lastRead, calls>>

(* A panic: interrupts stay off, nobody else runs again. *)
log_enter_emergency_mode ==
  /\ Running /\ log_emergency_mode' = TRUE
  /\ UNCHANGED <<log, log_lock, writer, serial, history, cleared, cursor, lastRead, calls>>

(* log_vwrite in emergency mode never waits: a lock that is held costs the
   record in the ring, not the line. *)
EmergencyWrite(level, format) ==
  LET line == Line(level, format)
  IN /\ ~Running /\ calls < Lines /\ calls' = calls + 1
     /\ IF log_lock THEN UNCHANGED <<log, history>> ELSE log_ring_buffer_write_locked(line)
     /\ serial' = Append(serial, line)
     /\ UNCHANGED <<log_lock, log_emergency_mode, writer, cleared, cursor, lastRead>>

\* Mutant: a cursor that fell behind the tail is not moved.
read_from_stale_offset ==
  LET available == log.head - cursor
      n == IF available < ReadMax - 1 THEN available ELSE ReadMax - 1
  IN /\ Running /\ ~log_lock /\ cursor < log.head
     /\ lastRead' = [from |-> cursor, text |-> [i \in 1 .. n |-> At(log.data, cursor + i - 1)]]
     /\ cursor' = cursor + n
     /\ UNCHANGED <<log, log_lock, log_emergency_mode, writer, serial, history, cleared, calls>>

log_read_from_offset ==
  LET from == IF cursor < log.tail THEN log.tail ELSE cursor
      available == log.head - from
      n == IF available < ReadMax - 1 THEN available ELSE ReadMax - 1
  IN /\ Running /\ ~log_lock /\ (cursor < log.tail \/ cursor < log.head)
     /\ lastRead' = [from |-> from, text |-> [i \in 1 .. n |-> At(log.data, from + i - 1)]]
     /\ cursor' = from + n
     /\ UNCHANGED <<log, log_lock, log_emergency_mode, writer, serial, history, cleared, calls>>

log_clear_ring_buffer ==
  /\ Running /\ ~log_lock
  /\ log' = [log EXCEPT !.tail = log.head]
  /\ cleared' = cleared + (log.head - log.tail)
  /\ UNCHANGED <<log_lock, log_emergency_mode, writer, serial, history, cursor, lastRead, calls>>

(* log_read_ring_buffer, and the counters, are reads. *)
log_read_ring_buffer(size) ==
  LET available == log.head - log.tail
      n == IF available < size - 1 THEN available ELSE size - 1
  IN [i \in 1 .. n |-> At(log.data, log.tail + i - 1)]

LogNext ==
  \/ \E w \in Writers : \/ \E level \in Levels \ {Panic}, f \in Formats : log_vwrite(w, level, f)
                        \/ log_vwrite_unlock(w) \/ log_vwrite_print(w)
  \/ \E level \in Levels, f \in Formats : EmergencyWrite(level, f)
  \/ log_enter_emergency_mode \/ log_read_from_offset \/ log_clear_ring_buffer

-----------------------------------------------------------------------------
(* Properties *)

(* Whenever the lock is free the ring holds, from a line boundary to the
   newest character, exactly what was last recorded; every line that was
   ever recorded or printed ends in its only newline and fits; and every
   character is accounted for as kept, dropped or cleared. *)
RingWhole ==
  /\ ~log_lock =>
       /\ log.head = Len(history) /\ log.head - log.tail <= LogSize
       /\ log.dropped_bytes + cleared = log.tail
       /\ log_read_ring_buffer(LogSize + 1) = SubSeq(history, log.tail + 1, log.head)
       /\ log.tail > 0 => history[log.tail] = "\n"
  /\ \A i \in DOMAIN serial :
       /\ Len(serial[i]) < LineMax
       /\ \A k \in DOMAIN serial[i] : serial[i][k] = "\n" <=> k = Len(serial[i])

(* The formatter against a definition from the other end: a converted number
   reads back as its value, fills its width exactly when it is shorter, and
   is padded on the side and with the character its flags name. *)
FormatterExact ==
  LET Value(text, base) == FoldLeft(LAMBDA v, c :
            (v * base) + (CHOOSE k \in 0 .. 15 : Digits(k, 16) = <<c>>), 0, text)
      Trimmed(text) == SelectSeq(text, LAMBDA c : c \notin {" ", "-", "x"})
  IN \A spec \in {"d", "u", "x", "p"}, arg \in {-128, -10, -1, 0, 7, 10, 99, 127, 255},
        width \in 0 .. 5, left, zero \in BOOLEAN :
       (arg >= 0 \/ spec = "d") =>
         LET text == Convert([spec |-> spec, arg |-> arg, width |-> width, left |-> left,
                              zero |-> zero, precision |-> -1])
             plain == Convert([spec |-> spec, arg |-> arg, width |-> 0, left |-> left,
                               zero |-> zero, precision |-> -1])
         IN /\ Value(Trimmed(text), IF spec \in {"x", "p"} THEN 16 ELSE 10)
                  = IF arg < 0 THEN -arg ELSE arg
            /\ Len(text) = IF Len(plain) < width THEN width ELSE Len(plain)
            /\ Len(plain) < width =>
                 /\ left => SubSeq(text, 1, Len(plain)) = plain
                 /\ ~left /\ ~zero => text[1] = " "
                 /\ zero /\ ~left => " " \notin Range(text)

(* A reader following the log with a cursor is given exactly the characters
   recorded at its position, however far the ring has moved on since its
   last call. *)
CursorExact == lastRead.text = SubSeq(history, lastRead.from + 1, lastRead.from + Len(lastRead.text))
=============================================================================
