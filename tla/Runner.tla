------------------------------- MODULE Runner -------------------------------
(***************************************************************************)
(* The printer of the command line runner, runner/src/runner.c.  Under     *)
(* sling it collects the pieces of a line in a buffer and sends the line   *)
(* as one message; a line that is too long goes out in fragments, which a  *)
(* flush message ends.  Without sling the pieces go to stdout.             *)
(*                                                                         *)
(*   display   buf         display_buf, with what is left in it of earlier *)
(*                         lines                                           *)
(*             index       display_buf_index, where the next piece goes    *)
(*             fragmented  display_buf_fragmented                          *)
(*             sent        the messages of the line: whether it is an      *)
(*                         error, the text, and whether it ends the line   *)
(*   line      what the program has printed:                               *)
(*             text        the pieces, one after the other                 *)
(*             error       whether it is an error                          *)
(*             state       "none", "open", "ended", or "blank" for a line  *)
(*                         that has ended without a piece                  *)
(***************************************************************************)
EXTENDS CStrings

CONSTANTS
  BufSize,   \* sizeof(display_buf)
  FromSling

ASSUME BufSizeAssumption == BufSize \in Nat \ {0}
ASSUME FromSlingAssumption == FromSling \in BOOLEAN

VARIABLES display, line

\* The format %s stops at a NUL.
Piece == Seq(Nat \ {0})

EmptyBuffer ==
  [buf |-> [i \in 1 .. BufSize |-> 0], index |-> 0, fragmented |-> FALSE, sent |-> <<>>]

NoLine == [text |-> <<>>, error |-> FALSE, state |-> "none"]

RunnerInit == display = EmptyBuffer /\ line = NoLine

send_display_string(d, text, error, ends) ==
  [d EXCEPT !.sent = Append(@, [error |-> error, text |-> CString(text), ends |-> ends])]

\* As much of the text as there is room for, and a NUL.
vsnprintf(buf, index, text) ==
  LET room == BufSize - index - 1
      n == IF Len(text) <= room THEN Len(text) ELSE room
  IN [i \in 1 .. BufSize |->
        IF i \in index + 1 .. index + n THEN text[i - index]
        ELSE IF i = index + n + 1 THEN 0 ELSE buf[i]]

\* Without room for the NUL.
Fits_AtMost(d, text) == Len(text) <= BufSize - d.index

Fits(d, text) == Len(text) < BufSize - d.index

\* What has been collected goes out as a fragment.
Fragment(d, error) ==
  LET cut == [d EXCEPT !.fragmented = TRUE, !.buf[d.index + 1] = 0]
  IN [send_display_string(cut, cut.buf, error, FALSE) EXCEPT !.index = 0]

\* printf_buf, with what print_string and its like do with a piece that does not
\* fit the empty buffer.
printf_buf(d, text, error) ==
  LET tried == [d EXCEPT !.buf = vsnprintf(d.buf, d.index, text)]
      emptied == Fragment(tried, error)
  IN IF Fits(d, text) THEN [tried EXCEPT !.index = @ + Len(text)]
     ELSE IF Len(text) >= BufSize THEN send_display_string(emptied, text, error, FALSE)
     ELSE [emptied EXCEPT !.buf = vsnprintf(emptied.buf, 0, text), !.index = Len(text)]

print_string(d, text, error) ==
  IF FromSling THEN printf_buf(d, text, error) ELSE send_display_string(d, text, error, FALSE)

\* The next line is added to the one that has been sent.
print_flush_IndexKept(d, error) ==
  IF ~ FromSling THEN send_display_string(d, <<>>, error, TRUE)
  ELSE IF d.fragmented
  THEN [d EXCEPT !.fragmented = FALSE, !.index = 0,
                 !.sent = Append(@, [error |-> FALSE, text |-> <<>>, ends |-> TRUE])]
  ELSE send_display_string(d, d.buf, error, TRUE)

\* A flush message ends the line of the fragments; else the buffer is sent.
print_flush(d, error) ==
  IF ~ FromSling THEN send_display_string(d, <<>>, error, TRUE)
  ELSE IF d.fragmented
  THEN [d EXCEPT !.fragmented = FALSE, !.index = 0,
                 !.sent = Append(@, [error |-> FALSE, text |-> <<>>, ends |-> TRUE])]
  ELSE [send_display_string(d, d.buf, error, TRUE) EXCEPT !.index = 0]

-----------------------------------------------------------------------------
\* The messages of the last line have gone.
Taken == IF line.state = "open" THEN display ELSE [display EXCEPT !.sent = <<>>]

\* A piece is handed to the printer.
PrintPiece(text, error) ==
  /\ line.state = "open" => error = line.error
  /\ display' = print_string(Taken, text, error)
  /\ line' = [text |-> IF line.state = "open" THEN line.text \o text ELSE text,
              error |-> error, state |-> "open"]

EndLine(error) ==
  /\ line.state = "open" => error = line.error
  /\ display' = print_flush(Taken, error)
  /\ line' = IF line.state = "open" THEN [line EXCEPT !.state = "ended"]
             ELSE [text |-> <<>>, error |-> error, state |-> "blank"]

Restart == display' = EmptyBuffer /\ line' = NoLine

RunnerNext ==
  \/ \E text \in Piece, error \in BOOLEAN : PrintPiece(text, error)
  \/ \E error \in BOOLEAN : EndLine(error)
  \/ Restart

RunnerSpec == RunnerInit /\ [][RunnerNext]_<<display, line>>

-----------------------------------------------------------------------------
Sent == FlattenSeq([i \in DOMAIN display.sent |-> display.sent[i].text])
Ended == line.state \in {"ended", "blank"}

\* What is printed arrives in order and with its type, and no message but the last
\* of a line ends it.  A line that fits the buffer arrives whole; of a longer one
\* less than a buffer is lost, at its end (runner.c:147-239).
Delivered ==
  /\ \A i \in DOMAIN display.sent :
       /\ display.sent[i].ends <=> Ended /\ i = Len(display.sent)
       /\ display.sent[i].text # <<>> => display.sent[i].error = line.error
  /\ Ended => display.sent # <<>>
  /\ line.state \in {"open", "ended"} => IsPrefix(Sent, line.text)
  /\ line.state = "ended" => /\ Len(line.text) - Len(Sent) < BufSize
                             /\ Len(line.text) < BufSize => Sent = line.text

\* The buffer is never written beyond its end, and what is sent of it ends within
\* it (runner.c:148-170).
WithinBuffer == display.index < BufSize /\ \E i \in 1 .. BufSize : display.buf[i] = 0

\* print prints "every argument in order, space-separated, followed by a newline
\* ... including the zero-argument case, which still prints a bare blank line"
\* (primitives.c:46-48).
WholeLines == Ended => Sent = line.text
=============================================================================
