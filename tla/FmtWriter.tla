------------------------------- MODULE FmtWriter ----------------------------------
(* FmtWriter of proto/fmt_writer.rs: serde_json writes bytes, a fmt::Formatter      *)
(* takes characters only, and a buffer of BUF_SIZE bytes stands between them.  The  *)
(* buffer fills up to anywhere inside a character; what is handed on must never     *)
(* end there, because flush_buf turns the bytes into a str unchecked.               *)
(*                                                                                  *)
(* A byte is its position in the text, so that the bytes that come out can be told  *)
(* from those that should.  Ends holds the positions where characters end.          *)
EXTENDS Integers, Sequences

CONSTANTS BufSize,  \* BUF_SIZE
          Total,    \* length of the text in bytes
          Ends      \* last bytes of its characters

(* A character is four bytes at the most: the text is UTF-8, as serde_json's is.    *)
ASSUME BufAssumption  == BufSize \in Nat /\ BufSize >= 8
ASSUME TextAssumption ==
  /\ Total \in Nat /\ Ends \subseteq 1..Total
  /\ \A p \in 1..Total : \E e \in Ends : p <= e /\ e <= p + 3

VARIABLES step,   \* "idle", "write", "done", "failed": where JsonDisplay::fmt is
          chunk,  \* end of the slice write was called with
          taken,  \* bytes of the text write has taken
          buf, len,
          out     \* what the formatter was given

fmtVars == <<step, chunk, taken, buf, len, out>>

Slots == 0..(BufSize - 1)

FmtInit ==
  /\ step = "idle" /\ chunk = 0 /\ taken = 0
  /\ buf = [i \in Slots |-> 0] /\ len = 0 /\ out = <<>>

-------------------------------------------------------------------------------
(* How many of the first l bytes of b form whole characters.                        *)
WholeAll(b, l) == l    \* defective variant: all of them, from_utf8_unchecked unchecked

Whole(b, l) ==
  CHOOSE k \in 0..l : /\ k > 0 => b[k - 1] \in Ends
                      /\ \A j \in (k + 1)..l : b[j - 1] \notin Ends

(* flush_buf: the whole characters go out, the rest moves to the front.             *)
FlushBufNoMove(b, l, next) ==    \* defective variant: the rest stays where it was
  LET k == Whole(b, l)
  IN  \/ /\ out' = out \o [i \in 1..k |-> b[i - 1]]
         /\ buf' = b /\ len' = l - k /\ step' = next
      \/ k > 0 /\ step' = "failed" /\ buf' = b /\ len' = l /\ UNCHANGED out

FlushBuf(b, l, next) ==
  LET k == Whole(b, l)
  IN  \/ /\ out' = out \o [i \in 1..k |-> b[i - 1]]
         /\ buf' = [i \in Slots |-> IF i < l - k THEN b[i + k] ELSE b[i]]
         /\ len' = l - k /\ step' = next
      \/ k > 0 /\ step' = "failed" /\ buf' = b /\ len' = l /\ UNCHANGED out

(* serde_json hands over whole characters, however many.                            *)
Write ==
  /\ step = "idle" /\ \E e \in Ends : e > taken /\ chunk' = e
  /\ step' = "write" /\ UNCHANGED <<taken, buf, len, out>>

(* A round of write.  A full buffer is flushed, and the room computed before is     *)
(* none: nothing is copied (a second flush finds nothing to do).  Otherwise what    *)
(* fits is copied, and a buffer half full is flushed.                               *)
Round ==
  /\ step = "write" /\ taken < chunk
  /\ LET space   == BufSize - len
         to_copy == IF space < chunk - taken THEN space ELSE chunk - taken
         copied  == [i \in Slots |-> IF len <= i /\ i < len + to_copy
                                     THEN taken + (i - len) + 1 ELSE buf[i]]
     IN  /\ taken' = taken + to_copy
         /\ IF space = 0 THEN FlushBuf(buf, len, "write")
            ELSE IF len + to_copy >= BufSize \div 2 THEN FlushBuf(copied, len + to_copy, "write")
            ELSE buf' = copied /\ len' = len + to_copy /\ UNCHANGED <<step, out>>
  /\ UNCHANGED chunk

Written ==
  /\ step = "write" /\ taken = chunk /\ step' = "idle"
  /\ UNCHANGED <<chunk, taken, buf, len, out>>

(* The last flush of JsonDisplay::fmt.                                              *)
FlushSkipped ==    \* defective variant: left to a drop that does not do it
  /\ step = "idle" /\ taken = Total /\ step' = "done"
  /\ UNCHANGED <<chunk, taken, buf, len, out>>

Flush ==
  /\ step = "idle" /\ taken = Total
  /\ FlushBuf(buf, len, "done") /\ UNCHANGED <<chunk, taken>>

FmtNext == Write \/ Round \/ Written \/ Flush

FmtSpec == FmtInit /\ [][FmtNext]_fmtVars

-------------------------------------------------------------------------------
(* Properties.                                                                      *)

(* The formatter gets the bytes of the text in order, none missing and none twice,  *)
(* and never the beginning of a character without its end; the buffer holds         *)
(* exactly what was taken and not yet given, and no more than it can.               *)
OutputFaithful ==
  /\ \A i \in 1..Len(out) : out[i] = i
  /\ out # <<>> => Len(out) \in Ends
  /\ len \in 0..BufSize /\ Len(out) + len = taken
  /\ \A i \in 0..(len - 1) : buf[i] = Len(out) + i + 1

(* No round of write goes by without progress: between two rounds the buffer has    *)
(* room.  A writer that did not would loop for ever in a call that cannot be        *)
(* interrupted.                                                                     *)
NeverStuck == step = "write" => len < BufSize

(* A text written without an error is written to the end: nothing stays behind in   *)
(* the buffer.                                                                      *)
NothingHeldBack == step = "done" => Len(out) = Total
=================================================================================
