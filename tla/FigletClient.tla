---------------------------- MODULE FigletClient ----------------------------
(***************************************************************************)
(* The client of a figlet server (src/HW11). The server greets, echoes the *)
(* first byte of a command, and then sends the rest of it with the answer, *)
(* as the comments of main() tell; TCP hands the bytes over in any pieces, *)
(* and the client takes each recv for one message. A message is a sequence *)
(* of tokens; the phrase the client waits for is two of them.              *)
(***************************************************************************)
EXTENDS Integers, Sequences

CONSTANTS
  BufSize       \* bound: tokens the buffer holds (16384 bytes)

Newline == "newline"
Phrase == <<"press", "control-C">>
Answer == <<Newline, "art", "work", Newline>>

(* All that the server says: "hello" and the phrase; the first byte of the *)
(* command and a newline; the rest of the command with the answer. A       *)
(* message of it ends at each of the places in Ends.                       *)
Greeting == 3
Transcript == <<"hello", "press", "control-C", "f", Newline, "iglet", Newline, "art", "work", Newline>>
Ends == {1, 3, 5, 10}

(* The answer is shorter than the buffer of 16384 bytes: a recv that fills *)
(* it makes main() write behind it, cut or not.                            *)
FigletAssumption == BufSize \in Nat /\ BufSize > Len(Transcript) - 5

Stale == [k \in 1..BufSize |-> "?"]          \* what the stack held

VARIABLES
  step,         \* where main() is
  options,      \* which of -f and -m were given
  sent, received,\* how much of the transcript was sent and received
  open,         \* the server has not closed the connection
  buffer, r,
  output, result,
  cut           \* a recv has returned something else than one message

vars == <<step, options, sent, received, open, buffer, r, output, result, cut>>

Init ==
  /\ step = "options" /\ options = {} /\ sent = 0 /\ received = 0 /\ open = TRUE
  /\ buffer = Stale /\ r = 0 /\ output = <<>> /\ result = "none" /\ cut = FALSE

End(how) == step' = "ended" /\ result' = how

Options(given) ==
  /\ step = "options" /\ options' = given
  /\ \/ End("failure") /\ UNCHANGED sent              \* usage, or no connection
     \/ step' = "greeting" /\ sent' = Greeting /\ UNCHANGED result
  /\ UNCHANGED <<received, open, buffer, r, output, cut>>

(* recv: as much as there is, or less, and no more than there is room for, *)
(* wherever a message ends; 0 when the server has closed, -1 for an error. *)
Put(bytes) == buffer' = bytes \o SubSeq(buffer, Len(bytes) + 1, BufSize) /\ r' = Len(bytes)
OneMessage(from, to) == {e \in Ends : from < e /\ e <= to} = {to}
Recv(room) ==
  \/ \E to \in (received + 1)..sent :
       /\ to - received <= room /\ Put(SubSeq(Transcript, received + 1, to))
       /\ received' = to /\ cut' = (cut \/ ~OneMessage(received, to))
  \/ /\ r' = -1 \/ (r' = 0 /\ ~open /\ received = sent)
     /\ cut' = TRUE /\ UNCHANGED <<buffer, received>>

Contains(s, t) == \E k \in 0..(Len(s) - Len(t)) : SubSeq(s, k + 1, k + Len(t)) = t

(* The loop looks at the buffer with what earlier rounds left behind the   *)
(* bytes of this one.                                                      *)
AwaitGreeting ==
  /\ step = "greeting" /\ Recv(BufSize - 1)
  /\ step' = IF r' <= 0 \/ Contains(buffer', Phrase) THEN "send" ELSE "greeting"
  /\ UNCHANGED <<options, sent, open, output, result>>

(* The command is made of two pointers nobody set unless both options were *)
(* given.                                                                  *)
Send ==
  /\ step = "send"
  /\ IF options # {"f", "m"} THEN End("undefined") /\ UNCHANGED sent
     ELSE \/ End("failure") /\ UNCHANGED sent
          \/ /\ step' = "skip" /\ UNCHANGED result
             /\ sent' = IF open THEN Len(Transcript) ELSE sent
  /\ UNCHANGED <<options, received, open, buffer, r, output, cut>>

Skip_None ==
  /\ step = "skip" /\ step' = "receive"
  /\ UNCHANGED <<options, sent, received, open, buffer, r, output, result, cut>>

Skip ==
  /\ step = "skip" /\ Recv(BufSize) /\ step' = "receive"
  /\ UNCHANGED <<options, sent, open, output, result>>

Receive ==
  /\ step = "receive" /\ Recv(BufSize) /\ step' = "print"
  /\ UNCHANGED <<options, sent, open, output, result>>

(* buffer[r] is outside the buffer after an error and after a recv that    *)
(* filled it, and strstr finds nothing in a piece without a newline.       *)
ShowAnswer ==
  /\ step = "print"
  /\ IF r \notin 0..(BufSize - 1) \/ ~Contains(SubSeq(buffer, 1, r), <<Newline>>)
     THEN End("undefined") /\ UNCHANGED output
     ELSE /\ output' = LET piece == SubSeq(buffer, 1, r)
                           first == CHOOSE k \in 1..r : piece[k] = Newline
                                                        /\ \A j \in 1..(k - 1) : piece[j] # Newline
                       IN SubSeq(piece, first, r)
          /\ \/ End("success") \/ End("failure")           \* shutdown fails
  /\ UNCHANGED <<options, sent, received, open, buffer, r, cut>>

(* What has not been received by then may be lost.                         *)
ServerCloses ==
  /\ open /\ step # "ended" /\ open' = FALSE /\ sent' \in received..sent
  /\ UNCHANGED <<step, options, received, buffer, r, output, result, cut>>

Next == \/ \E given \in SUBSET {"f", "m"} : Options(given)
        \/ AwaitGreeting \/ Send \/ Skip \/ Receive \/ ShowAnswer \/ ServerCloses

Spec == Init /\ [][Next]_vars

-----------------------------------------------------------------------------
(* When both options are given and every recv returns one message, the     *)
(* answer is printed, all of it. However the stream is cut or joined, what *)
(* is printed is a piece of what the server sent for this command, from a  *)
(* newline on, and nothing the buffer held before.                         *)
AnswerUnlessCut ==
  /\ options = {"f", "m"} /\ ~cut =>
       /\ result # "undefined"
       /\ result = "success" => output = Answer
  /\ output # <<>> => Contains(SubSeq(Transcript, 5, 10), output)
=============================================================================
