------------------------------ MODULE RmtServer -------------------------------
(***************************************************************************)
(* The remote tape server (rmt/rmt.rs) and the peer that drives it through *)
(* two pipes.  The peer sends a request of one or more lines and waits for *)
(* one answer before it sends the next; it may die at any moment, so that  *)
(* the end of its last request is missing.  Answers say nothing of what    *)
(* they answer: a request of which the server reads too little or too much *)
(* puts every later answer out of step.                                    *)
(*                                                                         *)
(* A line is what it is taken for as a command, and as an operand.  The    *)
(* data of a write are one line, or none.  A line that is not UTF-8 is     *)
(* "garbled": read_line uses it up, and the server takes it for the end of *)
(* the input (rmt_read).                                                   *)
(***************************************************************************)
EXTENDS Naturals, Sequences

CONSTANTS
  Requests,    \* what the peer may send: sequences of lines
  MaxRequests

Commands == {"C", "I", "L", "O", "R", "S", "W", "empty", "garbage", "garbled"}
Line == [cmd : Commands,
         ok : BOOLEAN,      \* the argument of the command is accepted
         len : 0 .. 1,      \* lines of data that a write announces
         operand : BOOLEAN] \* accepted as flags, as an offset or as a count

(* "I", "L" and "O" read one more line, "W" its data.                      *)
NeedsMore(l) == l.cmd \in {"I", "L", "O"} \/ (l.cmd = "W" /\ l.len = 1)

(* The peer sends requests as the protocol has them, in any characters: a  *)
(* garbled command may have been one that needs a second line.             *)
MayHaveMore(l) == NeedsMore(l) \/ l.cmd = "garbled"
ASSUME RmtServerAssumption ==
  /\ Requests \subseteq Seq(Line) \ {<< >>}
  /\ \A r \in Requests : /\ r[1].cmd # "empty"
                         /\ Len(r) \in 1 .. 2
                         /\ Len(r) = 2 => MayHaveMore(r[1])
                         /\ NeedsMore(r[1]) => Len(r) = 2
  /\ MaxRequests \in Nat

VARIABLES
  pipe,      \* lines on their way to the server, with the request they are of
  answers,   \* on their way to the peer, with the request that caused them
  alive,     \* the peer still writes
  sent,      \* requests sent
  waiting,   \* the peer waits for an answer
  closed,    \* it has sent "C", after which it sends no more
  leftBehind, \* a request was refused, and a line of it left in the pipe
  unheard,   \* a garbled line was taken for the end of the input
  fd,        \* DEVICE_FD holds a descriptor
  open,      \* descriptors of devices that are open
  cur,       \* the command in hand, with its request
  phase      \* of the server

peer == <<alive, sent, waiting, closed>>
device == <<fd, open>>
lost == <<leftBehind, unheard>>
vars == <<pipe, answers, peer, lost, device, cur, phase>>

NoCommand == [cmd |-> "empty", of |-> 0]
Ended == phase \in {"done", "exited"}

Init ==
  /\ pipe = << >>
  /\ answers = << >>
  /\ alive = TRUE
  /\ sent = 0
  /\ waiting = FALSE
  /\ closed = FALSE
  /\ leftBehind = FALSE
  /\ unheard = FALSE
  /\ fd = FALSE
  /\ open = 0
  /\ cur = NoCommand
  /\ phase = "command"

-------------------------------------------------------------------------------
(* The peer                                                                *)
Tagged(r) == [k \in 1 .. Len(r) |-> [line |-> r[k], of |-> sent + 1]]

Send ==
  /\ alive /\ ~waiting /\ ~closed /\ ~Ended
  /\ sent < MaxRequests
  /\ \E r \in Requests : /\ pipe' = pipe \o Tagged(r)
                         /\ closed' = (r[1].cmd = "C")
  /\ sent' = sent + 1
  /\ waiting' = TRUE
  /\ UNCHANGED <<answers, alive, lost, device, cur, phase>>

Receive ==
  /\ waiting
  /\ answers # << >>
  /\ answers' = Tail(answers)
  /\ waiting' = FALSE
  /\ UNCHANGED <<pipe, alive, sent, closed, lost, device, cur, phase>>

(* It reads the end of the pipe, when the server has ended.                *)
SeeEnd ==
  /\ waiting
  /\ answers = << >>
  /\ Ended
  /\ waiting' = FALSE
  /\ UNCHANGED <<pipe, answers, alive, sent, closed, lost, device, cur, phase>>

(* It dies, perhaps before all of its last request is written.             *)
Unwritten == {k \in 1 .. Len(pipe) : waiting /\ pipe[k].of = sent}
Die ==
  /\ alive
  /\ alive' = FALSE
  /\ \/ UNCHANGED pipe
     \/ \E k \in Unwritten : pipe' = SubSeq(pipe, 1, k - 1)
  /\ waiting' = FALSE
  /\ UNCHANGED <<answers, sent, closed, lost, device, cur, phase>>

-------------------------------------------------------------------------------
(* What the server reads and writes                                        *)
HasLine == pipe # << >>
Next1 == Head(pipe).line
Garbled == HasLine /\ Next1.cmd = "garbled"
EndOfInput == pipe = << >> /\ ~alive

(* rmt_read returns nothing.                                               *)
NoLine ==
  \/ EndOfInput /\ UNCHANGED <<pipe, unheard>>
  \/ Garbled /\ pipe' = Tail(pipe) /\ unheard' = TRUE

Answer(what, request) == answers' = Append(answers, [is |-> what, of |-> request])
Reply(request) == Answer("A", request)
Error(request) == Answer("E", request)

Command(c) == phase = "command" /\ HasLine /\ Next1.cmd = c
Take == pipe' = Tail(pipe)
TakeCommand == Take /\ cur' = [cmd |-> Next1.cmd, of |-> Head(pipe).of]
Done == phase' = "command"

EmptyLine ==
  /\ Command("empty")
  /\ Take
  /\ UNCHANGED <<answers, peer, lost, device, cur, phase>>

(* A first character of more than one byte is a panic instead (&buf[1..]). *)
Garbage ==
  /\ Command("garbage")
  /\ Take
  /\ Error(Head(pipe).of) \/ UNCHANGED answers
  /\ phase' = "exited"
  /\ UNCHANGED <<peer, lost, device, cur>>

(* An argument that is not accepted is answered before anything else of    *)
(* the request is read.  An empty line that is left does no harm.          *)
LeavesMore == /\ Len(pipe) > 1
              /\ pipe[2].of = Head(pipe).of
              /\ pipe[2].line.cmd # "empty"

Refuse ==
  /\ \E c \in {"I", "L", "O", "R", "S", "W"} : Command(c)
  /\ ~Next1.ok
  /\ TakeCommand
  /\ Error(Head(pipe).of)
  /\ leftBehind' = (leftBehind \/ LeavesMore)
  /\ UNCHANGED <<peer, unheard, device, phase>>

Accept ==
  /\ \E c \in {"I", "L", "O", "W"} : Command(c)
  /\ Next1.ok
  /\ NeedsMore(Next1)
  /\ TakeCommand
  /\ phase' = "operand"
  /\ UNCHANGED <<answers, peer, lost, device>>

(* The data of a write may be any bytes.                                   *)
Readable == HasLine /\ (cur.cmd = "W" \/ ~Garbled)
Operand(c) == phase = "operand" /\ cur.cmd = c /\ Readable

(* open_device, with the flags.  The old device is closed first; when that *)
(* fails nothing more is done.                                             *)
CloseOldNever == FALSE  \* Mistake: the old device stays open
CloseOld == fd
OpenDevice ==
  /\ Operand("O")
  /\ Take
  /\ Done
  /\ \/ ~Next1.operand /\ Error(cur.of) /\ UNCHANGED device
     \/ /\ Next1.operand
        /\ CloseOld
        /\ open = 0
        /\ Error(cur.of)
        /\ UNCHANGED device
     \/ /\ Next1.operand
        /\ CloseOld => open > 0
        /\ LET others == IF CloseOld THEN open - 1 ELSE open
           IN  \/ fd' = TRUE /\ open' = others + 1 /\ Reply(cur.of)
               \/ fd' = (fd /\ ~CloseOld) /\ open' = others /\ Error(cur.of)
               \/ /\ CloseOld    \* close failed, the descriptor is gone
                  /\ UNCHANGED fd
                  /\ open' = others
                  /\ Error(cur.of)
  /\ UNCHANGED <<peer, lost, cur>>

(* lseek_device, with the offset                                           *)
BadDeviceSilent(request) == UNCHANGED answers  \* Mistake: no answer
BadDevice(request) == Error(request)
LseekDevice ==
  /\ Operand("L")
  /\ Take
  /\ Done
  /\ \/ Next1.operand /\ ~fd /\ BadDevice(cur.of)
     \/ Next1.operand /\ fd /\ open > 0 /\ Reply(cur.of)
     \/ (Next1.operand => fd) /\ Error(cur.of)
  /\ UNCHANGED <<peer, lost, device, cur>>

(* iocop_device, with the count: no operation is supported.                *)
LeaveCount == UNCHANGED pipe  \* Mistake: answered before the count is read
TakeCount == Take
IocopDevice ==
  /\ Operand("I")
  /\ TakeCount
  /\ Done
  /\ Error(cur.of)
  /\ UNCHANGED <<peer, lost, device, cur>>

ReadDevice ==
  /\ Command("R")
  /\ Next1.ok
  /\ TakeCommand
  /\ \/ Error(Head(pipe).of)
     \/ fd /\ open > 0 /\ Reply(Head(pipe).of)
  /\ UNCHANGED <<peer, lost, device, phase>>

(* write_device.  safe_write makes a File of the descriptor, and closes it *)
(* when it is done, so that the rest of a write, and the next, fail.       *)
WriteNothing ==
  /\ Command("W")
  /\ Next1.ok /\ Next1.len = 0
  /\ TakeCommand
  /\ IF fd THEN Reply(Head(pipe).of) ELSE Error(Head(pipe).of)
  /\ UNCHANGED <<peer, lost, device, phase>>

WriteData ==
  /\ Operand("W")
  /\ Take
  /\ Done
  /\ \/ Error(cur.of)
     \/ fd /\ open > 0 /\ Reply(cur.of)
  /\ open' = IF fd /\ open > 0 THEN open - 1 ELSE open
  /\ UNCHANGED <<peer, lost, fd, cur>>

(* status_device: not supported                                            *)
StatusDevice ==
  /\ Command("S")
  /\ Next1.ok
  /\ TakeCommand
  /\ Error(Head(pipe).of)
  /\ UNCHANGED <<peer, lost, device, phase>>

(* No more to read in the middle of a request, or a garbled line.          *)
(* lseek_device and iocop_device return and answer nothing.                *)
AtEndTriesAgain ==  \* Mistake: the operand is waited for
  IF cur.cmd = "O" THEN "exited" ELSE IF cur.cmd = "W" THEN "command" ELSE "operand"
AtEnd == IF cur.cmd = "O" THEN "exited" ELSE "command"
EndInRequest ==
  /\ phase = "operand"
  /\ NoLine
  /\ cur.cmd = "W" => EndOfInput
  /\ phase' = AtEnd
  /\ IF cur.cmd = "W" THEN Error(cur.of) ELSE UNCHANGED answers
  /\ UNCHANGED <<peer, leftBehind, device, cur>>

-------------------------------------------------------------------------------
(* close_device answers only when there was a device.                      *)
CloseDevice(request) ==
  \/ ~fd /\ UNCHANGED <<answers, device>>
  \/ fd /\ open > 0 /\ fd' = FALSE /\ open' = open - 1 /\ Reply(request)
  \/ fd /\ open > 0 /\ UNCHANGED fd /\ open' = open - 1 /\ Error(request)
  \/ fd /\ open = 0 /\ UNCHANGED device /\ Error(request)

Close ==
  /\ Command("C")
  /\ TakeCommand
  /\ CloseDevice(Head(pipe).of)
  /\ phase' = "cleanup"
  /\ UNCHANGED <<peer, lost>>

EndOfCommands ==
  /\ phase = "command"
  /\ NoLine
  /\ phase' = "cleanup"
  /\ UNCHANGED <<answers, peer, leftBehind, device, cur>>

(* main holds the lock of DEVICE_FD when it calls close_device, which asks *)
(* for it again.                                                           *)
Cleanup ==
  /\ phase = "cleanup"
  /\ phase' = IF fd THEN "stuck" ELSE "done"
  /\ UNCHANGED <<pipe, answers, peer, lost, device, cur>>

(* An answer to a peer that no longer reads is a panic.                    *)
BrokenPipe ==
  /\ ~alive
  /\ \/ phase = "command" /\ HasLine /\ Next1.cmd \notin {"empty", "garbled"}
     \/ phase = "operand" /\ Readable
  /\ phase' = "exited"
  /\ UNCHANGED <<pipe, answers, peer, lost, device, cur>>

Server == \/ EmptyLine \/ Garbage \/ Refuse \/ Accept
          \/ OpenDevice \/ LseekDevice \/ IocopDevice
          \/ ReadDevice \/ WriteNothing \/ WriteData \/ StatusDevice
          \/ EndInRequest \/ BrokenPipe
          \/ Close \/ EndOfCommands \/ Cleanup

Next == Send \/ Receive \/ SeeEnd \/ Die \/ Server

Spec == Init /\ [][Next]_vars /\ WF_vars(Server) /\ WF_vars(Receive) /\ WF_vars(SeeEnd)

-------------------------------------------------------------------------------
TypeOK ==
  /\ pipe \in Seq([line : Line, of : Nat])
  /\ answers \in Seq([is : {"A", "E"}, of : Nat])
  /\ <<alive, waiting, closed, leftBehind, unheard, fd>>
       \in BOOLEAN \X BOOLEAN \X BOOLEAN \X BOOLEAN \X BOOLEAN \X BOOLEAN
  /\ sent \in 0 .. MaxRequests
  /\ open \in Nat
  /\ cur \in [cmd : Commands, of : Nat]
  /\ phase \in {"command", "operand", "cleanup", "stuck", "done", "exited"}

(* The answer the peer reads is the one to the request it sent last, and   *)
(* there is no second one behind it, whatever fails: the name of the       *)
(* device, its flags, the device itself, or the close of an old device.    *)
(* (So long as no request is refused half read, rmt.rs:353, 426, 512, 562  *)
(* and 614.)                                                               *)
InStep ==
  ~leftBehind =>
    /\ Len(answers) <= 1
    /\ \A k \in 1 .. Len(answers) : answers[k].of = sent

(* No more than one device is ever open, and an open device is one that    *)
(* DEVICE_FD knows and the next open or close will close.                  *)
NoLeak == open <= 1 /\ (open = 1 => fd)

(* The peer gets an answer, or reads the end of the server's output,       *)
(* except where the code leaves it waiting for ever: a garbled offset or   *)
(* count is answered by nothing (rmt.rs:460-463, 620-623), and after a     *)
(* garbled command (rmt.rs:794), or a line left behind that is taken for a *)
(* close, an open device makes the server stick at its own lock            *)
(* (rmt.rs:799-803).                                                       *)
NeverLeftWaiting ==
  waiting ~> \/ ~waiting
             \/ unheard /\ phase \in {"command", "stuck"}
             \/ leftBehind /\ phase = "stuck"

(* When the peer is gone the server leaves its loop, also when the end of  *)
(* the input comes in the middle of a request.  (With a device left open   *)
(* it then asks for a lock that main holds, rmt.rs:798-803.)               *)
EndsWithPeer == ~alive ~> Ended \/ phase = "stuck"
===============================================================================
