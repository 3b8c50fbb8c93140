---------------------------- MODULE RmtServerProofs ----------------------------
(***************************************************************************)
(* What holds of every session with the remote tape server, for any        *)
(* requests of the protocol: the answers stay in step with the requests,   *)
(* also when the peer dies in the middle of one, and no device is left     *)
(* open.                                                                   *)
(***************************************************************************)
EXTENDS RmtServer, SequenceTheorems, TLAPS

Message == [line : Line, of : Nat]
Reaction == [is : {"A", "E"}, of : Nat]

LEMMA InitTypeOK == Init => TypeOK
<1> SUFFICES ASSUME Init PROVE TypeOK
  OBVIOUS
<1>1. pipe \in Seq([line : Line, of : Nat]) /\ answers \in Seq([is : {"A", "E"}, of : Nat])
  BY EmptySeq DEF Init
<1>2. <<alive, waiting, closed, leftBehind, unheard, fd>>
        \in BOOLEAN \X BOOLEAN \X BOOLEAN \X BOOLEAN \X BOOLEAN \X BOOLEAN
  BY DEF Init
<1>3. sent \in 0 .. MaxRequests /\ open \in Nat
  BY RmtServerAssumption DEF Init
<1>4. cur \in [cmd : Commands, of : Nat]
  BY DEF Init, NoCommand, Commands
<1>5. phase \in {"command", "operand", "cleanup", "stuck", "done", "exited"}
  BY DEF Init
<1>6. QED
  BY <1>1, <1>2, <1>3, <1>4, <1>5 DEF TypeOK

(* What the peer sends keeps the types                                     *)
LEMMA TaggedType ==
  ASSUME sent \in Nat, NEW r \in Requests
  PROVE  /\ Tagged(r) \in Seq(Message)
         /\ Len(Tagged(r)) = Len(r) /\ Len(r) \in Nat
         /\ \A k \in 1 .. Len(r) : Tagged(r)[k] = [line |-> r[k], of |-> sent + 1]
<1>1. r \in Seq(Line) /\ Len(r) \in Nat
  BY RmtServerAssumption, LenProperties
<1>2. \A k \in 1 .. Len(r) : r[k] \in Line
  BY <1>1, ElementOfSeq
<1>3. \A k \in 1 .. Len(r) : [line |-> r[k], of |-> sent + 1] \in Message
  BY <1>2 DEF Message
<1>4. Tagged(r) \in [1 .. Len(r) -> Message]
  BY <1>3 DEF Tagged
<1>5. Tagged(r) \in Seq(Message)
  BY <1>1, <1>4, IsASeq
<1>6. Len(Tagged(r)) = Len(r)
  BY <1>1, <1>4, <1>5, LenProperties
<1>7. QED
  BY <1>1, <1>5, <1>6 DEF Tagged

PipeOK == pipe \in Seq(Message)
AnswersOK == answers \in Seq(Reaction)
RestOK ==
  /\ <<alive, waiting, closed, leftBehind, unheard, fd>>
       \in BOOLEAN \X BOOLEAN \X BOOLEAN \X BOOLEAN \X BOOLEAN \X BOOLEAN
  /\ sent \in 0 .. MaxRequests
  /\ open \in Nat
  /\ cur \in [cmd : Commands, of : Nat]
  /\ phase \in {"command", "operand", "cleanup", "stuck", "done", "exited"}

LEMMA TypeParts == TypeOK <=> PipeOK /\ AnswersOK /\ RestOK
BY DEF TypeOK, PipeOK, AnswersOK, RestOK, Message, Reaction

(* The first line of a pipe, and what is left when it is taken             *)
LEMMA FirstLine ==
  ASSUME PipeOK, HasLine
  PROVE  /\ Head(pipe) = pipe[1] /\ Head(pipe) \in Message /\ Next1 \in Line
         /\ Head(pipe).of \in Nat
         /\ Len(pipe) \in Nat /\ Len(pipe) >= 1
         /\ Tail(pipe) \in Seq(Message) /\ Len(Tail(pipe)) = Len(pipe) - 1
         /\ \A k \in 1 .. Len(pipe) - 1 : Tail(pipe)[k] = pipe[k + 1]
<1>1. pipe \in Seq(Message) /\ pipe # << >>
  BY DEF PipeOK, HasLine
<1>2. Len(pipe) \in Nat /\ Len(pipe) >= 1
  BY <1>1, LenProperties, EmptySeq
<1>3. /\ Head(pipe) \in Message
      /\ Tail(pipe) \in Seq(Message) /\ Len(Tail(pipe)) = Len(pipe) - 1
      /\ \A k \in 1 .. Len(Tail(pipe)) : Tail(pipe)[k] = pipe[k + 1]
  BY <1>1, HeadTailProperties
<1>4. Head(pipe) = pipe[1]
  BY <1>1
<1>5. QED
  BY <1>2, <1>3, <1>4 DEF Next1, Message

LEMMA Answered ==
  ASSUME AnswersOK, NEW what \in {"A", "E"}, NEW request \in Nat, Answer(what, request)
  PROVE  /\ AnswersOK'
         /\ Len(answers') = Len(answers) + 1
         /\ answers'[Len(answers) + 1].of = request
<1>1. [is |-> what, of |-> request] \in Reaction
  BY DEF Reaction
<1>2. QED
  BY <1>1, AppendProperties DEF Answer, AnswersOK


-------------------------------------------------------------------------------
(* Devices                                                                 *)
LeakInv == /\ open \in Nat
           /\ fd \in BOOLEAN
           /\ NoLeak

LEMMA LeakNext == LeakInv /\ [Next]_vars => LeakInv'
<1> SUFFICES ASSUME open \in Nat, fd \in BOOLEAN, open <= 1, open = 1 => fd, [Next]_vars
             PROVE  open' \in Nat /\ fd' \in BOOLEAN /\ open' <= 1 /\ (open' = 1 => fd')
  BY DEF LeakInv, NoLeak
<1>0. open = 0 \/ (open = 1 /\ fd)
  <2>1. open = 0 \/ open = 1
    OBVIOUS
  <2>2. QED
    BY <2>1
<1>1. CASE UNCHANGED device
  BY <1>1 DEF device
<1>2. CASE OpenDevice /\ ~UNCHANGED device
  <2>1. /\ fd => open > 0
        /\ \/ fd' = TRUE
           \/ fd' = FALSE /\ open' = IF fd THEN open - 1 ELSE open
           \/ fd /\ fd' = fd
        /\ open' = (IF fd THEN open - 1 ELSE open) \/ open' = (IF fd THEN open - 1 ELSE open) + 1
    BY <1>2, Zenon DEF OpenDevice, CloseOld
  <2>2. (IF fd THEN open - 1 ELSE open) = 0
    BY <1>0, <2>1
  <2>3. open' = 0 \/ open' = 1
    BY <2>1, <2>2
  <2>4. fd' = TRUE \/ (fd' = FALSE /\ open' = 0) \/ (fd /\ fd' = fd)
    <3>1. open' = (IF fd THEN open - 1 ELSE open) => open' = 0
      BY <2>2
    <3>2. QED
      BY <2>1, <3>1, Zenon
  <2>5. open' = 0 => open' # 1
    OBVIOUS
  <2>6. open' \in Nat /\ open' <= 1
    BY <2>3
  <2>7. fd' \in BOOLEAN /\ (open' = 1 => fd')
    BY <2>4, <2>5, Zenon
  <2>8. QED
    BY <2>6, <2>7
<1>3. CASE WriteData
  <2>1. fd' = fd /\ (open' = open \/ (open > 0 /\ open' = open - 1))
    BY <1>3 DEF WriteData
  <2>2. open' \in Nat /\ open' <= 1 /\ (open' = 1 => open = 1)
    BY <2>1
  <2>3. QED
    BY <2>1, <2>2
<1>4. CASE Close /\ ~UNCHANGED device
  <2>1. open > 0 /\ open' = open - 1 /\ (fd' = FALSE \/ fd' = fd)
    BY <1>4, Zenon DEF Close, CloseDevice
  <2>2. open' = 0
    BY <2>1, <1>0
  <2>3. fd' \in BOOLEAN
    BY <2>1, Zenon
  <2>4. QED
    BY <2>2, <2>3
<1>5. CASE \/ Send \/ Receive \/ SeeEnd \/ Die \/ EmptyLine \/ Garbage \/ Refuse \/ Accept
           \/ LseekDevice \/ IocopDevice \/ ReadDevice \/ WriteNothing \/ StatusDevice
           \/ EndInRequest \/ BrokenPipe \/ EndOfCommands \/ Cleanup \/ UNCHANGED vars
  <2>1. UNCHANGED device
    BY <1>5 DEF Send, Receive, SeeEnd, Die, EmptyLine, Garbage, Refuse, Accept, LseekDevice,
       IocopDevice, ReadDevice, WriteNothing, StatusDevice, EndInRequest, BrokenPipe,
       EndOfCommands, Cleanup, vars
  <2>2. QED
    BY <1>1, <2>1
<1>6. QED
  BY <1>1, <1>2, <1>3, <1>4, <1>5 DEF Next, Server

(* No more than one device is open, and the table of the server knows it,  *)
(* whichever of opening, closing and writing fails (open_device,           *)
(* close_device, write_device).                                            *)
THEOREM OneDeviceAtMost == Spec => []NoLeak
<1>1. Init => LeakInv
  <2> SUFFICES ASSUME Init PROVE LeakInv
    OBVIOUS
  <2>1. open = 0 /\ fd = FALSE
    BY DEF Init
  <2>2. open \in Nat /\ open <= 1 /\ open # 1
    BY <2>1
  <2>3. QED
    BY <2>1, <2>2, Zenon DEF LeakInv, NoLeak
<1>2. LeakInv => NoLeak
  BY DEF LeakInv
<1>3. QED
  BY <1>1, <1>2, LeakNext, PTL DEF Spec
-------------------------------------------------------------------------------
LEMMA NextTypeOK == TypeOK /\ [Next]_vars => TypeOK'
<1> SUFFICES ASSUME PipeOK, AnswersOK, RestOK, [Next]_vars PROVE PipeOK' /\ AnswersOK' /\ RestOK'
  BY TypeParts DEF TypeOK, PipeOK, AnswersOK, RestOK, Message, Reaction
<1>0. sent \in Nat /\ cur.of \in Nat
  BY RmtServerAssumption DEF RestOK
<1>1. PipeOK'
  <2>1. CASE Send
    <3>1. PICK r \in Requests : pipe' = pipe \o Tagged(r)
      BY <2>1 DEF Send
    <3>2. QED
      BY <1>0, <3>1, TaggedType, ConcatProperties DEF PipeOK
  <2>2. CASE Die
    <3>1. CASE UNCHANGED pipe
      BY <3>1 DEF PipeOK
    <3>2. ASSUME NEW k \in 1 .. Len(pipe), pipe' = SubSeq(pipe, 1, k - 1) PROVE PipeOK'
      <4>1. Len(pipe) \in Nat
        BY LenProperties DEF PipeOK
      <4>2. \A i \in 1 .. k - 1 : pipe[i] \in Message
        BY <4>1, ElementOfSeq DEF PipeOK
      <4>3. QED
        BY <3>2, <4>1, <4>2, SubSeqProperties DEF PipeOK
    <3>3. QED
      BY <2>2, <3>1, <3>2 DEF Die, Unwritten
  <2>3. CASE pipe' = Tail(pipe) /\ HasLine
    BY <2>3, FirstLine DEF PipeOK
  <2>4. CASE UNCHANGED pipe
    BY <2>4 DEF PipeOK
  <2>5. QED
    BY <2>1, <2>2, <2>3, <2>4 DEF Next, Server, Receive, SeeEnd, EmptyLine, Garbage, Refuse,
       Accept, OpenDevice, LseekDevice, IocopDevice, TakeCount, ReadDevice, WriteNothing, WriteData,
       StatusDevice, EndInRequest, NoLine, Garbled, BrokenPipe, Close, EndOfCommands, Cleanup, Take,
       TakeCommand, Command, Operand, Readable, vars
<1>2. AnswersOK'
  <2>1. CASE UNCHANGED answers
    BY <2>1 DEF AnswersOK
  <2>2. CASE Receive
    BY <2>2, HeadTailProperties DEF Receive, AnswersOK
  <2>3. CASE Error(cur.of) \/ Reply(cur.of)
    BY <1>0, <2>3, Answered DEF Error, Reply
  <2>4. CASE HasLine /\ (Error(Head(pipe).of) \/ Reply(Head(pipe).of))
    BY <2>4, FirstLine, Answered DEF Error, Reply
  <2>5. QED
    BY <2>1, <2>2, <2>3, <2>4, Zenon DEF Next, Server, Send, SeeEnd, Die, EmptyLine, Garbage,
       Refuse, Accept, OpenDevice, LseekDevice, BadDevice, IocopDevice, ReadDevice, WriteNothing,
       WriteData, StatusDevice, EndInRequest, BrokenPipe, Close, CloseDevice, EndOfCommands,
       Cleanup, Command, vars
<1>3. alive \in BOOLEAN /\ waiting \in BOOLEAN /\ closed \in BOOLEAN /\ leftBehind \in BOOLEAN
      /\ unheard \in BOOLEAN /\ fd \in BOOLEAN
  BY DEF RestOK
<1>4. alive' \in BOOLEAN /\ waiting' \in BOOLEAN
  BY <1>3, Zenon DEF Next, Server, Send, Receive, SeeEnd, Die, EmptyLine, Garbage, Refuse, Accept,
     OpenDevice, LseekDevice, IocopDevice, ReadDevice, WriteNothing, WriteData, StatusDevice,
     EndInRequest, BrokenPipe, Close, EndOfCommands, Cleanup, peer, vars
<1>5. closed' \in BOOLEAN /\ leftBehind' \in BOOLEAN /\ unheard' \in BOOLEAN
  <2>1. CASE Send
    BY <1>3, <2>1, Zenon DEF Send, lost
  <2>2. CASE Refuse
    BY <1>3, <2>2, Zenon DEF Refuse, peer
  <2>3. CASE ~Send /\ ~Refuse
    BY <1>3, <2>3, Zenon DEF Next, Server, Receive, SeeEnd, Die, EmptyLine, Garbage, Accept,
     OpenDevice, LseekDevice, IocopDevice, ReadDevice, WriteNothing, WriteData, StatusDevice,
     EndInRequest, NoLine, BrokenPipe, Close, EndOfCommands, Cleanup, peer, lost, vars
  <2>4. QED
    BY <2>1, <2>2, <2>3
<1>6. fd' \in BOOLEAN
  <2>1. CASE OpenDevice
    BY <1>3, <2>1, Zenon DEF OpenDevice, device
  <2>2. CASE Close
    BY <1>3, <2>2, Zenon DEF Close, CloseDevice, device
  <2>3. CASE ~OpenDevice /\ ~Close
    BY <1>3, <2>3, Zenon DEF Next, Server, Send, Receive, SeeEnd, Die, EmptyLine, Garbage, Refuse,
     Accept, LseekDevice, IocopDevice, ReadDevice, WriteNothing, WriteData, StatusDevice,
     EndInRequest, BrokenPipe, EndOfCommands, Cleanup, device, vars
  <2>4. QED
    BY <2>1, <2>2, <2>3
<1>7. sent' \in 0 .. MaxRequests
  BY RmtServerAssumption DEF RestOK, Next, Server, Send, Receive, SeeEnd, Die, EmptyLine, Garbage,
     Refuse, Accept, OpenDevice, LseekDevice, IocopDevice, ReadDevice, WriteNothing, WriteData,
     StatusDevice, EndInRequest, BrokenPipe, Close, EndOfCommands, Cleanup, peer, vars
<1>8. open' \in Nat
  <2>1. CASE OpenDevice
    <3>1. \/ open' = open
          \/ /\ CloseOld => open > 0
             /\ \E n \in {open, open + 1, open - 1} : open' = n /\ (n = open - 1 => CloseOld)
      BY <2>1 DEF OpenDevice, device, RestOK
    <3>2. QED
      BY <3>1 DEF RestOK
  <2>2. CASE Close
    BY <2>2 DEF Close, CloseDevice, device, RestOK
  <2>3. CASE WriteData
    BY <2>3 DEF WriteData, RestOK
  <2>4. CASE ~OpenDevice /\ ~Close /\ ~WriteData
    BY <2>4 DEF RestOK, Next, Server, Send, Receive, SeeEnd, Die, EmptyLine, Garbage, Refuse,
     Accept, LseekDevice, IocopDevice, ReadDevice, WriteNothing, StatusDevice,
     EndInRequest, BrokenPipe, EndOfCommands, Cleanup, device, vars
  <2>5. QED
    BY <2>1, <2>2, <2>3, <2>4
<1>9. cur' \in [cmd : Commands, of : Nat]
  <2>1. CASE HasLine /\ cur' = [cmd |-> Next1.cmd, of |-> Head(pipe).of]
    BY <2>1, FirstLine DEF Line
  <2>2. CASE UNCHANGED cur
    BY <2>2 DEF RestOK
  <2>3. QED
    BY <2>1, <2>2 DEF Next, Server, Send, Receive, SeeEnd, Die, EmptyLine, Garbage, Refuse,
     Accept, OpenDevice, LseekDevice, IocopDevice, ReadDevice, WriteNothing, WriteData,
     StatusDevice, EndInRequest, BrokenPipe, Close, EndOfCommands, Cleanup, TakeCommand,
     Command, vars
<1>10. phase' \in {"command", "operand", "cleanup", "stuck", "done", "exited"}
  BY DEF RestOK, Next, Server, Send, Receive, SeeEnd, Die, EmptyLine, Garbage, Refuse,
     Accept, OpenDevice, LseekDevice, IocopDevice, ReadDevice, WriteNothing, WriteData, AtEnd,
     StatusDevice, EndInRequest, BrokenPipe, Close, EndOfCommands, Cleanup, Done, vars
<1>11. <<alive, waiting, closed, leftBehind, unheard, fd>>'
         \in BOOLEAN \X BOOLEAN \X BOOLEAN \X BOOLEAN \X BOOLEAN \X BOOLEAN
  BY <1>4, <1>5, <1>6
<1>12. RestOK'
  BY <1>7, <1>8, <1>9, <1>10, <1>11 DEF RestOK
<1>13. QED
  BY <1>1, <1>2, <1>12

(* Every variable keeps its type.                                          *)
THEOREM TypeCorrect == Spec => []TypeOK
<1>1. QED
  BY InitTypeOK, NextTypeOK, PTL DEF Spec
-------------------------------------------------------------------------------
(* Answers.  Between two requests no line is left in the pipe, or lines    *)
(* that do no harm; a request is answered in one step, or has its first    *)
(* line taken and the answer still to come; or the server has ended with   *)
(* a peer that died, or has given up on a garbled command with a peer that *)
(* waits.                                                                  *)
Leaving == phase \in {"cleanup", "stuck", "done"}
Common == ~alive => ~waiting

AllEmpty == \A k \in 1 .. Len(pipe) : pipe[k].line.cmd = "empty"
Answerless == answers = << >>
OneAnswer == Len(answers) <= 1 /\ \A k \in 1 .. Len(answers) : answers[k].of = sent

Idle == /\ phase # "operand"
        /\ AllEmpty
        /\ OneAnswer
        /\ alive /\ ~waiting => Answerless
        /\ Leaving => closed \/ ~alive

RequestAt(m) ==
  /\ \A k \in 1 .. m - 1 : pipe[k].line.cmd = "empty"
  /\ pipe[m].line.cmd # "empty"
  /\ pipe[m].of = sent
  /\ Len(pipe) <= m + 1
  /\ Len(pipe) = m + 1 => MayHaveMore(pipe[m].line) /\ pipe[m + 1].of = sent
  /\ pipe[m].line.cmd = "C" => closed

Requested == /\ phase = "command"
             /\ Answerless
             /\ alive => waiting
             /\ \E m \in 1 .. Len(pipe) : RequestAt(m)

Reading == /\ phase = "operand"
           /\ Answerless
           /\ alive => waiting
           /\ cur.of = sent
           /\ Len(pipe) <= 1

Over == ~alive /\ phase = "exited" /\ Answerless

GivenUp == Leaving /\ Answerless /\ (alive => waiting \/ phase = "done")

Course == Idle \/ Requested \/ Reading \/ Over \/ GivenUp
StepInv == leftBehind \/ (Common /\ Course)

LEMMA TwoParts ==
  ASSUME NEW S, NEW a \in Seq(S), NEW b \in Seq(S), NEW c, c = a \o b
  PROVE  /\ Len(c) = Len(a) + Len(b)
         /\ \A k \in 1 .. Len(a) : c[k] = a[k]
         /\ \A k \in 1 .. Len(b) : c[Len(a) + k] = b[k]
<1>1. Len(a) \in Nat /\ Len(b) \in Nat
  BY LenProperties
<1>2. \A i \in 1 .. Len(a) + Len(b) : c[i] = IF i <= Len(a) THEN a[i] ELSE b[i - Len(a)]
  BY ConcatProperties
<1>3. ASSUME NEW k \in 1 .. Len(b) PROVE c[Len(a) + k] = b[k]
  <2>1. Len(a) + k \in 1 .. Len(a) + Len(b) /\ ~(Len(a) + k <= Len(a)) /\ Len(a) + k - Len(a) = k
    BY <1>1
  <2>2. QED
    BY <1>2, <2>1
<1>4. QED
  BY <1>1, <1>2, <1>3, ConcatProperties

(* The command at the front of the pipe is the whole of the last request,  *)
(* and nothing has answered it.                                            *)
LEMMA InHand ==
  ASSUME PipeOK, RestOK, Course, phase = "command", HasLine, Next1.cmd # "empty"
  PROVE  /\ Answerless
         /\ alive => waiting
         /\ Head(pipe).of = sent
         /\ Len(Tail(pipe)) <= 1
         /\ Tail(pipe) # << >> => /\ MayHaveMore(Next1)
                                 /\ Len(pipe) > 1 /\ pipe[2].of = Head(pipe).of
         /\ Next1.cmd = "C" => closed
<1>1. /\ Head(pipe) = pipe[1] /\ Next1 = pipe[1].line
      /\ Len(pipe) \in Nat /\ Len(pipe) >= 1
      /\ Tail(pipe) \in Seq(Message) /\ Len(Tail(pipe)) = Len(pipe) - 1
  BY FirstLine DEF Next1
<1>2. pipe[1].line.cmd # "empty" /\ 1 \in 1 .. Len(pipe)
  BY <1>1
<1>3. ~Idle /\ ~Reading /\ ~Over /\ ~GivenUp
  BY <1>2 DEF Idle, AllEmpty, Reading, Over, GivenUp, Leaving
<1>4. PICK m \in 1 .. Len(pipe) : RequestAt(m)
  BY <1>3 DEF Course, Requested
<1>5. m = 1
  <2>1. m \in Nat /\ m >= 1
    BY <1>1, <1>4
  <2>2. ~(1 \in 1 .. m - 1)
    BY <1>2, <1>4 DEF RequestAt
  <2>3. QED
    BY <2>1, <2>2
<1>6. /\ pipe[1].of = sent
      /\ Len(pipe) <= 2
      /\ Len(pipe) = 2 => MayHaveMore(pipe[1].line) /\ pipe[2].of = sent
      /\ pipe[1].line.cmd = "C" => closed
  BY <1>4, <1>5 DEF RequestAt
<1>7. Tail(pipe) # << >> => Len(pipe) = 2
  BY <1>1, <1>6, EmptySeq
<1>8. QED
  BY <1>1, <1>3, <1>6, <1>7 DEF Course, Requested

(* The answer to the last request                                          *)
LEMMA SettlesRequest ==
  ASSUME AnswersOK, Answerless, sent \in Nat, sent' = sent, Error(sent) \/ Reply(sent)
  PROVE  OneAnswer'
<1>1. Len(answers) = 0
  BY DEF Answerless
<1>2. Len(answers') = 1 /\ answers'[1].of = sent
  BY <1>1, Answered DEF Error, Reply
<1>3. QED
  BY <1>2 DEF OneAnswer

LEMMA NothingLeft == ASSUME pipe' = << >> PROVE AllEmpty'
BY DEF AllEmpty

LEMMA Silent == ASSUME answers' = << >> PROVE OneAnswer' /\ Answerless'
BY DEF OneAnswer, Answerless

LEMMA StepSend ==
  ASSUME PipeOK, RestOK, sent \in Nat, Common, Course, Send
  PROVE  Common' /\ Course'
<1>1. /\ alive /\ ~waiting /\ ~closed /\ phase \notin {"done", "exited"}
      /\ sent' = sent + 1 /\ waiting' = TRUE /\ alive' = alive
      /\ answers' = answers /\ phase' = phase
  BY DEF Send, Ended, device
<1>2. Idle /\ Answerless /\ phase = "command"
  BY <1>1 DEF Course, Idle, Requested, Reading, Over, GivenUp, Leaving, RestOK
<1>3. PICK r \in Requests : pipe' = pipe \o Tagged(r) /\ closed' = (r[1].cmd = "C")
  BY DEF Send
<1>4. /\ r[1].cmd # "empty"
      /\ Len(r) \in 1 .. 2
      /\ Len(r) = 2 => MayHaveMore(r[1])
  BY RmtServerAssumption
<1>5. /\ Tagged(r) \in Seq(Message)
      /\ Len(Tagged(r)) = Len(r) /\ Len(r) \in Nat
      /\ \A k \in 1 .. Len(r) : Tagged(r)[k] = [line |-> r[k], of |-> sent + 1]
  BY TaggedType
<1>6. pipe \in Seq(Message) /\ Len(pipe) \in Nat
  BY LenProperties DEF PipeOK
<1>7. /\ Len(pipe') = Len(pipe) + Len(r)
      /\ \A k \in 1 .. Len(pipe) : pipe'[k] = pipe[k]
      /\ \A k \in 1 .. Len(r) : pipe'[Len(pipe) + k] = [line |-> r[k], of |-> sent + 1]
  <2>1. /\ Len(pipe') = Len(pipe) + Len(Tagged(r))
        /\ \A k \in 1 .. Len(pipe) : pipe'[k] = pipe[k]
        /\ \A k \in 1 .. Len(Tagged(r)) : pipe'[Len(pipe) + k] = Tagged(r)[k]
    <3>1. pipe \in Seq(Message) /\ Tagged(r) \in Seq(Message) /\ pipe' = pipe \o Tagged(r)
      BY <1>3, <1>5, <1>6
    <3>2. QED
      BY <3>1, TwoParts
  <2>2. QED
    BY <2>1, <1>5
<1>8. PICK m \in Nat : m = Len(pipe) + 1
  BY <1>6
<1>9. m \in 1 .. Len(pipe') /\ pipe'[m] = [line |-> r[1], of |-> sent + 1]
  <2>1. 1 \in 1 .. Len(r)
    BY <1>4, <1>5
  <2>2. QED
    BY <1>6, <1>7, <1>8, <2>1, <1>5
<1>10. Len(pipe') <= m + 1
  BY <1>4, <1>5, <1>6, <1>7, <1>8
<1>11. Len(pipe') = m + 1 => MayHaveMore(r[1]) /\ pipe'[m + 1].of = sent + 1
  <2> SUFFICES ASSUME Len(pipe') = m + 1 PROVE MayHaveMore(r[1]) /\ pipe'[m + 1].of = sent + 1
    OBVIOUS
  <2>1. Len(r) = 2
    BY <1>5, <1>6, <1>7, <1>8
  <2>2. pipe'[Len(pipe) + 2] = [line |-> r[2], of |-> sent + 1]
    BY <2>1, <1>7
  <2>3. m + 1 = Len(pipe) + 2
    BY <1>6, <1>8
  <2>4. QED
    BY <1>4, <2>1, <2>2, <2>3
<1>12. \A k \in 1 .. m - 1 : pipe'[k].line.cmd = "empty"
  <2>1. m - 1 = Len(pipe)
    BY <1>6, <1>8
  <2>2. QED
    BY <1>2, <1>7, <2>1 DEF Idle, AllEmpty
<1>13. RequestAt(m)'
  <2>1. pipe'[m].line = r[1] /\ pipe'[m].of = sent'
    BY <1>1, <1>9
  <2>2. r[1].cmd = "C" => closed'
    BY <1>3, Zenon
  <2>3. /\ pipe'[m].line.cmd # "empty"
        /\ Len(pipe') = m + 1 => MayHaveMore(pipe'[m].line) /\ pipe'[m + 1].of = sent'
    BY <2>1, <1>1, <1>4, <1>11
  <2>4. pipe'[m].line.cmd = "C" => closed'
    BY <2>1, <2>2
  <2>5. QED
    BY <2>1, <2>3, <2>4, <1>10, <1>12 DEF RequestAt
<1>14. Requested'
  <2>1. \E k \in 1 .. Len(pipe') : RequestAt(k)'
    BY <1>9, <1>13
  <2>2. phase' = "command" /\ Answerless'
    BY <1>1, <1>2 DEF Answerless
  <2>3. waiting'
    BY <1>1, Zenon
  <2>4. QED
    BY <2>1, <2>2, <2>3 DEF Requested
<1>15. Common'
  <2>1. alive' /\ waiting'
    BY <1>1, Zenon
  <2>2. QED
    BY <2>1, Zenon DEF Common
<1>16. QED
  BY <1>14, <1>15 DEF Course

LEMMA StepDie ==
  ASSUME PipeOK, RestOK, Common, Course, Die
  PROVE  Common' /\ Course'
<1>1. /\ alive /\ alive' = FALSE /\ waiting' = FALSE
      /\ answers' = answers /\ sent' = sent /\ closed' = closed
      /\ phase' = phase /\ cur' = cur
  BY DEF Die
<1>2. Common'
  BY <1>1, Zenon DEF Common
<1>3. Len(pipe) \in Nat
  BY LenProperties DEF PipeOK
<1>4. CASE UNCHANGED pipe
  <2>1. Idle => Idle'
    BY <1>1, <1>4, Zenon DEF Idle, AllEmpty, OneAnswer, Leaving
  <2>2. Requested => Requested'
    <3>1. ASSUME NEW m, RequestAt(m) PROVE RequestAt(m)'
      BY <1>1, <1>4, <3>1, Zenon DEF RequestAt
    <3>2. QED
      BY <1>1, <1>4, <3>1, Zenon DEF Requested, Answerless
  <2>3. Reading => Reading'
    BY <1>1, <1>4, Zenon DEF Reading, Answerless
  <2>4. ~Over
    BY <1>1, Zenon DEF Over
  <2>5. GivenUp => GivenUp'
    BY <1>1, Zenon DEF GivenUp, Leaving, Answerless
  <2>6. QED
    BY <1>2, <2>1, <2>2, <2>3, <2>4, <2>5 DEF Course
<1>5. ASSUME NEW k \in 1 .. Len(pipe), pipe' = SubSeq(pipe, 1, k - 1)
      PROVE  Course'
  <2>1. /\ Len(pipe') = k - 1
        /\ \A i \in 1 .. k - 1 : pipe'[i] = pipe[i]
    <3>1. k \in Int /\ k - 1 \in Int /\ (1 <= k - 1 \/ k - 1 = 0)
      BY <1>3
    <3>2. \A i \in 1 .. k - 1 : pipe[i] \in Message
      BY <1>3, ElementOfSeq DEF PipeOK
    <3>3. /\ Len(SubSeq(pipe, 1, k - 1)) = IF 1 <= k - 1 THEN k - 1 - 1 + 1 ELSE 0
          /\ \A i \in 1 .. k - 1 - 1 + 1 : SubSeq(pipe, 1, k - 1)[i] = pipe[1 + i - 1]
      BY <3>1, <3>2, SubSeqProperties
    <3>4. QED
      BY <1>5, <3>1, <3>3
  <2>2. Idle => Idle'
    <3>1. AllEmpty => AllEmpty'
      BY <1>3, <2>1 DEF AllEmpty
    <3>2. QED
      BY <1>1, <3>1, Zenon DEF Idle, OneAnswer, Leaving
  <2>3. Requested => Idle' \/ Requested'
    <3> SUFFICES ASSUME Requested PROVE Idle' \/ Requested'
      OBVIOUS
    <3>1. PICK m \in 1 .. Len(pipe) : RequestAt(m)
      BY DEF Requested
    <3>2. phase' = "command" /\ answers' = << >>
      BY <1>1 DEF Requested, Answerless
    <3>3. CASE k <= m
      <4>1. AllEmpty'
        BY <1>3, <2>1, <3>1, <3>3 DEF RequestAt, AllEmpty
      <4>2. QED
        BY <3>2, <4>1, Silent DEF Idle, Leaving
    <3>4. CASE k > m
      <4>1. Len(pipe) = m + 1 /\ k = m + 1
        BY <1>3, <3>1, <3>4 DEF RequestAt
      <4>2. Len(pipe') = m /\ m \in 1 .. Len(pipe') /\ \A i \in 1 .. m : pipe'[i] = pipe[i]
        BY <1>3, <2>1, <4>1
      <4>3. pipe'[m].line.cmd = "C" => closed'
        <5>1. pipe'[m] = pipe[m]
          BY <4>2
        <5>2. QED
          BY <1>1, <3>1, <5>1, Zenon DEF RequestAt
      <4>4. RequestAt(m)'
        <5>1. /\ \A i \in 1 .. m - 1 : pipe'[i].line.cmd = "empty"
              /\ pipe'[m].line.cmd # "empty"
              /\ pipe'[m].of = sent'
          BY <1>1, <1>3, <3>1, <4>2 DEF RequestAt
        <5>2. Len(pipe') <= m + 1 /\ Len(pipe') # m + 1
          BY <1>3, <3>1, <4>2
        <5>3. QED
          BY <4>3, <5>1, <5>2 DEF RequestAt
      <4>5. QED
        BY <1>1, <3>2, <4>2, <4>4 DEF Requested, Answerless
    <3>5. QED
      BY <1>3, <3>1, <3>3, <3>4
  <2>4. Reading => Reading'
    <3>1. Reading => Len(pipe') <= 1
      BY <1>3, <2>1 DEF Reading
    <3>2. QED
      BY <1>1, <3>1, Zenon DEF Reading, Answerless
  <2>5. ~Over
    BY <1>1, Zenon DEF Over
  <2>6. GivenUp => GivenUp'
    BY <1>1, Zenon DEF GivenUp, Leaving, Answerless
  <2>7. QED
    BY <2>2, <2>3, <2>4, <2>5, <2>6 DEF Course
<1>6. QED
  BY <1>2, <1>4, <1>5 DEF Die, Unwritten

(* The peer reads the answer, or the end of the answers.                   *)
LEMMA StepReceive ==
  ASSUME PipeOK, AnswersOK, RestOK, Common, Course, Receive \/ SeeEnd
  PROVE  Common' /\ Course'
<1>1. /\ waiting /\ waiting' = FALSE
      /\ UNCHANGED <<pipe, alive, sent, closed, cur, phase>>
  BY DEF Receive, SeeEnd
<1>2. alive
  BY <1>1 DEF Common
<1>3. Common'
  BY <1>1, Zenon DEF Common
<1>4. CASE GivenUp
  <2>1. ~Receive
    BY <1>4 DEF GivenUp, Answerless, Receive
  <2>2. SeeEnd
    BY <2>1
  <2>3. phase = "done" /\ answers' = answers
    BY <1>4, <2>2 DEF SeeEnd, Ended, GivenUp, Leaving
  <2>4. GivenUp'
    BY <1>1, <1>4, <2>3, Zenon DEF GivenUp, Leaving, Answerless
  <2>5. QED
    BY <1>3, <2>4 DEF Course
<1>5. CASE ~GivenUp
  <2>1. Idle
    BY <1>1, <1>2, <1>5 DEF Receive, SeeEnd, Ended, Course, Requested, Reading, Over, Answerless
  <2>2. answers' = << >>
    <3>1. CASE Receive
      <4>0. answers' = Tail(answers) /\ answers # << >> /\ Len(answers) <= 1
        BY <2>1, <3>1 DEF Idle, OneAnswer, Receive
      <4>1. Len(answers) = 1
        <5>1. Len(answers) \in Nat /\ Len(answers) # 0
          BY <4>0, EmptySeq, LenProperties DEF AnswersOK
        <5>2. QED
          BY <4>0, <5>1
      <4>2. answers' \in Seq(Reaction) /\ Len(answers') = 0
        BY <4>0, <4>1, HeadTailProperties DEF AnswersOK
      <4>3. QED
        BY <4>2, EmptySeq
    <3>2. CASE SeeEnd
      BY <3>2 DEF SeeEnd
    <3>3. QED
      BY <3>1, <3>2
  <2>3. AllEmpty'
    BY <1>1, <2>1 DEF Idle, AllEmpty
  <2>4. phase' # "operand" /\ (Leaving' => closed' \/ ~alive')
    BY <1>1, <2>1, Zenon DEF Idle, Leaving
  <2>5. QED
    BY <1>3, <2>2, <2>3, <2>4, Silent DEF Idle, Course
<1>6. QED
  BY <1>4, <1>5

(* A command is taken, and answered, refused, or begun.                    *)
LEMMA StepCommand ==
  ASSUME PipeOK, AnswersOK, RestOK, sent \in Nat, Common, Course, ~leftBehind,
         Garbage \/ Refuse \/ Accept \/ ReadDevice \/ WriteNothing \/ StatusDevice \/ Close
  PROVE  leftBehind' \/ (Common' /\ Course')
<1>1. /\ phase = "command" /\ HasLine /\ Next1.cmd # "empty" /\ pipe' = Tail(pipe)
      /\ UNCHANGED peer
  BY DEF Garbage, Refuse, Accept, ReadDevice, WriteNothing, StatusDevice, Close, Command, Take,
     TakeCommand
<1>2. /\ Answerless
      /\ alive => waiting
      /\ Head(pipe).of = sent
      /\ Len(pipe') <= 1
      /\ pipe' # << >> => /\ MayHaveMore(Next1)
                         /\ Len(pipe) > 1 /\ pipe[2].of = Head(pipe).of
      /\ Next1.cmd = "C" => closed
  BY <1>1, InHand
<1>3. UNCHANGED <<alive, waiting, sent, closed>>
  BY <1>1 DEF peer
<1>4. alive' => waiting'
  BY <1>2, <1>3, Zenon
<1>5. Common'
  BY <1>3, Zenon DEF Common
<1>6. CASE Garbage
  <2>1. OneAnswer'
    <3>1. CASE answers' = answers
      BY <1>2, <3>1, Silent DEF Answerless
    <3>2. CASE answers' # answers
      BY <1>2, <1>3, <1>6, <3>2, SettlesRequest DEF Garbage
    <3>3. QED
      BY <3>1, <3>2
  <2>2. AllEmpty'
    BY <1>2, <1>6, NothingLeft DEF Garbage, Command, MayHaveMore, NeedsMore
  <2>3. phase' = "exited"
    BY <1>6 DEF Garbage
  <2>4. QED
    BY <1>4, <1>5, <2>1, <2>2, <2>3 DEF Course, Idle, Leaving
<1>7. CASE Refuse
  <2>1. OneAnswer' /\ phase' = "command" /\ leftBehind' = (leftBehind \/ LeavesMore)
    BY <1>1, <1>2, <1>3, <1>7, SettlesRequest DEF Refuse
  <2>2. CASE LeavesMore
    BY <2>1, <2>2, Zenon
  <2>3. CASE ~LeavesMore
    <3>1. pipe' # << >> => pipe[2].line.cmd = "empty"
      BY <1>2, <2>3 DEF LeavesMore
    <3>2. AllEmpty'
      <4>1. CASE pipe' = << >>
        BY <4>1, NothingLeft
      <4>2. CASE pipe' # << >>
        <5>1. /\ Len(pipe) \in Nat /\ Len(pipe') = Len(pipe) - 1
              /\ \A k \in 1 .. Len(pipe) - 1 : pipe'[k] = pipe[k + 1]
          BY <1>1, FirstLine
        <5>2. pipe'[1] = pipe[2] /\ Len(pipe') = 1
          BY <1>2, <4>2, <5>1
        <5>3. QED
          BY <3>1, <4>2, <5>2 DEF AllEmpty
      <4>3. QED
        BY <4>1, <4>2
    <3>3. QED
      BY <1>4, <1>5, <2>1, <3>2 DEF Course, Idle, Leaving
  <2>4. QED
    BY <2>2, <2>3
<1>8. CASE Accept
  <2>1. /\ answers' = answers /\ phase' = "operand"
        /\ cur' = [cmd |-> Next1.cmd, of |-> Head(pipe).of]
    BY <1>8 DEF Accept, TakeCommand
  <2>2. Answerless' /\ cur'.of = sent'
    BY <1>2, <1>3, <2>1 DEF Answerless
  <2>3. QED
    BY <1>2, <1>4, <1>5, <2>1, <2>2 DEF Course, Reading
<1>9. CASE ReadDevice \/ WriteNothing \/ StatusDevice
  <2>1. /\ Error(Head(pipe).of) \/ Reply(Head(pipe).of)
        /\ phase' = phase
    BY <1>9, Zenon DEF ReadDevice, WriteNothing, StatusDevice
  <2>2. OneAnswer'
    BY <1>2, <1>3, <2>1, SettlesRequest
  <2>3. ~MayHaveMore(Next1)
    BY <1>9 DEF ReadDevice, WriteNothing, StatusDevice, Command, MayHaveMore, NeedsMore
  <2>4. AllEmpty'
    BY <1>2, <2>3, NothingLeft
  <2>5. QED
    BY <1>1, <1>4, <1>5, <2>1, <2>2, <2>4 DEF Course, Idle, Leaving
<1>10. CASE Close
  <2>1. phase' = "cleanup" /\ Next1.cmd = "C"
    BY <1>10 DEF Close, Command
  <2>2. answers' = answers \/ Error(Head(pipe).of) \/ Reply(Head(pipe).of)
    BY <1>10, Zenon DEF Close, CloseDevice
  <2>3. OneAnswer'
    <3>1. CASE answers' = answers
      BY <1>2, <3>1, Silent DEF Answerless
    <3>2. CASE answers' # answers
      BY <1>2, <1>3, <2>2, <3>2, SettlesRequest
    <3>3. QED
      BY <3>1, <3>2
  <2>4. AllEmpty'
    BY <1>2, <2>1, NothingLeft DEF MayHaveMore, NeedsMore
  <2>5. closed'
    BY <1>2, <1>3, <2>1, Zenon
  <2>6. phase' # "operand"
    BY <2>1
  <2>7. QED
    BY <1>4, <1>5, <2>3, <2>4, <2>5, <2>6, Zenon DEF Course, Idle
<1>11. QED
  BY <1>6, <1>7, <1>8, <1>9, <1>10

(* The rest of a request is taken, and answered.                           *)
LEMMA StepOperand ==
  ASSUME PipeOK, AnswersOK, RestOK, sent \in Nat, Common, Course,
         OpenDevice \/ LseekDevice \/ IocopDevice \/ WriteData \/ EndInRequest
  PROVE  Common' /\ Course'
<1>1. phase = "operand" /\ UNCHANGED peer /\ phase' \in {"command", "exited"}
  BY DEF OpenDevice, LseekDevice, IocopDevice, WriteData, EndInRequest, Operand, Done, AtEnd
<1>2. Reading
  BY <1>1 DEF Course, Idle, Requested, Over, GivenUp, Leaving
<1>3. UNCHANGED <<alive, waiting, sent, closed>>
  BY <1>1 DEF peer
<1>4. Common'
  BY <1>3, Zenon DEF Common
<1>5. alive' => waiting'
  BY <1>2, <1>3, Zenon DEF Reading
<1>6. \/ Error(cur.of) \/ Reply(cur.of)
      \/ answers' = answers
  BY Zenon DEF OpenDevice, LseekDevice, BadDevice, IocopDevice, WriteData, EndInRequest
<1>7. OneAnswer'
  <2>1. CASE answers' = answers
    BY <1>2, <2>1, Silent DEF Reading, Answerless
  <2>2. CASE answers' # answers
    BY <1>2, <1>3, <1>6, <2>2, SettlesRequest DEF Reading
  <2>3. QED
    BY <2>1, <2>2
<1>8. AllEmpty'
  <2>1. CASE pipe = << >> /\ UNCHANGED pipe
    BY <2>1, NothingLeft
  <2>2. CASE HasLine /\ pipe' = Tail(pipe)
    <3>0. /\ Len(pipe) \in Nat /\ Len(pipe) >= 1 /\ Len(pipe) <= 1
          /\ pipe' \in Seq(Message) /\ Len(pipe') = Len(pipe) - 1
      <4>1. Len(pipe) <= 1
        BY <1>2 DEF Reading
      <4>2. QED
        BY <2>2, <4>1, FirstLine, Zenon
    <3>1. Len(pipe') = 0 /\ pipe' \in Seq(Message)
      BY <3>0
    <3>2. QED
      BY <3>1, EmptySeq, NothingLeft
  <2>3. QED
    BY <2>1, <2>2 DEF OpenDevice, LseekDevice, IocopDevice, TakeCount, WriteData, Operand,
       Readable, Take, EndInRequest, NoLine, EndOfInput, Garbled
<1>9. ~Leaving'
  BY <1>1 DEF Leaving
<1>10. QED
  BY <1>1, <1>4, <1>5, <1>7, <1>8, <1>9 DEF Course, Idle

(* An empty line is passed over.                                           *)
LEMMA StepEmptyLine ==
  ASSUME PipeOK, RestOK, Common, Course, EmptyLine
  PROVE  Common' /\ Course'
<1>1. /\ phase = "command" /\ phase' = phase /\ HasLine /\ Next1.cmd = "empty"
      /\ pipe' = Tail(pipe)
      /\ answers' = answers /\ UNCHANGED peer
  BY DEF EmptyLine, Command, Take
<1>2. UNCHANGED <<alive, waiting, sent, closed>>
  BY <1>1 DEF peer
<1>3. /\ Len(pipe) \in Nat /\ Len(pipe) >= 1 /\ Len(pipe') = Len(pipe) - 1
      /\ \A k \in 1 .. Len(pipe) - 1 : pipe'[k] = pipe[k + 1]
      /\ pipe[1].line.cmd = "empty"
  BY <1>1, FirstLine DEF Next1
<1>4. Common'
  BY <1>1, <1>2, Zenon DEF Common
<1>5. Idle => Idle'
  <2>1. AllEmpty => AllEmpty'
    BY <1>3 DEF AllEmpty
  <2>2. QED
    BY <1>1, <1>2, <2>1, Zenon DEF Idle, OneAnswer, Answerless, Leaving
<1>6. Requested => Requested'
  <2> SUFFICES ASSUME Requested PROVE Requested'
    OBVIOUS
  <2>1. PICK m \in 1 .. Len(pipe) : RequestAt(m)
    BY DEF Requested
  <2>2. m \in Nat /\ m > 1
    BY <1>3, <2>1 DEF RequestAt
  <2>3. PICK n \in 1 .. Len(pipe') : n = m - 1
    BY <1>3, <2>2
  <2>4. /\ pipe'[n] = pipe[m]
        /\ Len(pipe') = n + 1 => Len(pipe) = m + 1 /\ pipe'[n + 1] = pipe[m + 1]
        /\ Len(pipe') <= n + 1
    BY <1>3, <2>1, <2>2, <2>3 DEF RequestAt
  <2>5. \A k \in 1 .. n - 1 : pipe'[k].line.cmd = "empty"
    BY <1>3, <2>1, <2>2, <2>3 DEF RequestAt
  <2>6. pipe[m].line.cmd = "C" => closed'
    BY <1>2, <2>1, Zenon DEF RequestAt
  <2>7. RequestAt(n)'
    BY <1>2, <2>1, <2>4, <2>5, <2>6 DEF RequestAt
  <2>8. phase' = "command" /\ Answerless'
    BY <1>1 DEF Requested, Answerless
  <2>9. alive' => waiting'
    BY <1>2, Zenon DEF Requested
  <2>10. QED
    BY <2>7, <2>8, <2>9 DEF Requested
<1>7. ~Reading /\ ~Over /\ ~GivenUp
  BY <1>1 DEF Reading, Over, GivenUp, Leaving
<1>8. QED
  BY <1>4, <1>5, <1>6, <1>7 DEF Course

(* The server ends, or stutters.                                           *)
LEMMA StepEnd ==
  ASSUME PipeOK, RestOK, Common, Course,
         EndOfCommands \/ Cleanup \/ BrokenPipe \/ UNCHANGED vars
  PROVE  Common' /\ Course'
<1>1. UNCHANGED <<answers, alive, waiting, sent, closed>>
  BY DEF EndOfCommands, Cleanup, BrokenPipe, vars, peer
<1>2. Common'
  BY <1>1, Zenon DEF Common
<1>3. ASSUME Idle, UNCHANGED pipe, phase' # "operand", Leaving' => closed \/ ~alive
      PROVE  Idle'
  BY <1>1, <1>3, Zenon DEF Idle, AllEmpty, OneAnswer, Answerless
<1>4. CASE EndOfCommands
  <2>1. phase = "command" /\ phase' = "cleanup"
    BY <1>4 DEF EndOfCommands
  <2>2. CASE EndOfInput /\ UNCHANGED pipe
    <3>1. Len(pipe) = 0 /\ ~alive
      BY <2>2, Zenon, EmptySeq DEF EndOfInput
    <3>2. Idle
      BY <2>1, <3>1 DEF Course, Requested, Reading, Over, GivenUp, Leaving
    <3>3. phase' # "operand"
      BY <2>1
    <3>4. Idle'
      BY <1>3, <2>2, <3>1, <3>2, <3>3, Zenon
    <3>5. QED
      BY <1>2, <3>4 DEF Course
  <2>3. CASE Garbled
    <3>1. HasLine /\ Next1.cmd # "empty"
      BY <2>3 DEF Garbled
    <3>2. Answerless /\ (alive => waiting)
      BY <2>1, <3>1, InHand
    <3>3. Leaving'
      BY <2>1 DEF Leaving
    <3>4. GivenUp'
      BY <1>1, <3>2, <3>3, Zenon DEF GivenUp, Answerless
    <3>5. QED
      BY <1>2, <3>4 DEF Course
  <2>4. QED
    BY <1>4, <2>2, <2>3 DEF EndOfCommands, NoLine
<1>5. CASE Cleanup
  <2>1. Leaving /\ phase' \in {"stuck", "done"} /\ UNCHANGED pipe /\ phase # "done"
    BY <1>5 DEF Cleanup, Leaving
  <2>2. Leaving' /\ phase' # "operand"
    BY <2>1 DEF Leaving
  <2>3. CASE GivenUp
    <3>1. alive => waiting
      BY <2>1, <2>3, Zenon DEF GivenUp
    <3>2. GivenUp'
      BY <1>1, <2>2, <2>3, <3>1, Zenon DEF GivenUp, Answerless
    <3>3. QED
      BY <1>2, <3>2 DEF Course
  <2>4. CASE ~GivenUp
    <3>1. Idle
      BY <2>1, <2>4 DEF Course, Requested, Reading, Over, Leaving
    <3>2. closed \/ ~alive
      BY <2>1, <3>1, Zenon DEF Idle
    <3>3. Idle'
      BY <1>3, <2>1, <2>2, <3>1, <3>2, Zenon
    <3>4. QED
      BY <1>2, <3>3 DEF Course
  <2>5. QED
    BY <2>3, <2>4
<1>6. CASE BrokenPipe
  <2>1. phase \in {"command", "operand"} /\ phase' = "exited" /\ UNCHANGED pipe
    BY <1>6 DEF BrokenPipe
  <2>2. ~alive /\ ~alive'
    BY <1>1, <1>6, Zenon DEF BrokenPipe
  <2>3. Answerless' \/ Idle
    BY <1>1 DEF Course, Requested, Reading, Over, GivenUp, Answerless
  <2>4. phase' # "operand"
    BY <2>1
  <2>5. Idle => Idle'
    BY <1>3, <2>1, <2>2, <2>4, Zenon
  <2>6. QED
    BY <1>2, <2>1, <2>2, <2>3, <2>5 DEF Over, Course
<1>7. CASE UNCHANGED vars
  <2>1. phase' = phase /\ UNCHANGED <<pipe, cur>>
    BY <1>7 DEF vars
  <2>2. ASSUME NEW m, RequestAt(m) PROVE RequestAt(m)'
    BY <1>1, <2>1, <2>2, Zenon DEF RequestAt
  <2>3. Requested => Requested'
    BY <1>1, <2>1, <2>2, Zenon DEF Requested, Answerless
  <2>4. Idle => Idle'
    BY <1>1, <2>1, Zenon DEF Idle, AllEmpty, OneAnswer, Answerless, Leaving
  <2>5. (Reading => Reading') /\ (Over => Over') /\ (GivenUp => GivenUp')
    BY <1>1, <2>1, Zenon DEF Reading, Over, GivenUp, Leaving, Answerless
  <2>6. QED
    BY <1>2, <2>3, <2>4, <2>5 DEF Course
<1>8. QED
  BY <1>4, <1>5, <1>6, <1>7

LEMMA StepInit == Init => StepInv
<1> SUFFICES ASSUME Init PROVE Common /\ Idle
  BY DEF StepInv, Course
<1>1. pipe = << >> /\ answers = << >> /\ phase = "command"
  BY DEF Init
<1>2. AllEmpty /\ OneAnswer /\ Answerless
  BY <1>1 DEF AllEmpty, OneAnswer, Answerless
<1>3. ~waiting
  BY Zenon DEF Init
<1>4. ~Leaving /\ phase # "operand"
  BY <1>1 DEF Leaving
<1>5. QED
  BY <1>2, <1>3, <1>4, Zenon DEF Common, Idle

LEMMA StepNext == TypeOK /\ StepInv /\ [Next]_vars => StepInv'
<1> SUFFICES ASSUME PipeOK, AnswersOK, RestOK, StepInv, [Next]_vars PROVE StepInv'
  BY TypeParts
<1>0. sent \in Nat
  BY RmtServerAssumption DEF RestOK
<1>1. CASE leftBehind
  <2>1. leftBehind'
    BY <1>1, Zenon DEF Next, Server, Send, Receive, SeeEnd, Die, EmptyLine, Garbage, Refuse,
       Accept, OpenDevice, LseekDevice, IocopDevice, ReadDevice, WriteNothing, WriteData,
       StatusDevice, EndInRequest, BrokenPipe, Close, EndOfCommands, Cleanup, lost, vars
  <2>2. QED
    BY <2>1 DEF StepInv
<1>2. CASE ~leftBehind
  <2>1. Common /\ Course
    BY <1>2 DEF StepInv
  <2>2. leftBehind' \/ (Common' /\ Course')
    BY <1>0, <1>2, <2>1, StepSend, StepDie, StepReceive, StepCommand, StepOperand, StepEmptyLine,
       StepEnd, Zenon DEF Next, Server
  <2>3. QED
    BY <2>2 DEF StepInv
<1>3. QED
  BY <1>1, <1>2

(* The answer that the peer of the server reads is the one to its last     *)
(* request, unless a request was refused half read (rmt.rs:353, 426, 512,  *)
(* 562 and 614).                                                           *)
THEOREM AnswersInStep == Spec => []InStep
<1>1. TypeOK /\ StepInv => InStep
  <2> SUFFICES ASSUME Course PROVE OneAnswer
    BY DEF StepInv, InStep, OneAnswer
  <2>1. Answerless => OneAnswer
    BY DEF Answerless, OneAnswer
  <2>2. QED
    BY <2>1 DEF Course, Idle, Requested, Reading, Over, GivenUp
<1>2. QED
  BY <1>1, InitTypeOK, NextTypeOK, StepInit, StepNext, PTL DEF Spec
===============================================================================
