------------------------------- MODULE TcpPut -------------------------------
(***************************************************************************)
(* The PUT behind a TCP connection of tlspuffin/src/tcp: a process of      *)
(* another program, started by the factory, and the fuzzer's end of the    *)
(* connection to it.  A TcpClientPut connects to a server process and      *)
(* retries; a TcpServerPut accepts the connection of a client process in a *)
(* thread and waits for it when the connection is first used.              *)
(*                                                                         *)
(* The trace is a sequence of steps "input" (write a record, then read     *)
(* what comes), "output" (read) and "reset" (the agent is reused).         *)
(* A record is a header and a body that may arrive separately.             *)
(***************************************************************************)
EXTENDS Integers, Sequences, FiniteSets

CONSTANTS
    Tries,          \* attempts to connect (10 in the code)
    AnswerCount,    \* records that the process answers with
    TcpTraces       \* the traces, with the PUT they run on and how long its
                    \* process takes at most to listen, in attempts

ASSUME TcpPutAssumption ==
    /\ Tries \in Nat \ {0} /\ AnswerCount \in Nat
    /\ \A t \in TcpTraces : /\ t.role \in {"client", "server"} /\ t.startup \in Nat
                            /\ t.steps \in Seq({"input", "output", "reset"})

VARIABLES
    trace,      \* the trace, and the role of the PUT's end of the connection
    proc,       \* the process: its state, its age in ticks, its connections,
                \* and the records it sent on the last one
    put,        \* the PUT: its state ("panic": the fuzzer has aborted), attempts
                \* left, and the accept thread
    toProc,     \* records on the way to the process
    net,        \* pieces of records on the way to the PUT
    sock,       \* pieces that a read returns at once
    deframer,   \* the PUT's MessageDeframer
    step,       \* the step of the trace that runs next, or is reading
    learnt      \* frames taken, each with the step that took it

tcpVars == <<trace, proc, put, toProc, net, sock, deframer, step, learnt>>

EmptyDeframer == [buf |-> <<>>, frames |-> <<>>, desynced |-> FALSE]

\* TCPFactory::create: for a client process the accept thread is started
\* first, for a server process the process.
TcpInit ==
    /\ trace \in TcpTraces
    /\ proc = [st |-> "starting", age |-> 0, sent |-> 0, conn |-> 0]
    /\ put = [st |-> "connecting", tries |-> Tries, thread |-> "started"]
    /\ toProc = <<>> /\ net = <<>> /\ sock = <<>>
    /\ deframer = EmptyDeframer
    /\ step = 1 /\ learnt = <<>>

------------------------------------------------------------------------------
(* Connecting *)

\* What the process must have done for a connection to succeed.
Listening == proc.st \in {"listening", "connected"}

\* An attempt within the startup time may come too early, a later one does not.
TcpMayBeEarly == proc.age < trace.startup

\* The end of the PUT drops TLSProcess, whose shutdown kills the child.  A
\* panic drops nothing: the profiles of Cargo.toml say panic = "abort".
TLSProcess_drop(p) == [p EXCEPT !.st = "dead"]

\* Mutant: a PUT that could not be created leaves its process alone.
new_stream_fails_Orphan == put' = [put EXCEPT !.tries = 0, !.st = "error"] /\ UNCHANGED proc

\* The last attempt failed: the error ends the trace, which drops the process.
new_stream_fails ==
    put' = [put EXCEPT !.tries = 0, !.st = "error"] /\ proc' = TLSProcess_drop(proc)

\* One attempt of TcpClientPut::new_stream for a new PUT, with the sleep that
\* follows a failure: it takes one tick.
new_stream ==
    /\ trace.role = "client" /\ put.st = "connecting"
    /\ \/ /\ Listening
          /\ put' = [put EXCEPT !.st = "ready"]
          /\ proc' = [proc EXCEPT !.st = "connected", !.conn = @ + 1]
       \/ /\ ~Listening /\ TcpMayBeEarly /\ put.tries > 1
          /\ put' = [put EXCEPT !.tries = @ - 1]
          /\ proc' = [proc EXCEPT !.age = @ + 1]
       \/ ~Listening /\ TcpMayBeEarly /\ put.tries = 1 /\ new_stream_fails
    /\ UNCHANGED <<trace, toProc, net, sock, deframer, step, learnt>>

\* A server process has bound its port.
ProcListens ==
    /\ trace.role = "client" /\ proc.st = "starting"
    /\ proc' = [proc EXCEPT !.st = "listening"]
    /\ UNCHANGED <<trace, put, toProc, net, sock, deframer, step, learnt>>

\* TcpServerPut::new returns at once; the thread binds the port.
ServerReady ==
    /\ trace.role = "server" /\ put.st = "connecting"
    /\ put' = [put EXCEPT !.st = "ready"]
    /\ UNCHANGED <<trace, proc, toProc, net, sock, deframer, step, learnt>>

AcceptThreadBinds ==
    /\ trace.role = "server" /\ put.thread = "started" /\ put.st # "panic"
    /\ put' = [put EXCEPT !.thread = "bound"]
    /\ UNCHANGED <<trace, proc, toProc, net, sock, deframer, step, learnt>>

\* A client process connects once: it is accepted and handed over, or it is
\* too early, or too late, and ends.
ProcConnects ==
    /\ trace.role = "server" /\ proc.st = "starting" /\ put.st # "connecting"
    /\ \/ /\ put.thread = "bound" /\ put.st # "panic"
          /\ put' = [put EXCEPT !.thread = "accepted"]
          /\ proc' = [proc EXCEPT !.st = "connected", !.conn = 1]
       \/ /\ put.thread = "started" \/ put.st = "panic"
          /\ proc' = [proc EXCEPT !.st = "dead"] /\ UNCHANGED put
    /\ UNCHANGED <<trace, toProc, net, sock, deframer, step, learnt>>

------------------------------------------------------------------------------
(* The process *)

\* The records that the process sends on a connection are numbered; each is
\* two pieces.
RecordPieces(from, n) ==
    [i \in 1..(2 * n) |-> [rec |-> from + ((i + 1) \div 2), part |-> IF i % 2 = 1 THEN "h" ELSE "b",
                           conn |-> proc.conn]]

\* The process reads a record and answers with up to AnswerCount records.
ProcAnswers ==
    /\ proc.st = "connected" /\ toProc # <<>>
    /\ \E n \in 0..AnswerCount :
          /\ net' = net \o RecordPieces(proc.sent, n)
          /\ proc' = [proc EXCEPT !.sent = @ + n]
    /\ toProc' = Tail(toProc)
    /\ UNCHANGED <<trace, put, sock, deframer, step, learnt>>

\* A client process sends its first record unasked.
ProcSpeaksFirst ==
    /\ proc.st = "connected" /\ trace.role = "server" /\ proc.sent = 0
    /\ net' = net \o RecordPieces(0, 1) /\ proc' = [proc EXCEPT !.sent = 1]
    /\ UNCHANGED <<trace, put, toProc, sock, deframer, step, learnt>>

\* A part of what is in flight arrives.
Arrive ==
    /\ net # <<>>
    /\ sock' = Append(sock, Head(net)) /\ net' = Tail(net)
    /\ UNCHANGED <<trace, proc, put, toProc, deframer, step, learnt>>

\* The process ends by itself.
ProcExits ==
    /\ proc.st = "connected"
    /\ proc' = [proc EXCEPT !.st = "dead"] /\ toProc' = <<>>
    /\ UNCHANGED <<trace, put, net, sock, deframer, step, learnt>>

------------------------------------------------------------------------------
(* Reading and writing *)

TcpRunning == put.st \in {"ready", "reading"} /\ step <= Len(trace.steps)

\* receive_stream: the connection of a server PUT must have been accepted.
HasStream == trace.role = "client" \/ put.thread = "accepted"

\* ... or the wait of 60 s ends in a panic, which leaves the process behind.
receive_stream_fails ==
    /\ TcpRunning /\ ~HasStream /\ trace.steps[step] # "reset"
    /\ put' = [put EXCEPT !.st = "panic"]
    /\ UNCHANGED <<trace, proc, toProc, net, sock, deframer, step, learnt>>

\* add_to_inbound writes the record.  A write to a process that has ended
\* succeeds, or fails, which unwrap() turns into a panic.
add_to_inbound ==
    /\ put.st = "ready" /\ TcpRunning /\ trace.steps[step] = "input" /\ HasStream
    /\ \/ /\ proc.st = "connected" /\ toProc' = Append(toProc, step)
          /\ put' = [put EXCEPT !.st = "reading"]
       \/ /\ proc.st = "dead" /\ UNCHANGED toProc
          /\ \E st \in {"reading", "panic"} : put' = [put EXCEPT !.st = st]
    /\ UNCHANGED <<trace, proc, net, sock, deframer, step, learnt>>

output ==
    /\ put.st = "ready" /\ TcpRunning /\ trace.steps[step] = "output" /\ HasStream
    /\ put' = [put EXCEPT !.st = "reading"]
    /\ UNCHANGED <<trace, proc, toProc, net, sock, deframer, step, learnt>>

\* The frames of the MessageDeframer: as long as the buffer starts with a
\* header whose body has arrived.  Anything but a header desynchronises it.
Deframe(d) ==
    LET n == Len(d.buf) \div 2
        whole == {k \in 0..n : \A i \in 1..k : d.buf[2 * i - 1].part = "h"}
        k == CHOOSE k \in whole : \A l \in whole : l <= k
        rest == SubSeq(d.buf, 2 * k + 1, Len(d.buf))
    IN  [buf |-> rest,
         frames |-> d.frames \o [i \in 1..k |-> <<d.buf[2 * i - 1], d.buf[2 * i]>>],
         desynced |-> d.desynced \/ (rest # <<>> /\ rest[1].part # "h")]

\* take_message_from_outbound: a frame, if there is one.
TakeFrame ==
    /\ put.st = "reading" /\ deframer.frames # <<>>
    /\ learnt' = Append(learnt, [step |-> step, frame |-> Head(deframer.frames)])
    /\ deframer' = [deframer EXCEPT !.frames = Tail(@)]
    /\ UNCHANGED <<trace, proc, put, toProc, net, sock, step>>

\* Otherwise read into the deframer: what is there ...
ReadSome ==
    /\ put.st = "reading" /\ deframer.frames = <<>> /\ sock # <<>>
    /\ deframer' = Deframe([deframer EXCEPT !.buf = @ \o sock])
    /\ sock' = <<>>
    /\ UNCHANGED <<trace, proc, put, toProc, net, step, learnt>>

\* Mutant: the deframer is emptied when nothing arrives in time.
EndOfStep_BufferLost ==
    /\ deframer' = EmptyDeframer
    /\ put' = [put EXCEPT !.st = "ready"] /\ step' = step + 1
    /\ UNCHANGED <<trace, proc, toProc, net, sock, learnt>>

\* ... or nothing: the step ends, and what comes later is for a later step.
EndOfStep ==
    /\ put' = [put EXCEPT !.st = "ready"] /\ step' = step + 1
    /\ UNCHANGED <<trace, proc, toProc, net, sock, deframer, learnt>>

\* WouldBlock after 500 ms, whether or not an answer is on its way.
ReadTimeout ==
    /\ put.st = "reading" /\ deframer.frames = <<>> /\ sock = <<>>
    /\ EndOfStep

\* A read of 0 bytes: the process has closed the connection.
ReadEof ==
    /\ put.st = "reading" /\ deframer.frames = <<>> /\ sock = <<>> /\ net = <<>>
    /\ proc.st = "dead" /\ EndOfStep

\* The connection was reset while records were unread: the trace ends.
ReadError ==
    /\ put.st = "reading" /\ deframer.frames = <<>> /\ proc.st = "dead"
    /\ put' = [put EXCEPT !.st = "error"] /\ proc' = TLSProcess_drop(proc)
    /\ sock' = <<>> /\ net' = <<>>
    /\ UNCHANGED <<trace, toProc, deframer, step, learnt>>

\* TcpClientPut::reset goes through the attempts of new_stream again, unless
\* the old connection no longer knows its peer; TcpServerPut::reset panics.
reset ==
    /\ put.st = "ready" /\ TcpRunning /\ trace.steps[step] = "reset"
    /\ \/ /\ trace.role = "server"
          /\ put' = [put EXCEPT !.st = "panic"] /\ UNCHANGED proc
       \/ /\ trace.role = "client"
          /\ put' = [put EXCEPT !.st = "reconnecting", !.tries = Tries] /\ UNCHANGED proc
       \/ /\ trace.role = "client" /\ proc.st = "dead"
          /\ put' = [put EXCEPT !.st = "error"] /\ proc' = TLSProcess_drop(proc)
    /\ UNCHANGED <<trace, toProc, net, sock, deframer, step, learnt>>

\* An attempt to connect again.  The old connection lasts until the new one
\* replaces it: then what it carried is dropped, and the deframer stays.
new_stream_again ==
    /\ put.st = "reconnecting"
    /\ \/ /\ Listening
          /\ put' = [put EXCEPT !.st = "ready"]
          /\ proc' = [proc EXCEPT !.conn = @ + 1, !.sent = 0]
          /\ toProc' = <<>> /\ net' = <<>> /\ sock' = <<>> /\ step' = step + 1
       \/ /\ ~Listening /\ put.tries > 1
          /\ put' = [put EXCEPT !.tries = @ - 1]
          /\ UNCHANGED <<proc, toProc, net, sock, step>>
       \/ /\ ~Listening /\ put.tries = 1 /\ new_stream_fails
          /\ UNCHANGED <<toProc, net, sock, step>>
    /\ UNCHANGED <<trace, deframer, learnt>>

\* shutdown after the last step.
shutdown ==
    /\ put.st = "ready" /\ step > Len(trace.steps)
    /\ put' = [put EXCEPT !.st = "done"] /\ proc' = TLSProcess_drop(proc)
    /\ UNCHANGED <<trace, toProc, net, sock, deframer, step, learnt>>

TcpPutNext == \/ new_stream \/ ServerReady \/ receive_stream_fails \/ add_to_inbound \/ output
              \/ TakeFrame \/ ReadSome \/ ReadTimeout \/ ReadEof \/ ReadError
              \/ reset \/ new_stream_again \/ shutdown

TcpNext == \/ TcpPutNext
           \/ ProcListens \/ AcceptThreadBinds \/ ProcConnects \/ ProcAnswers \/ ProcSpeaksFirst
           \/ Arrive \/ ProcExits

\* The fuzzer runs, and its timers fire; nothing is assumed of the process
\* except that it comes up within its startup time.
TcpFairness == WF_tcpVars(TcpPutNext) /\ WF_tcpVars(ProcListens)

TcpSpec == TcpInit /\ [][TcpNext]_tcpVars /\ TcpFairness

------------------------------------------------------------------------------
(* Properties *)

\* State of the right shape; between two reads the deframer holds no more than
\* the start of a record.
TcpTypeOK ==
    /\ proc.st \in {"starting", "listening", "connected", "dead"}
    /\ put.st \in {"connecting", "ready", "reading", "reconnecting", "error", "panic", "done"}
    /\ put.tries \in 0..Tries /\ put.thread \in {"started", "bound", "accepted"}
    /\ step \in 1..Len(trace.steps) + 1
    /\ deframer.buf # <<>> /\ ~deframer.desynced => Len(deframer.buf) = 1 /\ deframer.buf[1].part = "h"

\* Piece q is what the process sends after p on the same connection, or the
\* first that it sends on a later one.
Continues(p, q) ==
    IF p.conn = q.conn
    THEN IF p.part = "h" THEN q.part = "b" /\ q.rec = p.rec ELSE q.part = "h" /\ q.rec = p.rec + 1
    ELSE p.conn < q.conn /\ q.part = "h" /\ q.rec = 1

\* The frames learnt are the records of the process, whole, in order and
\* without a gap on each connection, whatever was late, however a record was cut
\* and whichever step took it.  Across a reset the rest of the old connection
\* may be missing, and as the deframer is kept, a header of the old connection
\* may be completed with the start of the new one.
TcpAnswersInOrder ==
    \A i \in DOMAIN learnt :
        /\ learnt[i].frame[1].part = "h"
        /\ Continues(learnt[i].frame[1], learnt[i].frame[2])
        /\ IF i = 1 THEN learnt[i].frame[1].rec = 1
                    ELSE Continues(learnt[i - 1].frame[2], learnt[i].frame[1])

\* A server that listens within the time of the attempts is connected to:
\* creating the PUT fails only for a slower one.
TcpConnectsInTime ==
    trace.startup < Tries => ~(put.st = "error" /\ step = 1 /\ put.tries = 0 /\ proc.conn = 0)

\* No process outlives a PUT that ends with its trace or with an error, be it of
\* the PUT's creation, of a read or of a reset that ran out of attempts.  A PUT
\* that panics is not among them: the fuzzer aborts and its process goes on.
TcpNoOrphan == put.st \in {"error", "done"} => proc.st = "dead"

\* The process is waited for as long as the attempts last, and stopped with its
\* PUT unless the fuzzer aborts.
TcpProcessIsManaged == TcpTypeOK /\ TcpConnectsInTime /\ TcpNoOrphan

\* Whatever the process does, or does not do, the trace ends.
TcpTraceEnds == <>(put.st \in {"error", "panic", "done"})
=============================================================================
