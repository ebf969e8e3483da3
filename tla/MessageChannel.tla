--------------------------- MODULE MessageChannel ---------------------------
(***************************************************************************)
(* What the executor expects of the stream of an agent: bytes go to the    *)
(* program under test in the order of injection, whole messages come from  *)
(* it in the order of sending, and the answer that there is none is given  *)
(* only when there is none.  The promise for the way out ends, for good,   *)
(* when more was written than fits the buffers or when something was       *)
(* written that is not a message: sound turns FALSE.                       *)
(***************************************************************************)
EXTENDS Naturals, Sequences

CONSTANTS
    Messages,   \* the messages
    Encoding    \* Encoding[m]: the bytes of message m

VARIABLES
    toPut,      \* bytes injected and not read yet
    readByPut,  \* bytes the program under test has read
    fromPut,    \* messages sent and not taken yet
    received,   \* frames taken, as bytes
    answer,     \* "none" when the last call has found no message
    sound       \* the way out is as promised

in  == <<toPut, readByPut>>
out == <<fromPut, received, answer>>

Init ==
    /\ toPut = <<>> /\ readByPut = <<>>
    /\ fromPut = <<>> /\ received = <<>> /\ answer = "some"
    /\ sound = TRUE

Inject(m) ==
    /\ toPut' = toPut \o Encoding[m]
    /\ UNCHANGED <<readByPut, out, sound>>

Deliver(n) ==
    /\ readByPut' = readByPut \o SubSeq(toPut, 1, n)
    /\ toPut' = SubSeq(toPut, n + 1, Len(toPut))
    /\ UNCHANGED <<out, sound>>

Send(m) ==
    /\ sound
    /\ fromPut' = Append(fromPut, m)
    /\ answer' = "some"
    /\ UNCHANGED <<in, received, sound>>

Receive ==
    /\ sound /\ fromPut # <<>>
    /\ received' = Append(received, Encoding[Head(fromPut)])
    /\ fromPut' = Tail(fromPut)
    /\ UNCHANGED <<in, answer, sound>>

AnswerNone ==
    /\ sound /\ fromPut = <<>>
    /\ answer' = "none"
    /\ UNCHANGED <<in, fromPut, received, sound>>

\* A new call, or a part of a message, makes the answer old.
AskAgain ==
    /\ sound
    /\ answer' = "some"
    /\ UNCHANGED <<in, fromPut, received, sound>>

\* Nothing is promised any more.
Unsound == ~sound' /\ UNCHANGED in

Next ==
    \/ \E m \in Messages : Inject(m)
    \/ \E n \in 1..Len(toPut) : Deliver(n)
    \/ \E m \in Messages : Send(m)
    \/ Receive
    \/ AnswerNone
    \/ AskAgain
    \/ Unsound

Spec == Init /\ [][Next]_<<in, out, sound>>
=============================================================================
