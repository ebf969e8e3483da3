-------------------------- MODULE StreamRefinement --------------------------
(***************************************************************************)
(* MemoryStream implements MessageChannel: the refinement mapping.         *)
(***************************************************************************)
EXTENDS MemoryStream

\* Nothing was too much for the deframer, and all that was sent are messages.
InBounds ==
    /\ peak <= MAX_WIRE_SIZE
    /\ \A i \in DOMAIN sent : ~Invalid(Wire[sent[i]])

\* The messages that are written to their end; the last one may not be.
Complete == IF pending = <<>> THEN Len(sent) ELSE Len(sent) - 1

Channel == INSTANCE MessageChannel WITH
    Messages  <- Msgs,
    Encoding  <- Wire,
    toPut     <- SubSeq(inbound, inPos + 1, Len(inbound)),
    readByPut <- delivered,
    fromPut   <- SubSeq(sent, Len(taken) + 1, Complete),
    received  <- taken,
    answer    <- IF pc = "none" THEN "none" ELSE "some",
    sound     <- InBounds

(* Whatever the sizes of the chunks and reads, and whatever the order of   *)
(* injections, reads, writes and calls of take_message_from_outbound, the  *)
(* stream is the channel the executor takes it for, until it is overrun:   *)
(* None in particular is only answered when no whole message is left.      *)
ImplementsChannel == Channel!Spec
=============================================================================
