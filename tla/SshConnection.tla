---------------------------- MODULE SshConnection ----------------------------
(***************************************************************************)
(* The connection layer of the SSH code in sshpuffin/src/ssh/russh: the    *)
(* channels of one endpoint, their windows and their queues of pending     *)
(* data, and what each received packet does to them.                       *)
(*                                                                         *)
(* Every operator takes an endpoint e, a record of which this module uses  *)
(*   channels        the channels, by local number                         *)
(*   last_channel_id the number given out last                             *)
(*   write           packets not yet encrypted (Encrypted::write)          *)
(*   rekey           the key exchange in progress, or "None"               *)
(*   events          what the session reported to the application          *)
(*   fault           why the session ended, or "none"                      *)
(* and returns the endpoint after the operation.  Handlers of the code     *)
(* call one another, so that actions are compositions of these operators.  *)
(***************************************************************************)
EXTENDS Integers, Sequences, SequencesExt, FiniteSets

CONSTANTS
    WindowSize,     \* Config::window_size, the target of both ends
    MaxPacketSize,  \* Config::maximum_packet_size
    IdSpace         \* channel numbers are taken modulo IdSpace (2^32)

ASSUME SshConnectionAssumption ==
    /\ WindowSize \in Nat \ {0}
    /\ MaxPacketSize \in Nat \ {0}
    /\ IdSpace \in Nat \ {0, 1, 2}

Least(a, b) == IF a < b THEN a ELSE b

\* push_packet! on the buffer of packets to encrypt.
push_packet(e, p) == [e EXCEPT !.write = Append(@, p)]

Report(e, ch, event) == [e EXCEPT !.events = Append(@, [ch |-> ch, event |-> event])]

Failed(e, why) == [e EXCEPT !.fault = why]

HasChannel(e, ch) == ch \in DOMAIN e.channels

\* The client's handler passes an event on if the application has the channel.
Notify(e, ch, event) == IF HasChannel(e, ch) THEN Report(e, ch, event) ELSE e

------------------------------------------------------------------------------
(* Numbers and creation of channels *)

\* The first free number after the last one, in wrapping order.
FreeId(e) ==
    LET offsets == {k \in 1..IdSpace : ~HasChannel(e, (e.last_channel_id + k) % IdSpace)}
    IN  (e.last_channel_id + (CHOOSE k \in offsets : \A l \in offsets : k <= l)) % IdSpace

\* HashMap::insert.
insert(channels, id, c) ==
    [k \in DOMAIN channels \cup {id} |-> IF k = id THEN c ELSE channels[k]]

\* new_channel: a channel that the other side has to confirm.
new_channel(e) ==
    [e EXCEPT
        !.last_channel_id = FreeId(e),
        !.channels = insert(@, FreeId(e), [recipient_channel |-> 0, confirmed |-> FALSE,
                                           sender_window_size |-> WindowSize,
                                           recipient_window_size |-> 0,
                                           recipient_maximum_packet_size |-> 0,
                                           wants_reply |-> FALSE, pending_data |-> <<>>])]

\* What the three functions of the client that open a channel have in common.
channel_open(e, type) ==
    IF e.state = "Authenticated"
    THEN push_packet(new_channel(e),
            [msg |-> "CHANNEL_OPEN", type |-> type, sender |-> FreeId(e),
             window |-> WindowSize, maxpacket |-> MaxPacketSize])
    ELSE Failed(e, "NotAuthenticated")

channel_open_session(e) == channel_open(e, "session")
channel_open_x11(e) == channel_open(e, "x11")
channel_open_direct_tcpip(e) == channel_open(e, "direct-tcpip")

\* A channel that the server opens for a forwarded connection.
channel_open_forwarded_tcpip(e) == channel_open(e, "forwarded-tcpip")

KnownChannelTypes == {"session", "x11", "direct-tcpip"}

\* server_handle_channel_open: the number is used up even if the type is unknown.
server_handle_channel_open(e, p) ==
    LET id == FreeId(e)
        e1 == [e EXCEPT !.last_channel_id = id]
        e2 == push_packet(e1, [msg |-> "CHANNEL_OPEN_CONFIRMATION", ch |-> p.sender,
                               id_recv |-> id, window |-> WindowSize,
                               maxpacket |-> MaxPacketSize])
    IN  IF p.type \in KnownChannelTypes
        THEN Report([e2 EXCEPT !.channels =
                insert(@, id, [recipient_channel |-> p.sender, confirmed |-> TRUE,
                               sender_window_size |-> WindowSize,
                               recipient_window_size |-> p.window,
                               recipient_maximum_packet_size |-> p.maxpacket,
                               wants_reply |-> FALSE, pending_data |-> <<>>])],
                id, [t |-> "Open"])
        ELSE push_packet(e1, [msg |-> "CHANNEL_OPEN_FAILURE", ch |-> p.sender])

\* The client learns the other side's number, window and packet size.
channel_open_confirmation(e, p) ==
    IF HasChannel(e, p.ch)
    THEN Report([e EXCEPT !.channels[p.ch] =
                    [@ EXCEPT !.recipient_channel = p.id_recv,
                              !.recipient_window_size = p.window,
                              !.recipient_maximum_packet_size = p.maxpacket,
                              !.confirmed = TRUE]],
                p.ch, [t |-> "Open", window |-> p.window])
    ELSE Failed(e, "Inconsistent")

\* enc.channels.remove.
remove_channel(e, ch) ==
    [e EXCEPT !.channels = [c \in DOMAIN @ \ {ch} |-> @[c]]]

\* The client's handler also drops the sender, which ends the receiver of the
\* application.
close_channel(e, ch) == remove_channel(Notify(e, ch, [t |-> "Closed"]), ch)

------------------------------------------------------------------------------
(* Sending: windows and pending data *)

\* Encrypted::byte: a message of one byte on a channel that exists.
byte(e, ch, m) ==
    IF HasChannel(e, ch)
    THEN push_packet(e, [msg |-> m, ch |-> e.channels[ch].recipient_channel])
    ELSE e

\* Data that fits into the window, in packets of at most the maximal size.
\* ext = 0 stands for CHANNEL_DATA, ext > 0 for CHANNEL_EXTENDED_DATA.
Packets(c, ext, data) ==
    LET m == c.recipient_maximum_packet_size
    IN  [i \in 1..((Len(data) + m - 1) \div m) |->
            [msg |-> IF ext = 0 THEN "CHANNEL_DATA" ELSE "CHANNEL_EXTENDED_DATA",
             ch |-> c.recipient_channel, ext |-> ext,
             data |-> SubSeq(data, (i - 1) * m + 1, Least(i * m, Len(data)))]]

\* The largest part of the buffer from position "from" that the window admits.
Fitting(c, buf, from) == SubSeq(buf, from + 1, Least(Len(buf), from + c.recipient_window_size))

\* Write what fits with code ext; the length written is that of Fitting.
Transmit(e, ch, ext, buf, from) ==
    LET c == e.channels[ch]
        data == Fitting(c, buf, from)
    IN  [e EXCEPT !.write = @ \o Packets(c, ext, data),
                  !.channels[ch].recipient_window_size = @ - Len(data)]

\* data_noqueue always writes CHANNEL_DATA.
data_noqueue(e, ch, buf, from) == Transmit(e, ch, 0, buf, from)

\* Mutant: the position in a partly sent buffer is not advanced.
FlushOne_FromKept(e, ch) ==
    LET entry == Head(e.channels[ch].pending_data)
        size  == Len(Fitting(e.channels[ch], entry.buf, entry.from))
        sent  == data_noqueue(e, ch, entry.buf, entry.from)
    IN  IF entry.from + size < Len(entry.buf) THEN sent
        ELSE [sent EXCEPT !.channels[ch].pending_data = Tail(@)]

\* One iteration of the loops of flush_pending and flush_all_pending on the
\* first entry of the queue: pop it, send what fits, put the rest back.
FlushOne(e, ch) ==
    LET entry == Head(e.channels[ch].pending_data)
        size  == Len(Fitting(e.channels[ch], entry.buf, entry.from))
        sent  == data_noqueue(e, ch, entry.buf, entry.from)
    IN  IF entry.from + size < Len(entry.buf)
        THEN [sent EXCEPT !.channels[ch].pending_data[1].from = @ + size]
        ELSE [sent EXCEPT !.channels[ch].pending_data = Tail(@)]

FlushTurn(e, ch) == IF e.channels[ch].pending_data = <<>> THEN e ELSE FlushOne(e, ch)

\* The loop.  An entry of which a part stays ends it: the window is closed then,
\* and further turns change nothing.
flush_pending(e, ch) ==
    LET turns == Len(e.channels[ch].pending_data)
        after[n \in 0..turns] == IF n = 0 THEN e ELSE FlushTurn(after[n - 1], ch)
    IN  IF HasChannel(e, ch) THEN after[turns] ELSE e

\* flush_all_pending does the same for every channel.  Packets of different
\* channels are independent, so that the order of the hash map is fixed here.
flush_all_pending(e) ==
    LET after[n \in 0..IdSpace] == IF n = 0 THEN e ELSE flush_pending(after[n - 1], n - 1)
    IN  after[IdSpace]

\* Send what the window admits and queue the rest, as Encrypted::data and
\* Encrypted::extended_data do.  Only data() looks at the key exchange.
data(e, ch, buf) ==
    IF ~HasChannel(e, ch) THEN e
    ELSE IF ~e.channels[ch].confirmed THEN Failed(e, "panic")
    ELSE IF e.channels[ch].pending_data # <<>> \/ e.rekey # "None"
    THEN [e EXCEPT !.channels[ch].pending_data = Append(@, [buf |-> buf, ext |-> 0, from |-> 0])]
    ELSE LET size == Len(Fitting(e.channels[ch], buf, 0))
             sent == data_noqueue(e, ch, buf, 0)
         IN  IF size < Len(buf)
             THEN [sent EXCEPT !.channels[ch].pending_data =
                        Append(@, [buf |-> buf, ext |-> 0, from |-> size])]
             ELSE sent

extended_data(e, ch, ext, buf) ==
    IF ~HasChannel(e, ch) THEN e
    ELSE IF ~e.channels[ch].confirmed THEN Failed(e, "panic")
    ELSE IF e.channels[ch].pending_data # <<>>
    THEN [e EXCEPT !.channels[ch].pending_data = Append(@, [buf |-> buf, ext |-> ext, from |-> 0])]
    ELSE LET size == Len(Fitting(e.channels[ch], buf, 0))
             sent == Transmit(e, ch, ext, buf, 0)
         IN  IF size < Len(buf)
             THEN [sent EXCEPT !.channels[ch].pending_data =
                        Append(@, [buf |-> buf, ext |-> ext, from |-> size])]
             ELSE sent

------------------------------------------------------------------------------
(* Receiving *)

\* Mutant: the credit is the whole window.
adjust_window_size_FullCredit(e, ch, len) ==
    IF ~HasChannel(e, ch) THEN e
    ELSE LET c    == e.channels[ch]
             left == IF len <= c.sender_window_size THEN c.sender_window_size - len
                                                    ELSE c.sender_window_size
         IN  IF left < WindowSize \div 2
             THEN push_packet([e EXCEPT !.channels[ch].sender_window_size = WindowSize],
                    [msg |-> "CHANNEL_WINDOW_ADJUST", ch |-> c.recipient_channel,
                     amount |-> WindowSize])
             ELSE [e EXCEPT !.channels[ch].sender_window_size = left]

\* adjust_window_size: account for received data, and open the window again
\* when less than half of it is left.
adjust_window_size(e, ch, len) ==
    IF ~HasChannel(e, ch) THEN e
    ELSE LET c    == e.channels[ch]
             left == IF len <= c.sender_window_size THEN c.sender_window_size - len
                                                    ELSE c.sender_window_size
         IN  IF left < WindowSize \div 2
             THEN push_packet([e EXCEPT !.channels[ch].sender_window_size = WindowSize],
                    [msg |-> "CHANNEL_WINDOW_ADJUST", ch |-> c.recipient_channel,
                     amount |-> WindowSize - left])
             ELSE [e EXCEPT !.channels[ch].sender_window_size = left]

\* Mutant: the pending data is not sent.
window_adjusted_NoFlush(e, p) ==
    IF ~HasChannel(e, p.ch) THEN Failed(e, "WrongChannel")
    ELSE LET e1 == [e EXCEPT !.channels[p.ch].recipient_window_size = @ + p.amount]
         IN  IF e.role = "server" THEN e1
             ELSE Report(e1, p.ch, [t |-> "WindowAdjusted",
                                    new_size |-> e1.channels[p.ch].recipient_window_size])

\* The other side opened its window: the pending data goes first, and the
\* application of a client learns what is left of the window.
window_adjusted(e, p) ==
    IF ~HasChannel(e, p.ch) THEN Failed(e, "WrongChannel")
    ELSE LET e1 == flush_pending(
                     [e EXCEPT !.channels[p.ch].recipient_window_size = @ + p.amount], p.ch)
         IN  IF e.role = "server" THEN e1
             ELSE Report(e1, p.ch, [t |-> "WindowAdjusted",
                                    new_size |-> e1.channels[p.ch].recipient_window_size])

\* A request of either side on one of its channels; it is dropped if the
\* channel is gone.
channel_request(e, ch, req, want_reply) ==
    IF HasChannel(e, ch)
    THEN push_packet(e, [msg |-> "CHANNEL_REQUEST", ch |-> e.channels[ch].recipient_channel,
                         req |-> req, want_reply |-> want_reply])
    ELSE e

request_pty(e, ch, want_reply) == channel_request(e, ch, "pty-req", want_reply)
request_x11(e, ch, want_reply) == channel_request(e, ch, "x11-req", want_reply)
set_env(e, ch, want_reply) == channel_request(e, ch, "env", want_reply)
request_shell(e, ch, want_reply) == channel_request(e, ch, "shell", want_reply)
exec(e, ch, want_reply) == channel_request(e, ch, "exec", want_reply)
request_subsystem(e, ch, want_reply) == channel_request(e, ch, "subsystem", want_reply)
signal(e, ch) == channel_request(e, ch, "signal", FALSE)
window_change(e, ch) == channel_request(e, ch, "window-change", FALSE)

xon_xoff_request(e, ch) == channel_request(e, ch, "xon-xoff", FALSE)
exit_status_request(e, ch) == channel_request(e, ch, "exit-status", FALSE)
exit_signal_request(e, ch) == channel_request(e, ch, "exit-signal", FALSE)

tcpip_forward(e) == push_packet(e, [msg |-> "GLOBAL_REQUEST", req |-> "tcpip-forward"])
cancel_tcpip_forward(e) == push_packet(e, [msg |-> "GLOBAL_REQUEST", req |-> "cancel-tcpip-forward"])

\* Requests on channels.  The server remembers whether one wants a reply in a
\* single flag of the channel; channel_success and channel_failure clear it.
KnownRequests == {"pty-req", "x11-req", "env", "shell", "exec", "subsystem",
                  "window-change", "signal"}

channel_reply(e, ch, m) ==
    IF ~HasChannel(e, ch) THEN e
    ELSE IF ~e.channels[ch].confirmed THEN Failed(e, "panic")
    ELSE IF e.channels[ch].wants_reply
    THEN push_packet([e EXCEPT !.channels[ch].wants_reply = FALSE],
                     [msg |-> m, ch |-> e.channels[ch].recipient_channel])
    ELSE e

channel_success(e, ch) == channel_reply(e, ch, "CHANNEL_SUCCESS")
channel_failure(e, ch) == channel_reply(e, ch, "CHANNEL_FAILURE")

\* A known request is passed to the handler, which answers at once (ok) or
\* not at all; an unknown one fails.
server_channel_request(e, p, ok) ==
    LET e1 == IF HasChannel(e, p.ch)
              THEN [e EXCEPT !.channels[p.ch].wants_reply = p.want_reply] ELSE e
    IN  IF p.req \in KnownRequests
        THEN LET e2 == Report(e1, p.ch, [t |-> "Request", req |-> p.req])
             IN  IF ok THEN channel_success(e2, p.ch) ELSE e2
        ELSE channel_failure(e1, p.ch)

\* A client knows the requests a server may make; to any other one that wants
\* a reply it answers with its own channel number, not the server's.
ServerRequests == {"xon-xoff", "exit-status", "exit-signal"}

client_channel_request(e, p) ==
    IF p.req \in ServerRequests THEN Notify(e, p.ch, [t |-> "Request", req |-> p.req])
    ELSE IF p.req # "forwarded_tcpip" /\ p.want_reply THEN push_packet(e, [msg |-> "CHANNEL_FAILURE", ch |-> p.ch])
    ELSE e

\* Every global request is answered, whether or not it wants a reply.  The
\* handler accepts (ok) or not; when it accepts a forwarding it opens a first
\* channel for it.
server_global_request(e, p, ok) ==
    LET e1 == IF p.req = "tcpip-forward" /\ ok THEN channel_open_forwarded_tcpip(e) ELSE e
    IN  push_packet(e1, [msg |-> IF p.req \in {"tcpip-forward", "cancel-tcpip-forward"} /\ ok
                                 THEN "REQUEST_SUCCESS" ELSE "REQUEST_FAILURE"])

client_global_request(e) == push_packet(e, [msg |-> "REQUEST_FAILURE"])

DataEvent(p) == [t |-> "Data", ext |-> p.ext, data |-> p.data]

client_read_authenticated(e, p) ==
    CASE p.msg = "CHANNEL_OPEN_CONFIRMATION" -> channel_open_confirmation(e, p)
      [] p.msg = "CHANNEL_CLOSE" -> close_channel(e, p.ch)
      [] p.msg = "CHANNEL_EOF" -> Notify(e, p.ch, [t |-> "Eof"])
      [] p.msg = "CHANNEL_OPEN_FAILURE" ->
            close_channel(e, p.ch)
      [] p.msg \in {"CHANNEL_DATA", "CHANNEL_EXTENDED_DATA"} ->
            Notify(adjust_window_size(e, p.ch, Len(p.data)), p.ch, DataEvent(p))
      [] p.msg = "CHANNEL_REQUEST" -> client_channel_request(e, p)
      [] p.msg = "CHANNEL_WINDOW_ADJUST" -> window_adjusted(e, p)
      [] p.msg = "GLOBAL_REQUEST" -> client_global_request(e)
      [] p.msg = "CHANNEL_SUCCESS" -> Notify(e, p.ch, [t |-> "Success"])
      [] OTHER -> e
==============================================================================
