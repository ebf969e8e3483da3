------------------------------ MODULE SshProofs ------------------------------
(***************************************************************************)
(* Proofs about sshpuffin.  Both ends of every channel of an SSH           *)
(* connection agree on both windows, for every plan of the applications,   *)
(* every window and packet size, and key exchanges at any time.  And the   *)
(* two streams that LibSSLFactory::create makes are the ends of one        *)
(* connection, for every set of fuzzing processes.                         *)
(***************************************************************************)
EXTENDS SshFlowProofs, LibsshFactory

------------------------------------------------------------------------------
(* An end in the middle of an iteration *)

\* The fields of an end.
Fields == {"role", "kex", "rekey", "exchange", "cipher", "state", "service_sent",
           "service_accepted", "auth_method", "methods", "sent_pk_ok", "write", "out",
           "pending_reads", "pending_len", "compress", "decompress", "zlib", "channels",
           "last_channel_id", "events", "disconnected", "fault"}

States == {"None", "WaitingServiceRequest", "WaitingAuthRequest", "InitCompression", "Authenticated"}

\* Data that waits for the window.
EntryOK(q) == DOMAIN q = {"buf", "ext", "from"} /\ IsSeq(q.buf) /\ q.from \in 0..Len(q.buf)

ChanFields == {"recipient_channel", "confirmed", "sender_window_size", "recipient_window_size",
               "recipient_maximum_packet_size", "wants_reply", "pending_data"}

ChanOK(c) ==
    /\ DOMAIN c = ChanFields
    /\ IsSeq(c.pending_data) /\ \A i \in DOMAIN c.pending_data : EntryOK(c.pending_data[i])
    /\ c.pending_data # <<>> => c.confirmed
    /\ c.confirmed => c.recipient_maximum_packet_size \in Nat \ {0}

ChansOK(T) == \A k \in DOMAIN T : ChanOK(T[k])

EventOK(ev) == /\ ev.t = "WindowAdjusted" => ev.new_size \in Int
               /\ ev.t = "Open" => ev.window \in Int

EventsOK(evs) == IsSeq(evs) /\ \A i \in DOMAIN evs : EventOK(evs[i].event)

\* The packets that an iteration has made so far.
Plain(out) == [i \in DOMAIN out |-> out[i].p]
Going(e) == Plain(e.out) \o e.write

EndOK(e) ==
    /\ DOMAIN e = Fields /\ e.role \in Sides /\ e.state \in States
    /\ IsSeq(e.out) /\ Flow(Plain(e.out)) /\ Flow(e.write)
    /\ ChansOK(e.channels)
    /\ e.state # "Authenticated" => DOMAIN e.channels = {}
    /\ e.role = "client" => EventsOK(e.events)

\* The end e in the middle of an iteration: b was on its way before, c is
\* to be read.
Mid(e, o, b, c, B) ==
    /\ EndOK(e) /\ Flow(b)
    /\ Pact(e.role, e.channels, e.last_channel_id, Phase(e), o, b \o Going(e), c, B)

\* f is e but for the given fields.
Only(e, f, changed) == DOMAIN f = DOMAIN e /\ \A k \in DOMAIN e \ changed : f[k] = e[k]

\* What the handlers of packets and messages leave alone.
Kept(e, f) ==
    /\ f.role = e.role /\ f.kex = e.kex /\ f.rekey = e.rekey /\ f.exchange = e.exchange
    /\ f.pending_reads = e.pending_reads /\ f.disconnected = e.disconnected
    /\ (f.state = "None") = (e.state = "None")

Good(e, f, o, b, c, B) == Mid(f, o, b, c, B) /\ Kept(e, f)

\* One step after the other.
LEMMA GoodThen ==
    ASSUME NEW e, NEW f, NEW g, NEW o, NEW b, NEW c, NEW B, Kept(e, f), Good(f, g, o, b, c, B)
    PROVE  Good(e, g, o, b, c, B)
  BY DEF Good, Kept

\* Nothing happens: the agreement is kept.
LEMMA GoodNone ==
    ASSUME NEW e, NEW o, NEW b, NEW c, NEW B, Mid(e, o, b, c, B)
    PROVE  Good(e, e, o, b, c, B)
  BY DEF Good, Kept

\* More is on its way.
LEMMA GoingMore ==
    ASSUME NEW e, EndOK(e), NEW b, Flow(b), NEW x, Flow(x), NEW f, f.out = e.out, f.write = e.write \o x
    PROVE  b \o Going(f) = (b \o Going(e)) \o x /\ Flow(f.write)
  <1>1. Flow(Plain(e.out)) /\ Flow(e.write)
    BY DEF EndOK
  <1>2. PICK q : q = Plain(e.out)
    OBVIOUS
  <1>3. PICK w : w = e.write
    OBVIOUS
  <1>4. IsSeq(q) /\ IsSeq(w) /\ IsSeq(x) /\ IsSeq(b)
    BY <1>1, <1>2, <1>3 DEF Flow
  <1>5. PICK g : g = q \o w
    OBVIOUS
  <1>6. IsSeq(g)
    BY <1>4, <1>5, CatFacts
  <1>7. q \o (w \o x) = g \o x
    <2>1. IsSeq(q) /\ IsSeq(w) /\ IsSeq(x)
      BY <1>4
    <2>2. (q \o w) \o x = q \o (w \o x)
      BY <2>1, CatAssoc
    <2> QED BY <1>5, <2>2
  <1>8. (b \o g) \o x = b \o (g \o x)
    <2>1. IsSeq(b) /\ IsSeq(g) /\ IsSeq(x)
      BY <1>4, <1>6
    <2> QED BY <2>1, CatAssoc
  <1>9. Going(f) = q \o (w \o x) /\ Going(e) = g
    BY <1>2, <1>3, <1>5 DEF Going
  <1>10. Flow(w \o x)
    BY <1>1, <1>3, FlowCat
  <1> QED BY <1>3, <1>7, <1>8, <1>9, <1>10

\* A handler writes packets and changes channels and events.
LEMMA GoodStep ==
    ASSUME NEW e, NEW o, NEW b, NEW c, NEW B, Mid(e, o, b, c, B), NEW f,
           Only(e, f, {"write", "channels", "last_channel_id", "events"}),
           NEW x, Flow(x), f.write = e.write \o x, NEW d, NEW D,
           Pact(e.role, f.channels, f.last_channel_id, Phase(e), o, (b \o Going(e)) \o x, d, D),
           ChansOK(f.channels), e.state # "Authenticated" => DOMAIN f.channels = {},
           e.role = "client" => EventsOK(f.events)
    PROVE  Good(e, f, o, b, d, D)
  <1>1. EndOK(e) /\ Flow(b)
    BY DEF Mid
  <1>2. DOMAIN e = Fields
    BY <1>1 DEF EndOK
  <1>3. /\ f.role = e.role /\ f.kex = e.kex /\ f.rekey = e.rekey /\ f.exchange = e.exchange
        /\ f.pending_reads = e.pending_reads /\ f.disconnected = e.disconnected
        /\ f.state = e.state /\ f.out = e.out /\ DOMAIN f = Fields
    BY <1>2 DEF Only, Fields
  <1>4. b \o Going(f) = (b \o Going(e)) \o x /\ Flow(f.write)
    BY <1>1, <1>3, GoingMore
  <1>5. EndOK(f)
    BY <1>1, <1>3, <1>4 DEF EndOK
  <1>6. Phase(f) = Phase(e)
    BY <1>3 DEF Phase
  <1>7. Kept(e, f)
    BY <1>3 DEF Kept
  <1> QED BY <1>1, <1>3, <1>4, <1>5, <1>6, <1>7 DEF Good, Mid

\* Only some fields, then others.
LEMMA OnlyThen ==
    ASSUME NEW e, NEW f, NEW g, NEW A, Only(e, f, A), Only(f, g, A)
    PROVE  Only(e, g, A)
  BY DEF Only

\* push_packet! adds the packet to what is written.
LEMMA PushIs ==
    ASSUME NEW e, EndOK(e), NEW p, NEW f, f = push_packet(e, p)
    PROVE  /\ Only(e, f, {"write"}) /\ f.write = e.write \o <<p>>
           /\ Only(e, f, {"write", "channels", "last_channel_id", "events"})
           /\ f.channels = e.channels /\ f.last_channel_id = e.last_channel_id /\ f.events = e.events
           /\ f.fault = e.fault
  <1>1. DOMAIN e = Fields /\ IsSeq(e.write)
    BY DEF EndOK, Flow
  <1>2. Append(e.write, p) = e.write \o <<p>>
    BY <1>1, AppendIs
  <1>3. f.write = Append(e.write, p) /\ DOMAIN f = DOMAIN e /\ \A k \in DOMAIN e \ {"write"} : f[k] = e[k]
    BY <1>1 DEF push_packet, Fields
  <1> QED BY <1>1, <1>2, <1>3 DEF Only, Fields

\* A packet that changes nothing.
Calm(p) == p.msg \notin KexMsgs \cup {"CHANNEL_DATA", "CHANNEL_EXTENDED_DATA", "CHANNEL_WINDOW_ADJUST",
                                      "CHANNEL_OPEN", "CHANNEL_OPEN_CONFIRMATION"}

\* A sequence of one such packet.
LEMMA CalmIs ==
    ASSUME NEW p, Calm(p), NEW x, x = <<p>>
    PROVE  Idle(x) /\ NoKex(x) /\ Openings(x) = Opening(p)
  <1>1. /\ Flow(x) /\ (\A k : DataFor(k, x) = 0 /\ CreditFor(k, x) = 0) /\ Openings(x) = Opening(p)
        /\ DOMAIN x = {1} /\ x[1] = p
    BY PlainIs DEF Calm
  <1> QED BY <1>1 DEF Idle, NoKex, IsOpen, Calm

\* A packet of another kind is written.
LEMMA GoodPush ==
    ASSUME NEW e, NEW o, NEW b, NEW c, NEW B, Mid(e, o, b, c, B),
           NEW p, Calm(p), e.role = "client" => Opening(p) = 0
    PROVE  Good(e, push_packet(e, p), o, b, c, B)
  <1>1. PICK x : x = <<p>>
    OBVIOUS
  <1>2. Idle(x) /\ NoKex(x) /\ Openings(x) = Opening(p)
    BY <1>1, CalmIs
  <1>3. PICK f : f = push_packet(e, p)
    OBVIOUS
  <1>4. EndOK(e) /\ Pact(e.role, e.channels, e.last_channel_id, Phase(e), o, b \o Going(e), c, B)
    BY DEF Mid
  <1>5. Pact(e.role, e.channels, e.last_channel_id, Phase(e), o, (b \o Going(e)) \o x, c, B)
    BY <1>2, <1>4, PactAdd
  <1>6. /\ Only(e, f, {"write", "channels", "last_channel_id", "events"}) /\ f.write = e.write \o x
        /\ f.channels = e.channels /\ f.last_channel_id = e.last_channel_id /\ f.events = e.events
    BY <1>1, <1>3, <1>4, PushIs
  <1>7. ChansOK(f.channels) /\ (e.state # "Authenticated" => DOMAIN f.channels = {})
        /\ (e.role = "client" => EventsOK(f.events)) /\ Flow(x)
    BY <1>2, <1>4, <1>6 DEF EndOK, Idle
  <1> QED BY <1>3, <1>5, <1>6, <1>7, GoodStep

\* It makes the server use up a number.
LEMMA GoodAsk ==
    ASSUME NEW e, NEW o, NEW b, NEW c, NEW B, Mid(e, o, b, c, B), e.role = "client", B + 1 < IdSpace,
           NEW p, Calm(p), Opening(p) = 1
    PROVE  Good(e, push_packet(e, p), o, b, c, B + 1)
  <1>1. PICK x : x = <<p>>
    OBVIOUS
  <1>2. Idle(x) /\ NoKex(x) /\ Openings(x) = 1
    BY <1>1, CalmIs
  <1>3. PICK f : f = push_packet(e, p)
    OBVIOUS
  <1>4. EndOK(e) /\ Pact(e.role, e.channels, e.last_channel_id, Phase(e), o, b \o Going(e), c, B)
    BY DEF Mid
  <1>5. Pact(e.role, e.channels, e.last_channel_id, Phase(e), o, (b \o Going(e)) \o x, c, B + 1)
    BY <1>2, <1>4, PactAsk
  <1>6. /\ Only(e, f, {"write", "channels", "last_channel_id", "events"}) /\ f.write = e.write \o x
        /\ f.channels = e.channels /\ f.last_channel_id = e.last_channel_id /\ f.events = e.events
    BY <1>1, <1>3, <1>4, PushIs
  <1>7. ChansOK(f.channels) /\ (e.state # "Authenticated" => DOMAIN f.channels = {})
        /\ (e.role = "client" => EventsOK(f.events)) /\ Flow(x)
    BY <1>2, <1>4, <1>6 DEF EndOK, Idle
  <1> QED BY <1>3, <1>5, <1>6, <1>7, GoodStep

\* A packet that changes nothing is read.
LEMMA MidDrop ==
    ASSUME NEW e, NEW o, NEW b, NEW c, NEW B, Mid(e, o, b, c, B),
           NEW p, NEW t, Taken(c, p, t), p.msg \notin KexMsgs,
           e.role = "client" => p.msg # "CHANNEL_OPEN_CONFIRMATION",
           \A k \in DOMAIN e.channels : Size(p, k) = 0 /\ Credit(p, k) = 0
    PROVE  Mid(e, o, b, t, B)
  BY PactDrop DEF Mid

\* A handler changes only the channels, and what is to be read.
LEMMA GoodChange ==
    ASSUME NEW e, NEW o, NEW b, NEW c, NEW B, Mid(e, o, b, c, B), NEW f,
           Only(e, f, {"channels", "events"}), NEW d,
           Pact(e.role, f.channels, e.last_channel_id, Phase(e), o, b \o Going(e), d, B),
           ChansOK(f.channels), e.state # "Authenticated" => DOMAIN f.channels = {},
           e.role = "client" => EventsOK(f.events)
    PROVE  Good(e, f, o, b, d, B)
  <1>1. EndOK(e) /\ Flow(b)
    BY DEF Mid
  <1>2. DOMAIN e = Fields /\ IsSeq(e.write) /\ IsSeq(Plain(e.out)) /\ IsSeq(b)
    BY <1>1 DEF EndOK, Flow
  <1>3. f.write = e.write /\ f.last_channel_id = e.last_channel_id
        /\ Only(e, f, {"write", "channels", "last_channel_id", "events"})
    BY <1>2 DEF Only, Fields
  <1>4. PICK x : x = <<>>
    OBVIOUS
  <1>5. Flow(x)
    BY <1>4, FlowNone
  <1>6. f.write = e.write \o x
    BY <1>2, <1>3, <1>4, CatNone
  <1>7. IsSeq(b \o Going(e))
    BY <1>2, CatFacts DEF Going
  <1>8. (b \o Going(e)) \o x = b \o Going(e)
    BY <1>4, <1>7, CatNone
  <1>9. Pact(e.role, f.channels, f.last_channel_id, Phase(e), o, (b \o Going(e)) \o x, d, B)
    BY <1>3, <1>8
  <1> QED BY <1>3, <1>5, <1>6, <1>9, GoodStep

\* Report adds an event.
LEMMA ReportIs ==
    ASSUME NEW e, EndOK(e), NEW ch, NEW ev, e.role = "client" => EventOK(ev), NEW f, f = Report(e, ch, ev)
    PROVE  /\ Only(e, f, {"events"}) /\ f.channels = e.channels /\ f.fault = e.fault
           /\ e.role = "client" => EventsOK(f.events)
  <1>1. DOMAIN e = Fields
    BY DEF EndOK
  <1>2. /\ f.events = Append(e.events, [ch |-> ch, event |-> ev])
        /\ DOMAIN f = DOMAIN e /\ \A k \in DOMAIN e \ {"events"} : f[k] = e[k]
    BY <1>1 DEF Report, Fields
  <1>3. ASSUME e.role = "client" PROVE EventsOK(f.events)
    <2>1. PICK y : y = [ch |-> ch, event |-> ev]
      OBVIOUS
    <2>2. PICK v : v = e.events
      OBVIOUS
    <2>3. IsSeq(v) /\ (\A i \in DOMAIN v : EventOK(v[i].event)) /\ EventOK(y.event)
      BY <1>3, <2>1, <2>2 DEF EndOK, EventsOK
    <2>4. f.events = v \o <<y>>
      BY <1>2, <2>1, <2>2, <2>3, AppendIs
    <2>5. PICK z : z = <<y>>
      OBVIOUS
    <2>6. IsSeq(z) /\ Len(z) = 1 /\ z[1] = y
      BY <2>5, OneIs
    <2>6a. IsSeq(v) /\ IsSeq(z)
      BY <2>3, <2>6
    <2>7. /\ Len(v) \in Nat /\ Len(z) \in Nat /\ DOMAIN v = 1..Len(v) /\ DOMAIN z = 1..Len(z)
          /\ Len(v \o z) = Len(v) + Len(z) /\ DOMAIN (v \o z) = 1..Len(v) + Len(z)
          /\ \A i \in 1..Len(v) : (v \o z)[i] = v[i]
          /\ \A i \in 1..Len(z) : (v \o z)[Len(v) + i] = z[i]
      BY <2>6a, CatAll
    <2>8. IsSeq(v \o z)
      BY <2>3, <2>6, CatFacts
    <2>9. ASSUME NEW i \in DOMAIN (v \o z) PROVE EventOK((v \o z)[i].event)
      <3>1. CASE i \in DOMAIN v
        BY <2>3, <2>7, <3>1
      <3>2. CASE i \notin DOMAIN v
        <4>1. i = Len(v) + 1 /\ 1 \in 1..Len(z)
          BY <2>6, <2>7, <3>2
        <4>2. (v \o z)[i] = y
          BY <2>6, <2>7, <4>1
        <4> QED BY <2>3, <4>2
      <3> QED BY <3>1, <3>2
    <2> QED BY <2>4, <2>5, <2>8, <2>9 DEF EventsOK
  <1> QED BY <1>1, <1>2, <1>3 DEF Only, Fields

\* It reports.
LEMMA GoodReport ==
    ASSUME NEW e, NEW o, NEW b, NEW c, NEW B, Mid(e, o, b, c, B),
           NEW ch, NEW ev, e.role = "client" => EventOK(ev)
    PROVE  Good(e, Report(e, ch, ev), o, b, c, B)
  <1>1. EndOK(e) /\ Pact(e.role, e.channels, e.last_channel_id, Phase(e), o, b \o Going(e), c, B)
    BY DEF Mid
  <1>2. PICK f : f = Report(e, ch, ev)
    OBVIOUS
  <1>3. /\ Only(e, f, {"events"}) /\ f.channels = e.channels
        /\ e.role = "client" => EventsOK(f.events)
    BY <1>1, <1>2, ReportIs
  <1>4. Only(e, f, {"channels", "events"})
    BY <1>3 DEF Only
  <1>5. ChansOK(f.channels) /\ (e.state # "Authenticated" => DOMAIN f.channels = {})
    BY <1>1, <1>3 DEF EndOK
  <1> QED BY <1>1, <1>2, <1>3, <1>4, <1>5, GoodChange

\* It reports if it has the channel.
LEMMA GoodNotify ==
    ASSUME NEW e, NEW o, NEW b, NEW c, NEW B, Mid(e, o, b, c, B),
           NEW ch, NEW ev, e.role = "client" => EventOK(ev)
    PROVE  Good(e, Notify(e, ch, ev), o, b, c, B) /\ Notify(e, ch, ev).channels = e.channels
  <1>1. CASE HasChannel(e, ch)
    <2>1. Report(e, ch, ev).channels = e.channels
      BY ReportIs DEF Mid
    <2> QED BY <1>1, <2>1, GoodReport DEF Notify
  <1>2. CASE ~HasChannel(e, ch)
    BY <1>2, GoodNone DEF Notify
  <1> QED BY <1>1, <1>2

------------------------------------------------------------------------------
(* Channels are opened *)

\* The next number is free.
LEMMA FreeIs ==
    ASSUME NEW e, Table(e.channels, e.last_channel_id), e.last_channel_id + 1 < IdSpace
    PROVE  FreeId(e) = e.last_channel_id + 1
  <1>1. PICK l : l = e.last_channel_id
    OBVIOUS
  <1>2. l \in Nat /\ DOMAIN e.channels \subseteq 2..l /\ l + 1 < IdSpace /\ IdSpace \in Nat
    BY <1>1, SshConnectionAssumption DEF Table
  <1>3. (l + 1) % IdSpace = l + 1
    BY <1>2
  <1> DEFINE offsets == {k \in 1..IdSpace : ~HasChannel(e, (l + k) % IdSpace)}
  <1>4. l + 1 \notin DOMAIN e.channels
    BY <1>2
  <1>5. 1 \in offsets /\ \A k \in offsets : 1 <= k /\ k \in Int
    BY <1>2, <1>3, <1>4 DEF HasChannel
  <1>6. \A k \in Int : 1 <= k /\ k <= 1 => k = 1
    OBVIOUS
  <1> HIDE DEF offsets
  <1>7. (CHOOSE k \in offsets : \A j \in offsets : k <= j) = 1
    BY <1>5, <1>6
  <1>8. FreeId(e) = (l + (CHOOSE k \in offsets : \A j \in offsets : k <= j)) % IdSpace
    BY <1>1 DEF FreeId, offsets
  <1> QED BY <1>1, <1>3, <1>7, <1>8

\* insert adds a channel to the table.
LEMMA InsertIs ==
    ASSUME NEW T, NEW id, NEW ch, NEW U, U = insert(T, id, ch)
    PROVE  Extended(T, U, id) /\ U[id] = ch /\ (ChansOK(T) /\ ChanOK(ch) => ChansOK(U))
  <1>1. DOMAIN U = DOMAIN T \cup {id} /\ U[id] = ch /\ \A k \in DOMAIN T \ {id} : U[k] = T[k]
    BY DEF insert
  <1>2. ASSUME ChansOK(T), ChanOK(ch), NEW k \in DOMAIN U PROVE ChanOK(U[k])
    <2>1. CASE k = id
      BY <1>1, <1>2, <2>1
    <2>2. CASE k # id
      <3>1. U[k] = T[k] /\ k \in DOMAIN T
        BY <1>1, <2>2
      <3> QED BY <1>2, <3>1 DEF ChansOK
    <2> QED BY <2>1, <2>2
  <1> QED BY <1>1, <1>2 DEF Extended, ChansOK

\* A channel that waits for its confirmation.
Waiting == [recipient_channel |-> 0, confirmed |-> FALSE, sender_window_size |-> WindowSize,
            recipient_window_size |-> 0, recipient_maximum_packet_size |-> 0,
            wants_reply |-> FALSE, pending_data |-> <<>>]

\* A channel that waits for its confirmation has the shape of a channel.
LEMMA WaitingIs ==
    /\ ChanOK(Waiting) /\ Waiting.recipient_channel = 0 /\ Waiting.confirmed = FALSE
    /\ Waiting.sender_window_size = WindowSize /\ Waiting.recipient_window_size = 0
  <1>1. DOMAIN Waiting = ChanFields
    BY DEF Waiting, ChanFields
  <1>2. Waiting.pending_data = <<>> /\ Waiting.confirmed = FALSE
    BY DEF Waiting
  <1>3. IsSeq(<<>>) /\ Len(<<>>) = 0
    BY OneIs
  <1>4. DOMAIN <<>> = {}
    OBVIOUS
  <1>5. ChanOK(Waiting)
    BY <1>1, <1>2, <1>3, <1>4 DEF ChanOK
  <1> QED BY <1>5 DEF Waiting

\* new_channel takes the next number that is free.
LEMMA NewChannelIs ==
    ASSUME NEW e, EndOK(e), NEW f, f = new_channel(e)
    PROVE  /\ Only(e, f, {"channels", "last_channel_id"}) /\ f.last_channel_id = FreeId(e)
           /\ f.channels = insert(e.channels, FreeId(e), Waiting)
  <1>1. DOMAIN e = Fields
    BY DEF EndOK
  <1> QED BY <1>1 DEF new_channel, Only, Fields, Waiting

\* What asking for a channel does.
Opened(e, f, l, p) ==
    /\ p.msg = "CHANNEL_OPEN" /\ p.sender = l + 1 /\ p.window = WindowSize /\ p.maxpacket = MaxPacketSize
    /\ f.write = e.write \o <<p>> /\ f.last_channel_id = l + 1
    /\ Only(e, f, {"write", "channels", "last_channel_id", "events"})
    /\ Extended(e.channels, f.channels, l + 1) /\ f.channels[l + 1] = Waiting
    /\ ChansOK(f.channels) /\ f.events = e.events /\ f.fault = e.fault

\* A new channel and the packet that asks for it.
LEMMA OpenIs ==
    ASSUME NEW e, EndOK(e), NEW type, e.state = "Authenticated", NEW l, l = e.last_channel_id,
           FreeId(e) = l + 1, NEW f, f = channel_open(e, type)
    PROVE  \E p : Opened(e, f, l, p)
  <1>1. PICK p : p = [msg |-> "CHANNEL_OPEN", type |-> type, sender |-> FreeId(e),
                      window |-> WindowSize, maxpacket |-> MaxPacketSize]
    OBVIOUS
  <1>2. p.msg = "CHANNEL_OPEN" /\ p.sender = l + 1 /\ p.window = WindowSize /\ p.maxpacket = MaxPacketSize
    BY <1>1
  <1>3. PICK g : g = new_channel(e)
    OBVIOUS
  <1>4. f = push_packet(g, p)
    BY <1>1, <1>3 DEF channel_open
  <1>5. /\ Only(e, g, {"channels", "last_channel_id"}) /\ g.last_channel_id = l + 1
        /\ g.channels = insert(e.channels, l + 1, Waiting)
    BY <1>3, NewChannelIs
  <1>6. DOMAIN e = Fields /\ IsSeq(e.write) /\ ChansOK(e.channels)
    BY DEF EndOK, Flow
  <1>7. /\ DOMAIN g = Fields /\ g.write = e.write /\ g.events = e.events /\ g.fault = e.fault
        /\ \A k \in Fields \ {"write", "channels", "last_channel_id", "events"} : g[k] = e[k]
    BY <1>5, <1>6 DEF Only, Fields
  <1>8. /\ f.write = Append(g.write, p) /\ DOMAIN f = DOMAIN g /\ \A k \in DOMAIN g \ {"write"} : f[k] = g[k]
    BY <1>4, <1>7 DEF push_packet, Fields
  <1>9. f.write = e.write \o <<p>>
    BY <1>6, <1>7, <1>8, AppendIs
  <1>10. f.channels = g.channels /\ f.last_channel_id = g.last_channel_id /\ f.events = e.events /\ f.fault = e.fault
    BY <1>7, <1>8 DEF Fields
  <1>11. Only(e, f, {"write", "channels", "last_channel_id", "events"})
    BY <1>6, <1>7, <1>8 DEF Only
  <1>12. Extended(e.channels, f.channels, l + 1) /\ f.channels[l + 1] = Waiting /\ ChansOK(f.channels)
    BY <1>5, <1>6, <1>10, InsertIs, WaitingIs
  <1>13. Opened(e, f, l, p)
    BY <1>2, <1>5, <1>9, <1>10, <1>11, <1>12 DEF Opened
  <1> QED BY <1>13

\* channel_open of the client keeps the agreement.
LEMMA GoodOpen ==
    ASSUME NEW e, NEW o, NEW b, NEW c, NEW B, Mid(e, o, b, c, B), e.role = "client", B + 1 < IdSpace,
           NEW type, NEW f, f = channel_open(e, type), f.fault = "none"
    PROVE  Good(e, f, o, b, c, B + 1)
  <1>1. EndOK(e) /\ Flow(b) /\ Pact(e.role, e.channels, e.last_channel_id, Phase(e), o, b \o Going(e), c, B)
    BY DEF Mid
  <1>2. e.state = "Authenticated"
    <2>1. ASSUME e.state # "Authenticated" PROVE FALSE
      <3>1. f = [e EXCEPT !.fault = "NotAuthenticated"]
        BY <2>1 DEF channel_open, Failed
      <3> QED BY <1>1, <3>1 DEF EndOK, Fields
    <2> QED BY <2>1
  <1>3. PICK l : l = e.last_channel_id
    OBVIOUS
  <1>4. l \in Nat /\ Table(e.channels, l) /\ l <= B /\ B \in Nat
    BY <1>1, <1>3, PactNumbers
  <1>5. l + 1 < IdSpace
    BY <1>4, SshConnectionAssumption
  <1>6. FreeId(e) = l + 1
    BY <1>3, <1>4, <1>5, FreeIs
  <1>7a. PICK p : Opened(e, f, l, p)
    BY <1>1, <1>2, <1>3, <1>6, OpenIs
  <1>7. /\ p.msg = "CHANNEL_OPEN" /\ p.sender = l + 1 /\ p.window = WindowSize /\ p.maxpacket = MaxPacketSize
        /\ f.write = e.write \o <<p>> /\ f.last_channel_id = l + 1
        /\ Only(e, f, {"write", "channels", "last_channel_id", "events"})
        /\ Extended(e.channels, f.channels, l + 1) /\ f.channels[l + 1] = Waiting
        /\ ChansOK(f.channels) /\ f.events = e.events /\ f.fault = e.fault
    BY <1>7a DEF Opened
  <1>8. /\ f.channels[l + 1].recipient_channel = 0 /\ f.channels[l + 1].confirmed = FALSE
        /\ f.channels[l + 1].sender_window_size = WindowSize /\ f.channels[l + 1].recipient_window_size = 0
    BY <1>7, WaitingIs
  <1>9. IsOpen(p)
    BY <1>7 DEF IsOpen
  <1>10. Pact(e.role, f.channels, l + 1, Phase(e), o, (b \o Going(e)) \o <<p>>, c, B + 1)
    BY <1>1, <1>3, <1>7, <1>8, <1>9, PactOpen
  <1>11. PICK x : x = <<p>>
    OBVIOUS
  <1>12. Flow(x)
    BY <1>7, <1>11, PlainIs
  <1>13. e.role = "client" => EventsOK(f.events)
    BY <1>1, <1>7 DEF EndOK
  <1> QED BY <1>2, <1>7, <1>10, <1>11, <1>12, <1>13, GoodStep

\* channel_open of the server, for a request of the client, keeps the agreement.
LEMMA GoodForward ==
    ASSUME NEW e, NEW o, NEW b, NEW c, NEW B, Mid(e, o, b, c, B), e.role = "server", e.state = "Authenticated",
           NEW p, NEW t, Taken(c, p, t), Opening(p) = 1,
           NEW type, NEW f, f = channel_open(e, type)
    PROVE  Good(e, f, o, b, t, B)
  <1>1. EndOK(e) /\ Flow(b) /\ Pact(e.role, e.channels, e.last_channel_id, Phase(e), o, b \o Going(e), c, B)
    BY DEF Mid
  <1>3. PICK l : l = e.last_channel_id
    OBVIOUS
  <1>4. l \in Nat /\ Table(e.channels, l) /\ B \in Nat /\ B < IdSpace
    BY <1>1, <1>3, PactNumbers
  <1>5. l + 1 < IdSpace
    <2>1. l + Openings(c) <= B
      BY <1>1, <1>3 DEF Pact, World
    <2>2. Openings(c) = 1 + Openings(t) /\ Openings(t) \in Nat
      BY DEF Taken
    <2> QED BY <1>4, <2>1, <2>2, SshConnectionAssumption
  <1>6. FreeId(e) = l + 1
    BY <1>3, <1>4, <1>5, FreeIs
  <1>7a. PICK q : Opened(e, f, l, q)
    BY <1>1, <1>3, <1>6, OpenIs
  <1>7. /\ q.msg = "CHANNEL_OPEN" /\ q.sender = l + 1 /\ q.window = WindowSize /\ q.maxpacket = MaxPacketSize
        /\ f.write = e.write \o <<q>> /\ f.last_channel_id = l + 1
        /\ Only(e, f, {"write", "channels", "last_channel_id", "events"})
        /\ Extended(e.channels, f.channels, l + 1) /\ f.channels[l + 1] = Waiting
        /\ ChansOK(f.channels) /\ f.events = e.events /\ f.fault = e.fault
    BY <1>7a DEF Opened
  <1>8. /\ f.channels[l + 1].recipient_channel = 0 /\ f.channels[l + 1].confirmed = FALSE
        /\ f.channels[l + 1].sender_window_size \in Nat /\ f.channels[l + 1].recipient_window_size \in Nat
    BY <1>7, WaitingIs, SshConnectionAssumption
  <1>9. e.role # "client"
    OBVIOUS
  <1>10. Pact(e.role, f.channels, l + 1, Phase(e), o, b \o Going(e), t, B)
    BY <1>1, <1>3, <1>7, <1>8, <1>9, PactForward
  <1>11. PICK x : x = <<q>>
    OBVIOUS
  <1>12. /\ Flow(x) /\ (\A k : DataFor(k, x) = 0 /\ CreditFor(k, x) = 0) /\ DOMAIN x = {1} /\ x[1] = q
    BY <1>7, <1>11, PlainIs
  <1>13. Pact(e.role, f.channels, l + 1, Phase(e), o, (b \o Going(e)) \o x, t, B)
    <2>1. NoKex(x)
      BY <1>7, <1>12 DEF NoKex, KexMsgs
    <2>2. PICK s : s = b \o Going(e)
      OBVIOUS
    <2>3. World(o.channels, o.last_channel_id, Phase(o), f.channels, l + 1, Phase(e), t, s, B)
      BY <1>9, <1>10, <2>2 DEF Pact
    <2>4. Flow(s)
      BY <2>3 DEF World, Agreed
    <2>5. Grown(s, x, s \o x)
      BY <1>12, <2>4, CatGrows
    <2>6. Exchanging(Phase(o), Phase(e), t, s \o x)
      BY <2>1, <2>3, <2>5, ExchangeAddS DEF World
    <2>7. \A i \in DOMAIN x : x[i].msg # "CHANNEL_OPEN_CONFIRMATION"
      BY <1>7, <1>12
    <2>8. Agreed(o.channels, o.last_channel_id, f.channels, l + 1, t, s \o x)
      BY <1>12, <2>3, <2>7, AgreedAddS DEF World
    <2> QED BY <1>9, <2>2, <2>3, <2>6, <2>8 DEF Pact, World
  <1> QED BY <1>7, <1>9, <1>11, <1>12, <1>13, GoodStep

\* server_handle_channel_open keeps the agreement.
LEMMA GoodAccept ==
    ASSUME NEW e, NEW o, NEW b, NEW c, NEW B, Mid(e, o, b, c, B), e.role = "server", e.state = "Authenticated",
           NEW p, NEW t, Taken(c, p, t), p.msg = "CHANNEL_OPEN",
           NEW f, f = server_handle_channel_open(e, p)
    PROVE  Good(e, f, o, b, t, B)
  <1>1. EndOK(e) /\ Flow(b) /\ Pact(e.role, e.channels, e.last_channel_id, Phase(e), o, b \o Going(e), c, B)
    BY DEF Mid
  <1>2. DOMAIN e = Fields /\ IsSeq(e.write) /\ ChansOK(e.channels)
    BY <1>1 DEF EndOK, Flow
  <1>3. PICK l : l = e.last_channel_id
    OBVIOUS
  <1>4. l \in Nat /\ Table(e.channels, l) /\ B \in Nat /\ B < IdSpace
    BY <1>1, <1>3, PactNumbers
  <1>4a. Opening(p) = 1
    BY DEF Opening
  <1>5. l + 1 < IdSpace
    <2>1. l + Openings(c) <= B
      BY <1>1, <1>3 DEF Pact, World
    <2>2. Openings(c) = 1 + Openings(t) /\ Openings(t) \in Nat
      BY <1>4a DEF Taken
    <2> QED BY <1>4, <2>1, <2>2, SshConnectionAssumption
  <1>6. FreeId(e) = l + 1
    BY <1>3, <1>4, <1>5, FreeIs
  <1>7. PICK e1 : e1 = [e EXCEPT !.last_channel_id = l + 1]
    OBVIOUS
  <1>8. DOMAIN e1 = Fields /\ e1.last_channel_id = l + 1 /\ \A k \in Fields \ {"last_channel_id"} : e1[k] = e[k]
    BY <1>2, <1>7 DEF Fields
  <1>9. e1.write = e.write /\ e1.channels = e.channels /\ e1.events = e.events
    BY <1>8 DEF Fields
  <1>10. e.role # "client"
    OBVIOUS
  <1>11. CASE p.type \notin KnownChannelTypes
    <2>1. PICK q : q = [msg |-> "CHANNEL_OPEN_FAILURE", ch |-> p.sender]
      OBVIOUS
    <2>2. f = push_packet(e1, q)
      BY <1>6, <1>7, <1>11, <2>1 DEF server_handle_channel_open
    <2>3. /\ f.write = Append(e1.write, q) /\ DOMAIN f = Fields /\ \A k \in Fields \ {"write"} : f[k] = e1[k]
      BY <1>8, <2>2 DEF push_packet, Fields
    <2>4. f.write = e.write \o <<q>>
      BY <1>2, <1>9, <2>3, AppendIs
    <2>5. /\ Only(e, f, {"write", "channels", "last_channel_id", "events"})
          /\ f.channels = e.channels /\ f.last_channel_id = l + 1
      BY <1>2, <1>8, <2>3 DEF Only, Fields
    <2>6. Pact(e.role, e.channels, l + 1, Phase(e), o, b \o Going(e), t, B)
      BY <1>1, <1>3, <1>4a, <1>10, PactForward
    <2>7. Calm(q)
      BY <2>1 DEF Calm, KexMsgs
    <2>8. PICK x : x = <<q>>
      OBVIOUS
    <2>9. Idle(x) /\ NoKex(x)
      BY <2>7, <2>8, CalmIs
    <2>10. Pact(e.role, e.channels, l + 1, Phase(e), o, (b \o Going(e)) \o x, t, B)
      BY <1>10, <2>6, <2>9, PactAdd
    <2>11. Flow(x)
      BY <2>9 DEF Idle
    <2> QED BY <1>2, <1>10, <2>4, <2>5, <2>8, <2>10, <2>11, GoodStep
  <1>12. CASE p.type \in KnownChannelTypes
    <2>1. PICK q : q = [msg |-> "CHANNEL_OPEN_CONFIRMATION", ch |-> p.sender,
                        id_recv |-> l + 1, window |-> WindowSize, maxpacket |-> MaxPacketSize]
      OBVIOUS
    <2>2. PICK n : n = [recipient_channel |-> p.sender, confirmed |-> TRUE,
                        sender_window_size |-> WindowSize,
                        recipient_window_size |-> p.window,
                        recipient_maximum_packet_size |-> p.maxpacket,
                        wants_reply |-> FALSE, pending_data |-> <<>>]
      OBVIOUS
    <2>3. PICK e2 : e2 = push_packet(e1, q)
      OBVIOUS
    <2>4. PICK e3 : e3 = [e2 EXCEPT !.channels = insert(@, l + 1, n)]
      OBVIOUS
    <2>5. f = Report(e3, l + 1, [t |-> "Open"])
      BY <1>6, <1>7, <1>12, <2>1, <2>2, <2>3, <2>4 DEF server_handle_channel_open
    <2>6. /\ e2.write = Append(e1.write, q) /\ DOMAIN e2 = Fields /\ \A k \in Fields \ {"write"} : e2[k] = e1[k]
      BY <1>8, <2>3 DEF push_packet, Fields
    <2>7. e2.channels = e.channels
      BY <1>9, <2>6 DEF Fields
    <2>8. /\ e3.channels = insert(e.channels, l + 1, n) /\ DOMAIN e3 = Fields
          /\ \A k \in Fields \ {"channels"} : e3[k] = e2[k]
      BY <2>4, <2>6, <2>7 DEF Fields
    <2>9. DOMAIN f = Fields /\ \A k \in Fields \ {"events"} : f[k] = e3[k]
      BY <2>5, <2>8 DEF Report, Fields
    <2>10. f.write = e.write \o <<q>>
      <3>1. f.write = Append(e.write, q)
        BY <1>9, <2>6, <2>8, <2>9 DEF Fields
      <3> QED BY <1>2, <3>1, AppendIs
    <2>11. /\ Only(e, f, {"write", "channels", "last_channel_id", "events"})
           /\ f.channels = insert(e.channels, l + 1, n) /\ f.last_channel_id = l + 1
      BY <1>2, <1>8, <2>6, <2>8, <2>9 DEF Only, Fields
    <2>12. p.sender = p.sender /\ p.window = WindowSize /\ p.maxpacket = MaxPacketSize
      <3>1. Asked(o.channels, o.last_channel_id, e.channels, c, b \o Going(e))
        BY <1>1, <1>10 DEF Pact, World, Agreed
      <3>2. 1 \in DOMAIN c /\ c[1] = p
        BY DEF Taken
      <3> QED BY <3>1, <3>2 DEF Asked, IsOpen
    <2>13. ChanOK(n)
      <3>1. DOMAIN n = ChanFields
        BY <2>2 DEF ChanFields
      <3>2. n.pending_data = <<>> /\ n.recipient_maximum_packet_size \in Nat \ {0}
        BY <2>2, <2>12, SshConnectionAssumption
      <3>3. IsSeq(<<>>)
        BY OneIs
      <3>4. DOMAIN <<>> = {}
        OBVIOUS
      <3> QED BY <3>1, <3>2, <3>3, <3>4 DEF ChanOK
    <2>14. Extended(e.channels, f.channels, l + 1) /\ f.channels[l + 1] = n /\ ChansOK(f.channels)
      BY <1>2, <2>11, <2>13, InsertIs
    <2>15. /\ n.recipient_channel = p.sender /\ n.confirmed = TRUE
           /\ n.sender_window_size = WindowSize /\ n.recipient_window_size = p.window
      BY <2>2
    <2>16. IsConf(q, p.sender) /\ q.id_recv = l + 1 /\ q.window = WindowSize /\ q.maxpacket = MaxPacketSize
      BY <2>1 DEF IsConf
    <2>17. IsOpen(p)
      BY DEF IsOpen
    <2>18. Pact(e.role, f.channels, l + 1, Phase(e), o, (b \o Going(e)) \o <<q>>, t, B)
      BY <1>1, <1>3, <1>10, <2>14, <2>15, <2>16, <2>17, PactAccept
    <2>19. PICK x : x = <<q>>
      OBVIOUS
    <2>20. Flow(x)
      BY <2>1, <2>19, PlainIs
    <2> QED BY <1>10, <2>10, <2>11, <2>14, <2>18, <2>19, <2>20, GoodStep
  <1> QED BY <1>11, <1>12

------------------------------------------------------------------------------
(* Channels are used *)

\* f is e with n for its channel ch.
Changed(e, f, ch, n) ==
    /\ Only(e, f, {"channels"})
    /\ DOMAIN f.channels = DOMAIN e.channels
    /\ f.channels[ch] = n /\ \A k \in DOMAIN e.channels \ {ch} : f.channels[k] = e.channels[k]

\* An assignment to a channel.
LEMMA ChangeIs ==
    ASSUME NEW e, EndOK(e), NEW ch \in DOMAIN e.channels, NEW n, NEW f, f = [e EXCEPT !.channels[ch] = n]
    PROVE  Changed(e, f, ch, n)
  <1>1. DOMAIN e = Fields
    BY DEF EndOK
  <1> QED BY <1>1 DEF Changed, Only, Fields

\* All channels have their shape.
LEMMA ChangedOK ==
    ASSUME NEW e, EndOK(e), NEW f, NEW ch \in DOMAIN e.channels, NEW n, Changed(e, f, ch, n), ChanOK(n)
    PROVE  ChansOK(f.channels) /\ e.state = "Authenticated"
  <1>1. ASSUME NEW k \in DOMAIN f.channels PROVE ChanOK(f.channels[k])
    BY DEF Changed, EndOK, ChansOK
  <1> QED BY <1>1 DEF ChansOK, EndOK

\* An assignment to wants_reply keeps the agreement.
LEMMA GoodWants ==
    ASSUME NEW e, NEW o, NEW b, NEW c, NEW B, Mid(e, o, b, c, B), NEW ch \in DOMAIN e.channels, NEW v,
           NEW f, f = [e EXCEPT !.channels[ch].wants_reply = v]
    PROVE  Good(e, f, o, b, c, B) /\ f.fault = e.fault /\ DOMAIN f.channels = DOMAIN e.channels
  <1>1. EndOK(e) /\ Flow(b) /\ Pact(e.role, e.channels, e.last_channel_id, Phase(e), o, b \o Going(e), c, B)
    BY DEF Mid
  <1>2. PICK m : m = e.channels[ch]
    OBVIOUS
  <1>3. PICK n : n = [m EXCEPT !.wants_reply = v]
    OBVIOUS
  <1>4. Changed(e, f, ch, n)
    <2>1. f = [e EXCEPT !.channels[ch] = n]
      BY <1>2, <1>3
    <2> QED BY <1>1, <2>1, ChangeIs
  <1>6. ChanOK(m)
    BY <1>1, <1>2 DEF EndOK, ChansOK
  <1>7. /\ n.recipient_channel = m.recipient_channel /\ n.confirmed = m.confirmed
        /\ n.sender_window_size = m.sender_window_size /\ n.recipient_window_size = m.recipient_window_size
        /\ n.recipient_maximum_packet_size = m.recipient_maximum_packet_size
        /\ n.pending_data = m.pending_data /\ DOMAIN n = ChanFields
    BY <1>3, <1>6 DEF ChanOK, ChanFields
  <1>8. ChanOK(n)
    BY <1>6, <1>7 DEF ChanOK
  <1>9. ChansOK(f.channels) /\ e.state = "Authenticated"
    BY <1>1, <1>4, <1>8, ChangedOK
  <1>10. Same(e.channels, f.channels)
    BY <1>2, <1>4, <1>7 DEF Same, SameButWindow, Changed
  <1>11. Pact(e.role, f.channels, e.last_channel_id, Phase(e), o, b \o Going(e), c, B)
    BY <1>1, <1>10, PactSame
  <1>12. DOMAIN e = Fields
    BY <1>1 DEF EndOK
  <1>13. Only(e, f, {"channels", "events"}) /\ f.events = e.events /\ f.fault = e.fault
    BY <1>4, <1>12 DEF Changed, Only, Fields
  <1>14. e.role = "client" => EventsOK(f.events)
    BY <1>1, <1>13 DEF EndOK
  <1>15. DOMAIN f.channels = DOMAIN e.channels
    BY <1>4 DEF Changed
  <1> QED BY <1>9, <1>11, <1>13, <1>14, <1>15, GoodChange

\* channel_open_confirmation keeps the agreement.
LEMMA GoodConfirm ==
    ASSUME NEW e, NEW o, NEW b, NEW c, NEW B, Mid(e, o, b, c, B), e.role = "client",
           NEW p, NEW t, Taken(c, p, t), p.msg = "CHANNEL_OPEN_CONFIRMATION",
           NEW f, f = channel_open_confirmation(e, p), f.fault = "none"
    PROVE  Good(e, f, o, b, t, B)
  <1>1. EndOK(e) /\ Flow(b) /\ Pact(e.role, e.channels, e.last_channel_id, Phase(e), o, b \o Going(e), c, B)
    BY DEF Mid
  <1>2. DOMAIN e = Fields
    BY <1>1 DEF EndOK
  <1>3. p.ch \in DOMAIN e.channels
    <2>1. ASSUME p.ch \notin DOMAIN e.channels PROVE FALSE
      <3>1. f = [e EXCEPT !.fault = "Inconsistent"]
        BY <2>1 DEF channel_open_confirmation, Failed, HasChannel
      <3> QED BY <1>2, <3>1 DEF Fields
    <2> QED BY <2>1
  <1>4. PICK m : m = e.channels[p.ch]
    OBVIOUS
  <1>5. PICK n : n = [m EXCEPT !.recipient_channel = p.id_recv, !.recipient_window_size = p.window,
                               !.recipient_maximum_packet_size = p.maxpacket, !.confirmed = TRUE]
    OBVIOUS
  <1>6. PICK g : g = [e EXCEPT !.channels[p.ch] = n]
    OBVIOUS
  <1>7. f = Report(g, p.ch, [t |-> "Open", window |-> p.window])
    BY <1>3, <1>4, <1>5, <1>6 DEF channel_open_confirmation, HasChannel
  <1>8. Changed(e, g, p.ch, n)
    BY <1>2, <1>3, <1>6 DEF Changed, Only, Fields
  <1>9. ChanOK(m)
    BY <1>1, <1>3, <1>4 DEF EndOK, ChansOK
  <1>10. /\ n.recipient_channel = p.id_recv /\ n.confirmed = TRUE
         /\ n.sender_window_size = m.sender_window_size /\ n.recipient_window_size = p.window
         /\ n.recipient_maximum_packet_size = p.maxpacket
         /\ n.pending_data = m.pending_data /\ DOMAIN n = ChanFields
    BY <1>5, <1>9 DEF ChanOK, ChanFields
  <1>11. p.window = WindowSize /\ p.maxpacket = MaxPacketSize
    <2>1. Answered(e.channels, e.last_channel_id, o.channels, o.last_channel_id, c)
      BY <1>1 DEF Pact, World, Agreed
    <2>2. 1 \in DOMAIN c /\ c[1] = p
      BY DEF Taken
    <2> QED BY <2>1, <2>2 DEF Answered, IsConf
  <1>12. p.maxpacket \in Nat \ {0} /\ p.window \in Int
    BY <1>11, SshConnectionAssumption
  <1>13. ChanOK(n)
    BY <1>9, <1>10, <1>12 DEF ChanOK
  <1>14. ChansOK(g.channels) /\ e.state = "Authenticated"
    BY <1>1, <1>3, <1>8, <1>13, ChangedOK
  <1>15. Confirmed(e.channels, g.channels, p.ch, p.id_recv, p.window)
    BY <1>3, <1>4, <1>8, <1>10 DEF Confirmed, Changed
  <1>16. Pact(e.role, g.channels, e.last_channel_id, Phase(e), o, b \o Going(e), t, B)
    BY <1>1, <1>15, PactConfirm
  <1>17. Only(e, g, {"channels", "events"}) /\ g.events = e.events
    BY <1>2, <1>8 DEF Changed, Only, Fields
  <1>18. e.role = "client" => EventsOK(g.events)
    BY <1>1, <1>17 DEF EndOK
  <1>19. Good(e, g, o, b, t, B)
    BY <1>14, <1>16, <1>17, <1>18, GoodChange
  <1>20. PICK ev : ev = [t |-> "Open", window |-> p.window]
    OBVIOUS
  <1>21. EventOK(ev)
    BY <1>12, <1>20 DEF EventOK
  <1>22. Good(g, Report(g, p.ch, ev), o, b, t, B)
    BY <1>19, <1>21, GoodReport DEF Good
  <1> QED BY <1>7, <1>19, <1>20, <1>22, GoodThen DEF Good

\* remove_channel keeps the agreement.
LEMMA GoodRemove ==
    ASSUME NEW e, NEW o, NEW b, NEW c, NEW B, Mid(e, o, b, c, B), NEW ch,
           NEW f, f = remove_channel(e, ch)
    PROVE  Good(e, f, o, b, c, B)
  <1>1. EndOK(e) /\ Flow(b) /\ Pact(e.role, e.channels, e.last_channel_id, Phase(e), o, b \o Going(e), c, B)
    BY DEF Mid
  <1>2. DOMAIN e = Fields
    BY <1>1 DEF EndOK
  <1>3. f.channels = [k \in DOMAIN e.channels \ {ch} |-> e.channels[k]]
        /\ DOMAIN f = DOMAIN e /\ \A k \in DOMAIN e \ {"channels"} : f[k] = e[k]
    BY <1>2 DEF remove_channel, Fields
  <1>4. Restricted(e.channels, f.channels)
    BY <1>3 DEF Restricted
  <1>5. Pact(e.role, f.channels, e.last_channel_id, Phase(e), o, b \o Going(e), c, B)
    BY <1>1, <1>4, PactRemove
  <1>6. ChansOK(f.channels) /\ (e.state # "Authenticated" => DOMAIN f.channels = {})
    BY <1>1, <1>3 DEF EndOK, ChansOK
  <1>7. Only(e, f, {"channels", "events"}) /\ f.events = e.events
    BY <1>2, <1>3 DEF Only, Fields
  <1>8. e.role = "client" => EventsOK(f.events)
    BY <1>1, <1>7 DEF EndOK
  <1> QED BY <1>5, <1>6, <1>7, <1>8, GoodChange

\* close_channel keeps the agreement.
LEMMA GoodClose ==
    ASSUME NEW e, NEW o, NEW b, NEW c, NEW B, Mid(e, o, b, c, B), NEW ch
    PROVE  Good(e, close_channel(e, ch), o, b, c, B)
  <1>1. PICK ev : ev = [t |-> "Closed"]
    OBVIOUS
  <1>2. EventOK(ev)
    BY <1>1 DEF EventOK
  <1>3. PICK g : g = Notify(e, ch, ev)
    OBVIOUS
  <1>4. Good(e, g, o, b, c, B)
    BY <1>2, <1>3, GoodNotify
  <1>5. Good(g, remove_channel(g, ch), o, b, c, B)
    BY <1>4, GoodRemove DEF Good
  <1> QED BY <1>1, <1>3, <1>4, <1>5, GoodThen DEF Good, close_channel

\* byte keeps the agreement.
LEMMA GoodByte ==
    ASSUME NEW e, NEW o, NEW b, NEW c, NEW B, Mid(e, o, b, c, B), NEW ch,
           NEW m \in {"CHANNEL_EOF", "CHANNEL_CLOSE"}
    PROVE  Good(e, byte(e, ch, m), o, b, c, B)
  <1>1. PICK p : p = [msg |-> m, ch |-> e.channels[ch].recipient_channel]
    OBVIOUS
  <1>2. Calm(p) /\ Opening(p) = 0
    BY <1>1 DEF Calm, KexMsgs, Opening
  <1>3. Good(e, push_packet(e, p), o, b, c, B)
    BY <1>2, GoodPush
  <1>4. Good(e, e, o, b, c, B)
    BY GoodNone
  <1> QED BY <1>1, <1>3, <1>4 DEF byte

\* channel_request keeps the agreement.
LEMMA GoodRequest ==
    ASSUME NEW e, NEW o, NEW b, NEW c, NEW B, Mid(e, o, b, c, B), NEW ch, NEW req, NEW want
    PROVE  Good(e, channel_request(e, ch, req, want), o, b, c, B)
  <1>1. PICK p : p = [msg |-> "CHANNEL_REQUEST", ch |-> e.channels[ch].recipient_channel,
                      req |-> req, want_reply |-> want]
    OBVIOUS
  <1>2. Calm(p) /\ Opening(p) = 0
    BY <1>1 DEF Calm, KexMsgs, Opening
  <1>3. Good(e, push_packet(e, p), o, b, c, B)
    BY <1>2, GoodPush
  <1>4. Good(e, e, o, b, c, B)
    BY GoodNone
  <1> QED BY <1>1, <1>3, <1>4 DEF channel_request

\* An operation that fails leaves its mark.
LEMMA FailedIs ==
    ASSUME NEW e, DOMAIN e = Fields, NEW why, NEW f, f = Failed(e, why), f.fault = "none"
    PROVE  why = "none"
  BY DEF Failed, Fields

\* channel_success and channel_failure keep the agreement.
LEMMA GoodReply ==
    ASSUME NEW e, NEW o, NEW b, NEW c, NEW B, Mid(e, o, b, c, B), NEW ch,
           NEW m \in {"CHANNEL_SUCCESS", "CHANNEL_FAILURE"},
           NEW f, f = channel_reply(e, ch, m), f.fault = "none"
    PROVE  Good(e, f, o, b, c, B)
  <1>1. CASE f = e
    BY <1>1, GoodNone
  <1>2. CASE f # e
    <2>1. ch \in DOMAIN e.channels
      BY <1>2 DEF channel_reply, HasChannel
    <2>2. DOMAIN e = Fields
      BY DEF Mid, EndOK
    <2>3. e.channels[ch].confirmed
      <3>1. ASSUME ~e.channels[ch].confirmed PROVE FALSE
        <4>1. f = Failed(e, "panic")
          BY <2>1, <3>1 DEF channel_reply, HasChannel
        <4> QED BY <2>2, <4>1, FailedIs
      <3> QED BY <3>1
    <2>4. e.channels[ch].wants_reply
      BY <1>2, <2>1, <2>3 DEF channel_reply, HasChannel
    <2>5. PICK p : p = [msg |-> m, ch |-> e.channels[ch].recipient_channel]
      OBVIOUS
    <2>6. PICK g : g = [e EXCEPT !.channels[ch].wants_reply = FALSE]
      OBVIOUS
    <2>7. f = push_packet(g, p)
      BY <2>1, <2>3, <2>4, <2>5, <2>6 DEF channel_reply, HasChannel
    <2>8. Good(e, g, o, b, c, B)
      BY <2>1, <2>6, GoodWants
    <2>9. Calm(p) /\ Opening(p) = 0
      BY <2>5 DEF Calm, KexMsgs, Opening
    <2>10. Good(g, f, o, b, c, B)
      BY <2>7, <2>8, <2>9, GoodPush DEF Good
    <2> QED BY <2>8, <2>10, GoodThen DEF Good
  <1> QED BY <1>1, <1>2

\* server_channel_request keeps the agreement.
LEMMA GoodServerRequest ==
    ASSUME NEW e, NEW o, NEW b, NEW c, NEW B, Mid(e, o, b, c, B), e.role = "server", NEW p, NEW ok,
           NEW f, f = server_channel_request(e, p, ok), f.fault = "none"
    PROVE  Good(e, f, o, b, c, B)
  <1>1. PICK g : g = IF HasChannel(e, p.ch) THEN [e EXCEPT !.channels[p.ch].wants_reply = p.want_reply] ELSE e
    OBVIOUS
  <1>2. Good(e, g, o, b, c, B)
    <2>1. CASE HasChannel(e, p.ch)
      <3>1. g = [e EXCEPT !.channels[p.ch].wants_reply = p.want_reply]
        BY <1>1, <2>1
      <3> QED BY <2>1, <3>1, GoodWants DEF HasChannel
    <2>2. CASE ~HasChannel(e, p.ch)
      BY <1>1, <2>2, GoodNone
    <2> QED BY <2>1, <2>2
  <1>3. Mid(g, o, b, c, B) /\ Kept(e, g)
    BY <1>2 DEF Good
  <1>4. g.role = "server"
    BY <1>3 DEF Kept
  <1>5. CASE p.req \in KnownRequests
    <2>1. PICK ev : ev = [t |-> "Request", req |-> p.req]
      OBVIOUS
    <2>2. PICK h : h = Report(g, p.ch, ev)
      OBVIOUS
    <2>3. Good(g, h, o, b, c, B)
      BY <1>3, <1>4, <2>2, GoodReport
    <2>4. Good(e, h, o, b, c, B)
      BY <1>3, <2>3, GoodThen
    <2>5. CASE ok
      <3>1. f = channel_reply(h, p.ch, "CHANNEL_SUCCESS")
        BY <1>1, <1>5, <2>1, <2>2, <2>5 DEF server_channel_request, channel_success
      <3>2. Good(h, f, o, b, c, B)
        BY <2>3, <3>1, GoodReply DEF Good
      <3> QED BY <2>4, <3>2, GoodThen DEF Good
    <2>6. CASE ~ok
      <3>1. f = h
        BY <1>1, <1>5, <2>1, <2>2, <2>6 DEF server_channel_request
      <3> QED BY <2>4, <3>1
    <2> QED BY <2>5, <2>6
  <1>6. CASE p.req \notin KnownRequests
    <2>1. f = channel_reply(g, p.ch, "CHANNEL_FAILURE")
      BY <1>1, <1>6 DEF server_channel_request, channel_failure
    <2>2. Good(g, f, o, b, c, B)
      BY <1>3, <2>1, GoodReply
    <2> QED BY <1>3, <2>2, GoodThen
  <1> QED BY <1>5, <1>6

\* client_channel_request keeps the agreement.
LEMMA GoodClientRequest ==
    ASSUME NEW e, NEW o, NEW b, NEW c, NEW B, Mid(e, o, b, c, B), NEW p
    PROVE  Good(e, client_channel_request(e, p), o, b, c, B)
  <1>1. PICK ev : ev = [t |-> "Request", req |-> p.req]
    OBVIOUS
  <1>2. EventOK(ev)
    BY <1>1 DEF EventOK
  <1>3. Good(e, Notify(e, p.ch, ev), o, b, c, B)
    BY <1>2, GoodNotify
  <1>4. PICK q : q = [msg |-> "CHANNEL_FAILURE", ch |-> p.ch]
    OBVIOUS
  <1>5. Calm(q) /\ Opening(q) = 0
    BY <1>4 DEF Calm, KexMsgs, Opening
  <1>6. Good(e, push_packet(e, q), o, b, c, B)
    BY <1>5, GoodPush
  <1>7. Good(e, e, o, b, c, B)
    BY GoodNone
  <1> QED BY <1>1, <1>3, <1>4, <1>6, <1>7 DEF client_channel_request

------------------------------------------------------------------------------
(* Windows *)

\* adjust_window_size keeps the agreement: what it grants it sends as credit.
LEMMA GoodAdjust ==
    ASSUME NEW e, NEW o, NEW b, NEW c, NEW B, Mid(e, o, b, c, B),
           NEW p, NEW t, Taken(c, p, t), IsData(p),
           NEW f, f = adjust_window_size(e, p.ch, Len(p.data))
    PROVE  Good(e, f, o, b, t, B) /\ f.fault = e.fault
  <1>1. EndOK(e) /\ Flow(b) /\ Pact(e.role, e.channels, e.last_channel_id, Phase(e), o, b \o Going(e), c, B)
    BY DEF Mid
  <1>2. DOMAIN e = Fields /\ IsSeq(e.write)
    BY <1>1 DEF EndOK, Flow
  <1>3. CASE p.ch \notin DOMAIN e.channels
    <2>1. f = e
      BY <1>3 DEF adjust_window_size, HasChannel
    <2>2. \A k \in DOMAIN e.channels : Size(p, k) = 0 /\ Credit(p, k) = 0
      BY <1>3 DEF Size, Credit, IsData
    <2>3. p.msg \notin KexMsgs /\ p.msg # "CHANNEL_OPEN_CONFIRMATION"
      BY DEF IsData, KexMsgs
    <2>4. Mid(e, o, b, t, B)
      BY <2>2, <2>3, MidDrop
    <2> QED BY <2>1, <2>4, GoodNone
  <1>4. CASE p.ch \in DOMAIN e.channels
    <2>1. PICK m : m = e.channels[p.ch]
      OBVIOUS
    <2>2. PICK left : left = Left(m.sender_window_size, Len(p.data))
      OBVIOUS
    <2>3. ChanOK(m) /\ m.sender_window_size \in Nat /\ Len(p.data) \in Nat
      BY <1>1, <1>4, <2>1, PactNumbers DEF EndOK, ChansOK, Table, Taken, PacketOK
    <2>4. left \in Nat
      BY <2>2, <2>3 DEF Left
    <2>5. PICK n : n = [m EXCEPT !.sender_window_size = left]
      OBVIOUS
    <2>6. PICK g : g = [e EXCEPT !.channels[p.ch] = n]
      OBVIOUS
    <2>7. Changed(e, g, p.ch, n)
      BY <1>1, <1>4, <2>6, ChangeIs
    <2>8. /\ n.recipient_channel = m.recipient_channel /\ n.confirmed = m.confirmed
          /\ n.sender_window_size = left /\ n.recipient_window_size = m.recipient_window_size
          /\ n.recipient_maximum_packet_size = m.recipient_maximum_packet_size
          /\ n.pending_data = m.pending_data /\ DOMAIN n = ChanFields
      BY <2>3, <2>5 DEF ChanOK, ChanFields
    <2>9. ChanOK(n)
      BY <2>3, <2>8 DEF ChanOK
    <2>10. ChansOK(g.channels) /\ e.state = "Authenticated"
      BY <1>1, <1>4, <2>7, <2>9, ChangedOK
    <2>11. Used(e.channels, g.channels, p.ch, Left(e.channels[p.ch].sender_window_size, Len(p.data)))
      BY <1>4, <2>1, <2>2, <2>7, <2>8 DEF Used, Changed
    <2>12. Pact(e.role, g.channels, e.last_channel_id, Phase(e), o, b \o Going(e), t, B)
      BY <1>1, <2>11, PactRead
    <2>13. Only(e, g, {"channels", "events"}) /\ g.events = e.events /\ g.fault = e.fault
      BY <1>2, <2>7 DEF Changed, Only, Fields
    <2>14. e.role = "client" => EventsOK(g.events)
      BY <1>1, <2>13 DEF EndOK
    <2>15. Good(e, g, o, b, t, B)
      BY <2>10, <2>12, <2>13, <2>14, GoodChange
    <2>16. CASE ~(left < WindowSize \div 2)
      <3>1. f = [e EXCEPT !.channels[p.ch].sender_window_size = left]
        BY <1>4, <2>1, <2>2, <2>16 DEF adjust_window_size, HasChannel, Left
      <3>2. f = g
        BY <2>1, <2>5, <2>6, <3>1
      <3> QED BY <2>13, <2>15, <3>2
    <2>17. CASE left < WindowSize \div 2
      <3>1. PICK q : q = Adjust(m.recipient_channel, WindowSize - left)
        OBVIOUS
      <3>2. PICK h : h = [e EXCEPT !.channels[p.ch].sender_window_size = WindowSize]
        OBVIOUS
      <3>3. f = push_packet(h, q)
        BY <1>4, <2>1, <2>2, <2>17, <3>1, <3>2 DEF adjust_window_size, HasChannel, Left, Adjust
      <3>4. PICK n2 : n2 = [m EXCEPT !.sender_window_size = WindowSize]
        OBVIOUS
      <3>5. h = [e EXCEPT !.channels[p.ch] = n2]
        BY <2>1, <3>2, <3>4
      <3>6. Changed(e, h, p.ch, n2)
        BY <1>1, <1>4, <3>5, ChangeIs
      <3>7. /\ n2.recipient_channel = m.recipient_channel /\ n2.confirmed = m.confirmed
            /\ n2.sender_window_size = WindowSize /\ n2.recipient_window_size = m.recipient_window_size
            /\ n2.recipient_maximum_packet_size = m.recipient_maximum_packet_size
            /\ n2.pending_data = m.pending_data /\ DOMAIN n2 = ChanFields
        BY <2>3, <3>4 DEF ChanOK, ChanFields
      <3>8. ChanOK(n2)
        BY <2>3, <3>7 DEF ChanOK
      <3>9. ChansOK(h.channels)
        BY <1>1, <1>4, <3>6, <3>8, ChangedOK
      <3>10. Used(g.channels, h.channels, p.ch, WindowSize)
        BY <1>4, <2>1, <2>7, <2>8, <3>6, <3>7 DEF Used, Changed
      <3>11. g.channels[p.ch].sender_window_size = left /\ g.channels[p.ch].recipient_channel = m.recipient_channel
        BY <2>7, <2>8 DEF Changed
      <3>12. left < WindowSize
        BY <2>4, <2>17, SshConnectionAssumption
      <3>13. PICK x : x = <<q>>
        OBVIOUS
      <3>14. Pact(e.role, h.channels, e.last_channel_id, Phase(e), o, (b \o Going(e)) \o x, t, B)
        BY <2>12, <3>1, <3>10, <3>11, <3>12, <3>13, PactGrant
      <3>15. Flow(x)
        <4>1. WindowSize - left \in Nat
          BY <2>4, <3>12, SshConnectionAssumption
        <4> QED BY <3>1, <3>13, <4>1, AdjustIs
      <3>16. DOMAIN h = Fields /\ h.write = e.write /\ h.events = e.events /\ h.fault = e.fault
             /\ h.last_channel_id = e.last_channel_id
             /\ \A k \in Fields \ {"write", "channels", "last_channel_id", "events"} : h[k] = e[k]
        BY <1>2, <3>6 DEF Changed, Only, Fields
      <3>17. /\ f.write = Append(h.write, q) /\ DOMAIN f = Fields /\ \A k \in Fields \ {"write"} : f[k] = h[k]
        BY <3>3, <3>16 DEF push_packet, Fields
      <3>18. f.write = e.write \o x
        BY <1>2, <3>13, <3>16, <3>17, AppendIs
      <3>19. f.channels = h.channels /\ f.last_channel_id = e.last_channel_id /\ f.events = e.events /\ f.fault = e.fault
        BY <3>16, <3>17 DEF Fields
      <3>20. Only(e, f, {"write", "channels", "last_channel_id", "events"})
        BY <1>2, <3>16, <3>17 DEF Only
      <3>21. e.role = "client" => EventsOK(f.events)
        BY <1>1, <3>19 DEF EndOK
      <3> QED BY <2>10, <3>9, <3>14, <3>15, <3>18, <3>19, <3>20, <3>21, GoodStep
    <2> QED BY <2>16, <2>17
  <1> QED BY <1>3, <1>4

\* The sum of zeros.
LEMMA SumZero ==
    ASSUME NEW n \in Nat, NEW s, s = [i \in 1..n |-> 0]
    PROVE  Sum(s) = 0
  <1>1. s \in Seq(Nat) /\ Len(s) = n
    OBVIOUS
  <1>2. PICK f : f = [k \in 0..n |-> 0]
    OBVIOUS
  <1>3. f[0] = 0 /\ f[n] = 0 /\ \A k \in 1..n : f[k] = f[k - 1] + s[k]
    BY <1>2
  <1> QED BY <1>1, <1>3, SumIs

\* How many packets it takes.
LEMMA Ceiling ==
    ASSUME NEW L \in Nat, NEW m \in Nat \ {0}, NEW N, N = (L + m - 1) \div m
    PROVE  N \in Nat /\ N * m >= L /\ \A k \in 1..N : (k - 1) * m < L /\ (k - 1) * m \in Nat /\ k * m = (k - 1) * m + m
  <1>1. N \in Int /\ L + m - 1 \in Nat
    OBVIOUS
  <1>2. m * N <= L + m - 1 /\ L + m - 1 < m * N + m
    <2>1. PICK a : a = L + m - 1
      OBVIOUS
    <2>2. a \in Nat /\ N = a \div m
      BY <1>1, <2>1
    <2>3. m * (a \div m) <= a /\ a < m * (a \div m) + m
      BY <2>2
    <2> QED BY <2>1, <2>2, <2>3
  <1>3. m * N >= L
    BY <1>1, <1>2
  <1>4. N >= 0
    BY <1>1, <1>2
  <1>5. ASSUME NEW k \in 1..N PROVE (k - 1) * m < L /\ (k - 1) * m \in Nat /\ k * m = (k - 1) * m + m
    <2>1. k * m = (k - 1) * m + m
      BY <1>1
    <2>2. k * m <= N * m
      BY <1>1
    <2>3. (k - 1) * m \in Nat
      BY <1>1
    <2> QED BY <1>1, <1>2, <2>1, <2>2, <2>3
  <1> QED BY <1>1, <1>3, <1>4, <1>5

\* A part of a sequence.
LEMMA PartIs ==
    ASSUME NEW s, IsSeq(s), NEW lo \in Nat, NEW hi \in Nat, lo <= hi, hi <= Len(s)
    PROVE  IsSeq(SubSeq(s, lo + 1, hi)) /\ Len(SubSeq(s, lo + 1, hi)) = hi - lo
  <1>1. PICK S : s \in Seq(S)
    BY DEF IsSeq
  <1>2. SubSeq(s, lo + 1, hi) \in Seq(S) /\ Len(SubSeq(s, lo + 1, hi)) = hi - lo
    BY <1>1
  <1> QED BY <1>2, SeqIs

------------------------------------------------------------------------------
(* Data is cut into packets *)

\* The packets for some data carry all of it, on one channel.
LEMMA PacketsAre ==
    ASSUME NEW n, n.recipient_maximum_packet_size \in Nat \ {0}, NEW ext, NEW d, IsSeq(d),
           NEW x, x = Packets(n, ext, d)
    PROVE  DataOnly(x, n.recipient_channel, Len(d)) /\ NoKex(x) /\ Openings(x) = 0
  <1>1. PICK m : m = n.recipient_maximum_packet_size
    OBVIOUS
  <1>2. PICK L : L = Len(d)
    OBVIOUS
  <1>3. m \in Nat \ {0} /\ L \in Nat
    BY <1>1, <1>2, SeqFacts
  <1>4. PICK N : N = (L + m - 1) \div m
    OBVIOUS
  <1>5. N \in Nat /\ N * m >= L /\ \A k \in 1..N : (k - 1) * m < L /\ (k - 1) * m \in Nat /\ k * m = (k - 1) * m + m
    BY <1>3, <1>4, Ceiling
  <1>6. x = [i \in 1..N |->
            [msg |-> IF ext = 0 THEN "CHANNEL_DATA" ELSE "CHANNEL_EXTENDED_DATA",
             ch |-> n.recipient_channel, ext |-> ext,
             data |-> SubSeq(d, (i - 1) * m + 1, Least(i * m, Len(d)))]]
    BY <1>1, <1>2, <1>4 DEF Packets
  <1>7. DOMAIN x = 1..N /\ \A i \in 1..N : /\ IsData(x[i]) /\ x[i].ch = n.recipient_channel
                                          /\ x[i].data = SubSeq(d, (i - 1) * m + 1, Least(i * m, L))
    BY <1>2, <1>6 DEF IsData
  <1>8. PICK f : f = [k \in 0..N |-> Least(k * m, L)]
    OBVIOUS
  <1>9. ASSUME NEW i \in 1..N
        PROVE  Len(x[i].data) = f[i] - f[i - 1] /\ Len(x[i].data) \in Nat /\ f[i] \in Nat /\ f[i - 1] \in Nat
    <2>1. (i - 1) * m < L /\ (i - 1) * m \in Nat /\ i * m = (i - 1) * m + m
      BY <1>5
    <2>2. PICK lo : lo = (i - 1) * m
      OBVIOUS
    <2>3. PICK hi : hi = Least(i * m, L)
      OBVIOUS
    <2>4. lo \in Nat /\ hi \in Nat /\ lo <= hi /\ hi <= L
      BY <1>3, <2>1, <2>2, <2>3 DEF Least
    <2>5. Len(SubSeq(d, lo + 1, hi)) = hi - lo
      BY <1>2, <2>4, PartIs
    <2>6. f[i] = hi /\ f[i - 1] = Least((i - 1) * m, L)
      BY <1>5, <1>8, <2>3
    <2>7. f[i - 1] = lo
      BY <1>3, <2>1, <2>2, <2>6 DEF Least
    <2> QED BY <1>7, <2>2, <2>3, <2>4, <2>5, <2>6, <2>7
  <1>10. IsSeq(x) /\ Len(x) = N
    <2>1. x = [i \in 1..N |-> x[i]]
      BY <1>6
    <2> QED BY <1>5, <1>7, <2>1, SeqMade
  <1>11. Flow(x)
    BY <1>7, <1>9, <1>10 DEF Flow, PacketOK, IsData
  <1>12. f[0] = 0 /\ f[N] = L
    <2>1. 0 * m = 0
      BY <1>3
    <2>2. f[0] = Least(0, L)
      BY <1>5, <1>8, <2>1
    <2>3. f[N] = Least(N * m, L) /\ N * m \in Int
      BY <1>3, <1>5, <1>8
    <2> QED BY <1>3, <1>5, <2>2, <2>3 DEF Least
  <1>13. DataFor(n.recipient_channel, x) = L
    <2>1. PICK s : s = [i \in DOMAIN x |-> Size(x[i], n.recipient_channel)]
      OBVIOUS
    <2>2. \A i \in 1..N : Size(x[i], n.recipient_channel) = Len(x[i].data)
      BY <1>7 DEF Size, IsData
    <2>3. s = [i \in 1..N |-> Len(x[i].data)]
      BY <1>7, <2>1, <2>2
    <2>4. s \in Seq(Nat) /\ Len(s) = N
      BY <1>5, <1>9, <2>3
    <2>5. ASSUME NEW k \in 1..Len(s) PROVE f[k] = f[k - 1] + s[k]
      <3>1. k \in 1..N
        BY <2>4
      <3>2. s[k] = Len(x[k].data)
        BY <2>3, <3>1
      <3>3. Len(x[k].data) = f[k] - f[k - 1] /\ f[k] \in Nat /\ f[k - 1] \in Nat
        BY <1>9, <3>1
      <3> QED BY <3>2, <3>3
    <2>6. Sum(s) = f[Len(s)]
      BY <1>12, <2>4, <2>5, SumIs
    <2> QED BY <1>12, <2>1, <2>4, <2>6 DEF DataFor
  <1>14. ASSUME NEW k, k # n.recipient_channel PROVE DataFor(k, x) = 0
    <2>1. \A i \in 1..N : Size(x[i], k) = 0
      BY <1>7, <1>14 DEF Size
    <2>2. [i \in DOMAIN x |-> Size(x[i], k)] = [i \in 1..N |-> 0]
      BY <1>7, <2>1
    <2> QED BY <1>5, <2>2, SumZero DEF DataFor
  <1>15. ASSUME NEW k PROVE CreditFor(k, x) = 0
    <2>1. \A i \in 1..N : Credit(x[i], k) = 0
      BY <1>7 DEF Credit, IsData
    <2>2. [i \in DOMAIN x |-> Credit(x[i], k)] = [i \in 1..N |-> 0]
      BY <1>7, <2>1
    <2> QED BY <1>5, <2>2, SumZero DEF CreditFor
  <1>16. Openings(x) = 0
    <2>1. \A i \in 1..N : Opening(x[i]) = 0
      BY <1>7 DEF Opening, IsData
    <2>2. [i \in DOMAIN x |-> Opening(x[i])] = [i \in 1..N |-> 0]
      BY <1>7, <2>1
    <2> QED BY <1>5, <2>2, SumZero DEF Openings
  <1>17. NoKex(x) /\ \A i \in DOMAIN x : ~IsOpen(x[i]) /\ x[i].msg # "CHANNEL_OPEN_CONFIRMATION"
    BY <1>7 DEF NoKex, KexMsgs, IsData, IsOpen
  <1> QED BY <1>2, <1>11, <1>13, <1>14, <1>15, <1>16, <1>17 DEF DataOnly

\* The part that the window admits.
LEMMA FittingIs ==
    ASSUME NEW n, n.recipient_window_size \in Nat, NEW buf, IsSeq(buf), NEW from \in 0..Len(buf),
           NEW d, d = Fitting(n, buf, from)
    PROVE  /\ IsSeq(d) /\ Len(d) \in Nat /\ Len(d) <= n.recipient_window_size
           /\ from + Len(d) \in 0..Len(buf) /\ from \in Nat /\ Len(buf) \in Nat
  <1>1. PICK hi : hi = Least(Len(buf), from + n.recipient_window_size)
    OBVIOUS
  <1>2. Len(buf) \in Nat
    BY SeqFacts
  <1>3. from \in Nat /\ hi \in Nat /\ from <= hi /\ hi <= Len(buf) /\ hi <= from + n.recipient_window_size
    BY <1>1, <1>2 DEF Least
  <1>4. d = SubSeq(buf, from + 1, hi)
    BY <1>1 DEF Fitting
  <1>5. IsSeq(d) /\ Len(d) = hi - from
    BY <1>3, <1>4, PartIs
  <1> QED BY <1>2, <1>3, <1>5

\* What sending n bytes does to the channel.
Sending(m, k, n) ==
    /\ DOMAIN k = ChanFields
    /\ k.recipient_channel = m.recipient_channel /\ k.confirmed = m.confirmed
    /\ k.sender_window_size = m.sender_window_size /\ k.recipient_window_size = m.recipient_window_size - n
    /\ k.recipient_maximum_packet_size = m.recipient_maximum_packet_size
    /\ k.pending_data = m.pending_data

\* Transmit keeps the agreement: the window shrinks by what is sent.
LEMMA GoodTransmit ==
    ASSUME NEW e, NEW o, NEW b, NEW c, NEW B, Mid(e, o, b, c, B), NEW ch \in DOMAIN e.channels,
           e.channels[ch].confirmed, NEW ext, NEW buf, IsSeq(buf), NEW from \in 0..Len(buf),
           NEW f, f = Transmit(e, ch, ext, buf, from), NEW d, d = Fitting(e.channels[ch], buf, from)
    PROVE  /\ Good(e, f, o, b, c, B) /\ f.fault = e.fault
           /\ DOMAIN f.channels = DOMAIN e.channels
           /\ f.channels[ch].pending_data = e.channels[ch].pending_data
           /\ f.channels[ch].confirmed
           /\ Len(d) \in Nat /\ from + Len(d) \in 0..Len(buf)
  <1>1. EndOK(e) /\ Flow(b) /\ Pact(e.role, e.channels, e.last_channel_id, Phase(e), o, b \o Going(e), c, B)
    BY DEF Mid
  <1>2. DOMAIN e = Fields /\ IsSeq(e.write)
    BY <1>1 DEF EndOK, Flow
  <1>3. PICK m : m = e.channels[ch]
    OBVIOUS
  <1>4. ChanOK(m) /\ m.confirmed /\ m.recipient_maximum_packet_size \in Nat \ {0}
    BY <1>1, <1>3 DEF EndOK, ChansOK, ChanOK
  <1>5. m.recipient_window_size \in Nat
    BY <1>1, <1>3, PactNumbers DEF Table
  <1>6. /\ IsSeq(d) /\ Len(d) \in Nat /\ Len(d) <= m.recipient_window_size /\ from + Len(d) \in 0..Len(buf)
    BY <1>3, <1>5, FittingIs
  <1>7. PICK x : x = Packets(m, ext, d)
    OBVIOUS
  <1>8. DataOnly(x, m.recipient_channel, Len(d)) /\ NoKex(x) /\ Openings(x) = 0
    BY <1>4, <1>6, <1>7, PacketsAre
  <1>9. PICK k : k = [m EXCEPT !.recipient_window_size = @ - Len(d)]
    OBVIOUS
  <1>10. Sending(m, k, Len(d))
    BY <1>4, <1>9 DEF Sending, ChanOK, ChanFields
  <1>11. PICK U : U = [e.channels EXCEPT ![ch] = k]
    OBVIOUS
  <1>12. PICK w : w = e.write \o x
    OBVIOUS
  <1>13. f = [e EXCEPT !.write = w, !.channels = U]
    BY <1>2, <1>3, <1>7, <1>9, <1>11, <1>12 DEF Transmit
  <1>14. /\ f.write = w /\ f.channels = U /\ DOMAIN f = Fields
         /\ \A j \in Fields \ {"write", "channels"} : f[j] = e[j]
    BY <1>2, <1>13 DEF Fields
  <1>15. /\ Only(e, f, {"write", "channels", "last_channel_id", "events"})
         /\ f.events = e.events /\ f.last_channel_id = e.last_channel_id /\ f.fault = e.fault
    BY <1>2, <1>14 DEF Only, Fields
  <1>16. DOMAIN U = DOMAIN e.channels /\ U[ch] = k /\ \A j \in DOMAIN e.channels \ {ch} : U[j] = e.channels[j]
    BY <1>11
  <1>17. ChanOK(k)
    BY <1>4, <1>10 DEF ChanOK, Sending
  <1>18. ChansOK(U)
    BY <1>1, <1>16, <1>17 DEF EndOK, ChansOK
  <1>19. e.state = "Authenticated"
    BY <1>1 DEF EndOK
  <1>20. Spent(e.channels, U, ch, Len(d))
    <2>1. SameButWindow(e.channels, U)
      BY <1>3, <1>10, <1>16 DEF SameButWindow, Sending
    <2>2. \A l \in DOMAIN e.channels \ {ch} : U[l].recipient_window_size = e.channels[l].recipient_window_size
      BY <1>16
    <2>3. /\ U[ch].recipient_window_size \in Nat
          /\ U[ch].recipient_window_size + Len(d) = e.channels[ch].recipient_window_size
      <3>1. U[ch].recipient_window_size = m.recipient_window_size - Len(d)
        BY <1>10, <1>16 DEF Sending
      <3> QED BY <1>3, <1>5, <1>6, <3>1
    <2> QED BY <1>6, <2>1, <2>2, <2>3 DEF Spent
  <1>21. Pact(e.role, U, e.last_channel_id, Phase(e), o, (b \o Going(e)) \o x, c, B)
    BY <1>1, <1>3, <1>8, <1>20, PactSend
  <1>22. Flow(x) /\ (e.role = "client" => EventsOK(f.events))
    BY <1>1, <1>8, <1>15 DEF DataOnly, EndOK
  <1>23. Good(e, f, o, b, c, B)
    BY <1>12, <1>14, <1>15, <1>18, <1>19, <1>21, <1>22, GoodStep
  <1>24. f.channels[ch].pending_data = e.channels[ch].pending_data /\ f.channels[ch].confirmed
    BY <1>3, <1>4, <1>10, <1>14, <1>16 DEF Sending
  <1> QED BY <1>6, <1>14, <1>15, <1>16, <1>23, <1>24

Queue(q) == IsSeq(q) /\ \A i \in DOMAIN q : EntryOK(q[i])

\* An assignment to the queue of a channel.
LEMMA GoodPending ==
    ASSUME NEW e, NEW o, NEW b, NEW c, NEW B, Mid(e, o, b, c, B), NEW ch \in DOMAIN e.channels,
           e.channels[ch].confirmed, NEW q, Queue(q), NEW n, n = [e.channels[ch] EXCEPT !.pending_data = q],
           NEW f, f = [e EXCEPT !.channels[ch] = n]
    PROVE  /\ Good(e, f, o, b, c, B) /\ f.fault = e.fault
           /\ DOMAIN f.channels = DOMAIN e.channels
  <1>1. EndOK(e) /\ Flow(b) /\ Pact(e.role, e.channels, e.last_channel_id, Phase(e), o, b \o Going(e), c, B)
    BY DEF Mid
  <1>2. PICK m : m = e.channels[ch]
    OBVIOUS
  <1>3. n = [m EXCEPT !.pending_data = q]
    BY <1>2
  <1>4. Changed(e, f, ch, n)
    BY <1>1, ChangeIs
  <1>6. ChanOK(m) /\ m.confirmed
    BY <1>1, <1>2 DEF EndOK, ChansOK
  <1>7. /\ n.recipient_channel = m.recipient_channel /\ n.confirmed = m.confirmed
        /\ n.sender_window_size = m.sender_window_size /\ n.recipient_window_size = m.recipient_window_size
        /\ n.recipient_maximum_packet_size = m.recipient_maximum_packet_size
        /\ n.pending_data = q /\ DOMAIN n = ChanFields
    BY <1>3, <1>6 DEF ChanOK, ChanFields
  <1>8. ChanOK(n)
    BY <1>6, <1>7 DEF ChanOK, Queue
  <1>9. ChansOK(f.channels) /\ e.state = "Authenticated"
    BY <1>1, <1>4, <1>8, ChangedOK
  <1>10. Same(e.channels, f.channels)
    BY <1>2, <1>4, <1>7 DEF Same, SameButWindow, Changed
  <1>11. Pact(e.role, f.channels, e.last_channel_id, Phase(e), o, b \o Going(e), c, B)
    BY <1>1, <1>10, PactSame
  <1>12. DOMAIN e = Fields
    BY <1>1 DEF EndOK
  <1>13. Only(e, f, {"channels", "events"}) /\ f.events = e.events /\ f.fault = e.fault
    BY <1>4, <1>12 DEF Changed, Only, Fields
  <1>14. e.role = "client" => EventsOK(f.events)
    BY <1>1, <1>13 DEF EndOK
  <1>15. DOMAIN f.channels = DOMAIN e.channels
    BY <1>4 DEF Changed
  <1> QED BY <1>9, <1>11, <1>13, <1>14, <1>15, GoodChange

\* Entries are taken from a queue, changed and added.
LEMMA QueueTail ==
    ASSUME NEW q, Queue(q), q # <<>>
    PROVE  Queue(Tail(q)) /\ EntryOK(Head(q)) /\ Head(q) = q[1] /\ 1 \in DOMAIN q
  <1>1. IsSeq(q) /\ Len(q) \in Nat /\ DOMAIN q = 1..Len(q)
    BY SeqFacts DEF Queue
  <1>2. /\ IsSeq(Tail(q)) /\ Head(q) = q[1] /\ Len(q) >= 1 /\ Len(Tail(q)) = Len(q) - 1
        /\ \A i \in 1..Len(q) - 1 : Tail(q)[i] = q[i + 1]
    BY <1>1, TailIs
  <1>3. 1 \in DOMAIN q
    BY <1>1, <1>2
  <1>4. DOMAIN Tail(q) = 1..Len(q) - 1
    BY <1>2, SeqFacts
  <1>5. ASSUME NEW i \in DOMAIN Tail(q) PROVE EntryOK(Tail(q)[i])
    <2>1. i + 1 \in DOMAIN q /\ Tail(q)[i] = q[i + 1]
      BY <1>1, <1>2, <1>4
    <2> QED BY <2>1 DEF Queue
  <1>6. EntryOK(q[1])
    BY <1>3 DEF Queue
  <1> QED BY <1>2, <1>3, <1>5, <1>6 DEF Queue

\* A part of the first entry is sent.
LEMMA QueueFirst ==
    ASSUME NEW q, Queue(q), q # <<>>, NEW from, from \in 0..Len(q[1].buf),
           NEW r, r = [q EXCEPT ![1].from = from]
    PROVE  Queue(r)
  <1>1. IsSeq(q) /\ Len(q) \in Nat /\ DOMAIN q = 1..Len(q) /\ 1 \in DOMAIN q /\ EntryOK(q[1])
    BY SeqFacts, QueueTail DEF Queue
  <1>2. PICK a : a = q[1]
    OBVIOUS
  <1>3. PICK z : z = [a EXCEPT !.from = from]
    OBVIOUS
  <1>4. DOMAIN a = {"buf", "ext", "from"} /\ IsSeq(a.buf)
    BY <1>1, <1>2 DEF EntryOK
  <1>5. DOMAIN z = {"buf", "ext", "from"} /\ z.buf = a.buf /\ z.from = from
    BY <1>3, <1>4
  <1>6. EntryOK(z)
    BY <1>2, <1>4, <1>5 DEF EntryOK
  <1>7. r = [q EXCEPT ![1] = z]
    BY <1>2, <1>3
  <1>8. DOMAIN r = 1..Len(q) /\ r[1] = z /\ (\A i \in 1..Len(q) : i # 1 => r[i] = q[i]) /\ r = [i \in 1..Len(q) |-> r[i]]
    BY <1>1, <1>7
  <1>9. IsSeq(r)
    BY <1>1, <1>8, SeqMade
  <1> QED BY <1>1, <1>6, <1>8, <1>9 DEF Queue

\* An entry is added.
LEMMA QueueAdd ==
    ASSUME NEW q, Queue(q), NEW a, EntryOK(a)
    PROVE  Queue(Append(q, a))
  <1>1. PICK z : z = <<a>>
    OBVIOUS
  <1>2. IsSeq(z) /\ Len(z) = 1 /\ z[1] = a
    BY <1>1, OneIs
  <1>3. IsSeq(q) /\ IsSeq(z)
    BY <1>2 DEF Queue
  <1>4. /\ Len(q) \in Nat /\ Len(z) \in Nat /\ DOMAIN q = 1..Len(q) /\ DOMAIN z = 1..Len(z)
        /\ Len(q \o z) = Len(q) + Len(z) /\ DOMAIN (q \o z) = 1..Len(q) + Len(z)
        /\ \A i \in 1..Len(q) : (q \o z)[i] = q[i]
        /\ \A i \in 1..Len(z) : (q \o z)[Len(q) + i] = z[i]
    BY <1>3, CatAll
  <1>5. IsSeq(q \o z)
    BY <1>3, CatFacts
  <1>6. ASSUME NEW i \in DOMAIN (q \o z) PROVE EntryOK((q \o z)[i])
    <2>1. CASE i \in DOMAIN q
      BY <1>4, <2>1 DEF Queue
    <2>2. CASE i \notin DOMAIN q
      <3>1. i = Len(q) + 1 /\ 1 \in 1..Len(z)
        BY <1>2, <1>4, <2>2
      <3>2. (q \o z)[i] = a
        BY <1>2, <1>4, <3>1
      <3> QED BY <3>2
    <2> QED BY <2>1, <2>2
  <1>7. Append(q, a) = q \o z
    BY <1>1, <1>3, AppendIs
  <1> QED BY <1>5, <1>6, <1>7 DEF Queue

------------------------------------------------------------------------------
(* Data that waits for the window *)

\* A step that fails not and keeps the channels.
Fine(e, f, o, b, c, B) == Good(e, f, o, b, c, B) /\ f.fault = e.fault /\ DOMAIN f.channels = DOMAIN e.channels

\* One step after the other.
LEMMA FineThen ==
    ASSUME NEW e, NEW f, NEW g, NEW o, NEW b, NEW c, NEW B, Fine(e, f, o, b, c, B), Fine(f, g, o, b, c, B)
    PROVE  Fine(e, g, o, b, c, B)
  BY GoodThen DEF Fine, Good

\* FlushOne keeps the agreement.
LEMMA FineFlushOne ==
    ASSUME NEW e, NEW o, NEW b, NEW c, NEW B, Mid(e, o, b, c, B), NEW ch \in DOMAIN e.channels,
           e.channels[ch].pending_data # <<>>, NEW f, f = FlushOne(e, ch)
    PROVE  Fine(e, f, o, b, c, B)
  <1>1. PICK q : q = e.channels[ch].pending_data
    OBVIOUS
  <1>2. ChanOK(e.channels[ch])
    BY DEF Mid, EndOK, ChansOK
  <1>3. Queue(q) /\ e.channels[ch].confirmed /\ q # <<>>
    BY <1>1, <1>2 DEF ChanOK, Queue
  <1>4. PICK a : a = Head(q)
    OBVIOUS
  <1>5. Queue(Tail(q)) /\ EntryOK(a) /\ a = q[1]
    BY <1>3, <1>4, QueueTail
  <1>6. IsSeq(a.buf) /\ a.from \in 0..Len(a.buf)
    BY <1>5 DEF EntryOK
  <1>7. PICK d : d = Fitting(e.channels[ch], a.buf, a.from)
    OBVIOUS
  <1>8. PICK g : g = Transmit(e, ch, 0, a.buf, a.from)
    OBVIOUS
  <1>9. /\ Good(e, g, o, b, c, B) /\ g.fault = e.fault
        /\ DOMAIN g.channels = DOMAIN e.channels
        /\ g.channels[ch].pending_data = q /\ g.channels[ch].confirmed
        /\ Len(d) \in Nat /\ a.from + Len(d) \in 0..Len(a.buf)
    BY <1>1, <1>3, <1>6, <1>7, <1>8, GoodTransmit
  <1>10. Fine(e, g, o, b, c, B) /\ Mid(g, o, b, c, B)
    BY <1>9 DEF Fine, Good
  <1>11. CASE a.from + Len(d) < Len(a.buf)
    <2>1. PICK r : r = [q EXCEPT ![1].from = a.from + Len(d)]
      OBVIOUS
    <2>2. Queue(r)
      BY <1>3, <1>5, <1>9, <2>1, QueueFirst
    <2>3. f = [g EXCEPT !.channels[ch].pending_data[1].from = @ + Len(d)]
      BY <1>1, <1>4, <1>7, <1>8, <1>11 DEF FlushOne, data_noqueue
    <2>4. PICK m : m = g.channels[ch]
      OBVIOUS
    <2>5. PICK n : n = [m EXCEPT !.pending_data[1].from = @ + Len(d)]
      OBVIOUS
    <2>6. f = [g EXCEPT !.channels[ch] = n]
      BY <2>3, <2>4, <2>5
    <2>6a. m.pending_data = q /\ q[1] = a
      BY <1>5, <1>9, <2>4
    <2>6b. n = [m EXCEPT !.pending_data = r]
      BY <2>1, <2>5, <2>6a
    <2>6c. ch \in DOMAIN g.channels /\ g.channels[ch].confirmed /\ n = [g.channels[ch] EXCEPT !.pending_data = r]
      BY <1>9, <2>4, <2>6b
    <2>6d. Good(g, f, o, b, c, B) /\ f.fault = g.fault /\ DOMAIN f.channels = DOMAIN g.channels
      BY <1>10, <2>2, <2>6, <2>6c, GoodPending
    <2>7. Fine(g, f, o, b, c, B)
      BY <2>6d DEF Fine
    <2> QED BY <1>10, <2>7, FineThen
  <1>12. CASE ~(a.from + Len(d) < Len(a.buf))
    <2>1. PICK r : r = Tail(q)
      OBVIOUS
    <2>2. f = [g EXCEPT !.channels[ch].pending_data = Tail(@)]
      BY <1>1, <1>4, <1>7, <1>8, <1>12 DEF FlushOne, data_noqueue
    <2>3. PICK n : n = [g.channels[ch] EXCEPT !.pending_data = r]
      OBVIOUS
    <2>3a. g.channels[ch].pending_data = q
      BY <1>9
    <2>3b. f = [g EXCEPT !.channels[ch] = n]
      BY <2>1, <2>2, <2>3, <2>3a
    <2>3c. ch \in DOMAIN g.channels /\ g.channels[ch].confirmed /\ Queue(r)
      BY <1>5, <1>9, <2>1
    <2>3d. Good(g, f, o, b, c, B) /\ f.fault = g.fault /\ DOMAIN f.channels = DOMAIN g.channels
      BY <1>10, <2>3, <2>3b, <2>3c, GoodPending
    <2>4. Fine(g, f, o, b, c, B)
      BY <2>3d DEF Fine
    <2> QED BY <1>10, <2>4, FineThen
  <1> QED BY <1>11, <1>12

\* FlushTurn keeps the agreement.
LEMMA FineTurn ==
    ASSUME NEW e, NEW o, NEW b, NEW c, NEW B, Mid(e, o, b, c, B), NEW ch \in DOMAIN e.channels
    PROVE  Fine(e, FlushTurn(e, ch), o, b, c, B)
  <1>1. CASE e.channels[ch].pending_data # <<>>
    BY <1>1, FineFlushOne DEF FlushTurn
  <1>2. CASE e.channels[ch].pending_data = <<>>
    BY <1>2, GoodNone DEF FlushTurn, Fine
  <1> QED BY <1>1, <1>2

\* The turns of flush_pending.
Turns(e, ch, f) ==
    f = [n \in 0..(Len(e.channels[ch].pending_data)) |-> IF n = 0 THEN e ELSE FlushTurn(f[n - 1], ch)]

\* Their recursion is well founded.
LEMMA TurnsExist ==
    ASSUME NEW e, NEW ch, Len(e.channels[ch].pending_data) \in Nat
    PROVE  \E f : Turns(e, ch, f)
  <1> DEFINE First == e
             Then(x, k) == FlushTurn(x, ch)
             Upto(f, n) == f = [k \in 0..n |-> IF k = 0 THEN First ELSE Then(f[k - 1], k)]
             Bad == {n \in Nat : ~\E f : Upto(f, n)}
  <1> HIDE DEF Then, First
  <1>1. Bad = {}
    <2> SUFFICES ASSUME Bad # {} PROVE FALSE
      OBVIOUS
    <2>1. Bad \subseteq Nat
      OBVIOUS
    <2> HIDE DEF Bad
    <2>2. PICK n \in Bad : \A m \in Bad : ~(m < n)
      BY <2>1, LeastNat
    <2>3. n \in Nat /\ ~\E f : Upto(f, n)
      BY <2>2 DEF Bad
    <2>4. CASE n = 0
      <3>1. Upto([k \in 0..0 |-> First], 0)
        OBVIOUS
      <3> QED BY <2>3, <2>4, <3>1
    <2>5. CASE n > 0
      <3>1. n - 1 \in Nat /\ n - 1 < n
        BY <2>3, <2>5
      <3>2. PICK g : Upto(g, n - 1)
        BY <2>2, <3>1 DEF Bad
      <3>3. PICK h : h = [k \in 0..n |-> IF k = n THEN Then(g[n - 1], n) ELSE g[k]]
        OBVIOUS
      <3>4. \A k \in 0..n - 1 : g[k] = IF k = 0 THEN First ELSE Then(g[k - 1], k)
        BY <3>2
      <3>5. ASSUME NEW k \in 0..n PROVE h[k] = IF k = 0 THEN First ELSE Then(h[k - 1], k)
        <4>1. CASE k = 0
          <5>1. k \in 0..n - 1 /\ k # n
            BY <2>3, <2>5, <4>1
          <5> QED BY <3>3, <3>4, <4>1, <5>1
        <4>2. CASE k # 0 /\ k # n
          <5>1. k \in 0..n - 1 /\ k - 1 \in 0..n /\ k - 1 # n
            BY <2>3, <4>2
          <5>2. h[k] = g[k] /\ h[k - 1] = g[k - 1]
            BY <3>3, <4>2, <5>1
          <5> QED BY <3>4, <4>2, <5>1, <5>2
        <4>3. CASE k = n
          <5>1. n - 1 \in 0..n /\ n - 1 # n /\ k # 0 /\ n \in 0..n
            BY <2>3, <2>5, <4>3
          <5>2. h[n] = Then(g[n - 1], n) /\ h[n - 1] = g[n - 1]
            BY <3>3, <5>1
          <5> QED BY <4>3, <5>1, <5>2
        <4> QED BY <4>1, <4>2, <4>3
      <3>6. h = [k \in 0..n |-> h[k]]
        BY <3>3
      <3>7. Upto(h, n)
        BY <3>5, <3>6
      <3> QED BY <2>3, <3>7
    <2>6. n = 0 \/ n > 0
      BY <2>3
    <2> QED BY <2>4, <2>5, <2>6
  <1>2. Len(e.channels[ch].pending_data) \in Nat
    OBVIOUS
  <1>3. \E f : Upto(f, Len(e.channels[ch].pending_data))
    BY <1>1, <1>2
  <1> QED BY <1>3 DEF Turns, First, Then

\* The channels of flush_all_pending.
Rounds(e, f) ==
    f = [n \in 0..(IdSpace) |-> IF n = 0 THEN e ELSE flush_pending(f[n - 1], n - 1)]

\* Their recursion is well founded.
LEMMA RoundsExist ==
    ASSUME NEW e
    PROVE  \E f : Rounds(e, f)
  <1> DEFINE First == e
             Then(x, k) == flush_pending(x, k - 1)
             Upto(f, n) == f = [k \in 0..n |-> IF k = 0 THEN First ELSE Then(f[k - 1], k)]
             Bad == {n \in Nat : ~\E f : Upto(f, n)}
  <1> HIDE DEF Then, First
  <1>1. Bad = {}
    <2> SUFFICES ASSUME Bad # {} PROVE FALSE
      OBVIOUS
    <2>1. Bad \subseteq Nat
      OBVIOUS
    <2> HIDE DEF Bad
    <2>2. PICK n \in Bad : \A m \in Bad : ~(m < n)
      BY <2>1, LeastNat
    <2>3. n \in Nat /\ ~\E f : Upto(f, n)
      BY <2>2 DEF Bad
    <2>4. CASE n = 0
      <3>1. Upto([k \in 0..0 |-> First], 0)
        OBVIOUS
      <3> QED BY <2>3, <2>4, <3>1
    <2>5. CASE n > 0
      <3>1. n - 1 \in Nat /\ n - 1 < n
        BY <2>3, <2>5
      <3>2. PICK g : Upto(g, n - 1)
        BY <2>2, <3>1 DEF Bad
      <3>3. PICK h : h = [k \in 0..n |-> IF k = n THEN Then(g[n - 1], n) ELSE g[k]]
        OBVIOUS
      <3>4. \A k \in 0..n - 1 : g[k] = IF k = 0 THEN First ELSE Then(g[k - 1], k)
        BY <3>2
      <3>5. ASSUME NEW k \in 0..n PROVE h[k] = IF k = 0 THEN First ELSE Then(h[k - 1], k)
        <4>1. CASE k = 0
          <5>1. k \in 0..n - 1 /\ k # n
            BY <2>3, <2>5, <4>1
          <5> QED BY <3>3, <3>4, <4>1, <5>1
        <4>2. CASE k # 0 /\ k # n
          <5>1. k \in 0..n - 1 /\ k - 1 \in 0..n /\ k - 1 # n
            BY <2>3, <4>2
          <5>2. h[k] = g[k] /\ h[k - 1] = g[k - 1]
            BY <3>3, <4>2, <5>1
          <5> QED BY <3>4, <4>2, <5>1, <5>2
        <4>3. CASE k = n
          <5>1. n - 1 \in 0..n /\ n - 1 # n /\ k # 0 /\ n \in 0..n
            BY <2>3, <2>5, <4>3
          <5>2. h[n] = Then(g[n - 1], n) /\ h[n - 1] = g[n - 1]
            BY <3>3, <5>1
          <5> QED BY <4>3, <5>1, <5>2
        <4> QED BY <4>1, <4>2, <4>3
      <3>6. h = [k \in 0..n |-> h[k]]
        BY <3>3
      <3>7. Upto(h, n)
        BY <3>5, <3>6
      <3> QED BY <2>3, <3>7
    <2>6. n = 0 \/ n > 0
      BY <2>3
    <2> QED BY <2>4, <2>5, <2>6
  <1>2. IdSpace \in Nat
    BY SshConnectionAssumption
  <1>3. \E f : Upto(f, IdSpace)
    BY <1>1, <1>2
  <1> QED BY <1>3 DEF Rounds, First, Then

\* flush_pending keeps the agreement.
LEMMA FineFlush ==
    ASSUME NEW e, NEW o, NEW b, NEW c, NEW B, Mid(e, o, b, c, B), NEW ch
    PROVE  Fine(e, flush_pending(e, ch), o, b, c, B)
  <1>0. Fine(e, e, o, b, c, B)
    BY GoodNone DEF Fine
  <1>1. CASE ~HasChannel(e, ch)
    BY <1>0, <1>1 DEF flush_pending
  <1>2. CASE HasChannel(e, ch)
    <2>1. PICK N : N = Len(e.channels[ch].pending_data)
      OBVIOUS
    <2>2. N \in Nat
      <3>1. IsSeq(e.channels[ch].pending_data)
        BY <1>2 DEF Mid, EndOK, ChansOK, ChanOK, HasChannel
      <3> QED BY <2>1, <3>1, SeqFacts
    <2>3. PICK f : f = CHOOSE g : Turns(e, ch, g)
      OBVIOUS
    <2>4. Turns(e, ch, f)
      BY <2>1, <2>2, <2>3, TurnsExist
    <2>5. flush_pending(e, ch) = f[N]
      BY <1>2, <2>1, <2>3 DEF flush_pending, Turns
    <2>6. \A n \in 0..N : f[n] = IF n = 0 THEN e ELSE FlushTurn(f[n - 1], ch)
      BY <2>1, <2>4 DEF Turns
    <2> DEFINE Bad == {n \in 0..N : ~Fine(e, f[n], o, b, c, B)}
    <2>7. ASSUME Bad # {} PROVE FALSE
      <3>1. Bad \subseteq Nat
        BY <2>2
      <3>2. PICK n \in Bad : \A m \in Bad : ~(m < n)
        BY <2>7, <3>1, LeastNat
      <3>3. n \in 0..N /\ ~Fine(e, f[n], o, b, c, B)
        BY <3>2
      <3>4. n # 0
        BY <1>0, <2>2, <2>6, <3>3
      <3>5. n - 1 \in 0..N /\ n - 1 < n
        BY <2>2, <3>3, <3>4
      <3>6. Fine(e, f[n - 1], o, b, c, B)
        BY <3>2, <3>5
      <3>7. Mid(f[n - 1], o, b, c, B) /\ ch \in DOMAIN f[n - 1].channels
        BY <1>2, <3>6 DEF Fine, Good, HasChannel
      <3>8. Fine(f[n - 1], FlushTurn(f[n - 1], ch), o, b, c, B)
        BY <3>7, FineTurn
      <3>9. f[n] = FlushTurn(f[n - 1], ch)
        BY <2>6, <3>3, <3>4
      <3> QED BY <3>3, <3>6, <3>8, <3>9, FineThen
    <2>8. Fine(e, f[N], o, b, c, B)
      BY <2>2, <2>7
    <2> QED BY <2>5, <2>8
  <1> QED BY <1>1, <1>2

\* flush_all_pending keeps the agreement.
LEMMA FineFlushAll ==
    ASSUME NEW e, NEW o, NEW b, NEW c, NEW B, Mid(e, o, b, c, B)
    PROVE  Fine(e, flush_all_pending(e), o, b, c, B)
  <1>0. Fine(e, e, o, b, c, B)
    BY GoodNone DEF Fine
  <1>2. IdSpace \in Nat
    BY SshConnectionAssumption
  <1>3. PICK f : f = CHOOSE g : Rounds(e, g)
    OBVIOUS
  <1>4. Rounds(e, f)
    BY <1>3, RoundsExist
  <1>5. flush_all_pending(e) = f[IdSpace]
    BY <1>3 DEF flush_all_pending, Rounds
  <1>6. \A n \in 0..IdSpace : f[n] = IF n = 0 THEN e ELSE flush_pending(f[n - 1], n - 1)
    BY <1>4 DEF Rounds
  <1> DEFINE Bad == {n \in 0..IdSpace : ~Fine(e, f[n], o, b, c, B)}
  <1>7. ASSUME Bad # {} PROVE FALSE
    <2>1. Bad \subseteq Nat
      BY <1>2
    <2>2. PICK n \in Bad : \A m \in Bad : ~(m < n)
      BY <1>7, <2>1, LeastNat
    <2>3. n \in 0..IdSpace /\ ~Fine(e, f[n], o, b, c, B)
      BY <2>2
    <2>4. n # 0
      BY <1>0, <1>2, <1>6, <2>3
    <2>5. n - 1 \in 0..IdSpace /\ n - 1 < n
      BY <1>2, <2>3, <2>4
    <2>6. Fine(e, f[n - 1], o, b, c, B)
      BY <2>2, <2>5
    <2>7. Mid(f[n - 1], o, b, c, B)
      BY <2>6 DEF Fine, Good
    <2>8. Fine(f[n - 1], flush_pending(f[n - 1], n - 1), o, b, c, B)
      BY <2>7, FineFlush
    <2>9. f[n] = flush_pending(f[n - 1], n - 1)
      BY <1>6, <2>3, <2>4
    <2> QED BY <2>3, <2>6, <2>8, <2>9, FineThen
  <1>8. Fine(e, f[IdSpace], o, b, c, B)
    BY <1>2, <1>7
  <1> QED BY <1>5, <1>8

\* Data is sent, and what does not fit is queued.
LEMMA GoodSendQueue ==
    ASSUME NEW e, NEW o, NEW b, NEW c, NEW B, Mid(e, o, b, c, B), NEW ch \in DOMAIN e.channels,
           e.channels[ch].confirmed, NEW ext, NEW buf, IsSeq(buf),
           NEW g, g = Transmit(e, ch, ext, buf, 0), NEW d, d = Fitting(e.channels[ch], buf, 0),
           NEW f, f = IF Len(d) < Len(buf)
                      THEN [g EXCEPT !.channels[ch].pending_data =
                                Append(@, [buf |-> buf, ext |-> ext, from |-> Len(d)])]
                      ELSE g
    PROVE  Good(e, f, o, b, c, B)
  <1>1. Len(buf) \in Nat
    BY SeqFacts
  <1>2. 0 \in 0..Len(buf)
    BY <1>1
  <1>3. /\ Good(e, g, o, b, c, B) /\ DOMAIN g.channels = DOMAIN e.channels /\ g.channels[ch].confirmed
        /\ Len(d) \in Nat /\ 0 + Len(d) \in 0..Len(buf)
    BY <1>2, GoodTransmit
  <1>4. CASE Len(d) < Len(buf)
    <2>1. PICK a : a = [buf |-> buf, ext |-> ext, from |-> Len(d)]
      OBVIOUS
    <2>2. DOMAIN a = {"buf", "ext", "from"} /\ a.buf = buf /\ a.from = Len(d)
      BY <2>1
    <2>3. Len(d) \in 0..Len(buf)
      BY <1>1, <1>3
    <2>4. EntryOK(a)
      BY <2>2, <2>3 DEF EntryOK
    <2>5. PICK q : q = g.channels[ch].pending_data
      OBVIOUS
    <2>6. Queue(q)
      BY <1>3, <2>5 DEF Good, Mid, EndOK, ChansOK, ChanOK, Queue
    <2>6a. PICK r : r = Append(q, a)
      OBVIOUS
    <2>7. Queue(r)
      BY <2>4, <2>6, <2>6a, QueueAdd
    <2>7a. PICK n : n = [g.channels[ch] EXCEPT !.pending_data = r]
      OBVIOUS
    <2>7b. PICK h : h = [g EXCEPT !.channels[ch] = n]
      OBVIOUS
    <2>8. f = h
      BY <1>4, <2>1, <2>5, <2>6a, <2>7a, <2>7b
    <2>8a. ch \in DOMAIN g.channels /\ g.channels[ch].confirmed /\ Mid(g, o, b, c, B)
      BY <1>3 DEF Good
    <2>8b. Good(g, h, o, b, c, B)
      BY <2>7, <2>7a, <2>7b, <2>8a, GoodPending
    <2>9. Good(g, f, o, b, c, B)
      BY <2>8, <2>8b
    <2> QED BY <1>3, <2>9, GoodThen DEF Good
  <1>5. CASE ~(Len(d) < Len(buf))
    BY <1>3, <1>5
  <1> QED BY <1>4, <1>5

\* Data is queued.
LEMMA GoodQueue ==
    ASSUME NEW e, NEW o, NEW b, NEW c, NEW B, Mid(e, o, b, c, B), NEW ch \in DOMAIN e.channels,
           e.channels[ch].confirmed, NEW ext, NEW buf, IsSeq(buf),
           NEW f, f = [e EXCEPT !.channels[ch].pending_data = Append(@, [buf |-> buf, ext |-> ext, from |-> 0])]
    PROVE  Good(e, f, o, b, c, B)
  <1>1. PICK a : a = [buf |-> buf, ext |-> ext, from |-> 0]
    OBVIOUS
  <1>2. DOMAIN a = {"buf", "ext", "from"} /\ a.buf = buf /\ a.from = 0
    BY <1>1
  <1>3. Len(buf) \in Nat
    BY SeqFacts
  <1>4. 0 \in 0..Len(buf)
    BY <1>3
  <1>5. EntryOK(a)
    BY <1>2, <1>4 DEF EntryOK
  <1>6. PICK q : q = e.channels[ch].pending_data
    OBVIOUS
  <1>7. Queue(q)
    BY <1>6 DEF Mid, EndOK, ChansOK, ChanOK, Queue
  <1>7a. PICK r : r = Append(q, a)
    OBVIOUS
  <1>8. Queue(r)
    BY <1>5, <1>7, <1>7a, QueueAdd
  <1>8a. PICK n : n = [e.channels[ch] EXCEPT !.pending_data = r]
    OBVIOUS
  <1>9. f = [e EXCEPT !.channels[ch] = n]
    BY <1>1, <1>6, <1>7a, <1>8a
  <1> QED BY <1>8, <1>8a, <1>9, GoodPending

\* Encrypted::data keeps the agreement.
LEMMA GoodData ==
    ASSUME NEW e, NEW o, NEW b, NEW c, NEW B, Mid(e, o, b, c, B), NEW ch, NEW buf, IsSeq(buf),
           NEW f, f = data(e, ch, buf), f.fault = "none"
    PROVE  Good(e, f, o, b, c, B)
  <1>1. CASE ~HasChannel(e, ch)
    BY <1>1, GoodNone DEF data
  <1>2. CASE HasChannel(e, ch)
    <2>1. ch \in DOMAIN e.channels /\ DOMAIN e = Fields
      BY <1>2 DEF HasChannel, Mid, EndOK
    <2>2. e.channels[ch].confirmed
      <3>1. ASSUME ~e.channels[ch].confirmed PROVE FALSE
        <4>1. f = Failed(e, "panic")
          BY <1>2, <3>1 DEF data
        <4> QED BY <2>1, <4>1, FailedIs
      <3> QED BY <3>1
    <2>3. CASE e.channels[ch].pending_data # <<>> \/ e.rekey # "None"
      <3>1. f = [e EXCEPT !.channels[ch].pending_data = Append(@, [buf |-> buf, ext |-> 0, from |-> 0])]
        BY <1>2, <2>2, <2>3 DEF data
      <3> QED BY <2>1, <2>2, <3>1, GoodQueue
    <2>4. CASE ~(e.channels[ch].pending_data # <<>> \/ e.rekey # "None")
      <3>1. PICK g : g = Transmit(e, ch, 0, buf, 0)
        OBVIOUS
      <3>2. PICK d : d = Fitting(e.channels[ch], buf, 0)
        OBVIOUS
      <3>3. f = IF Len(d) < Len(buf)
                THEN [g EXCEPT !.channels[ch].pending_data =
                          Append(@, [buf |-> buf, ext |-> 0, from |-> Len(d)])]
                ELSE g
        BY <1>2, <2>2, <2>4, <3>1, <3>2 DEF data, data_noqueue
      <3> QED BY <2>1, <2>2, <3>1, <3>2, <3>3, GoodSendQueue
    <2> QED BY <2>3, <2>4
  <1> QED BY <1>1, <1>2

\* Encrypted::extended_data keeps the agreement.
LEMMA GoodExtendedData ==
    ASSUME NEW e, NEW o, NEW b, NEW c, NEW B, Mid(e, o, b, c, B), NEW ch, NEW ext, NEW buf, IsSeq(buf),
           NEW f, f = extended_data(e, ch, ext, buf), f.fault = "none"
    PROVE  Good(e, f, o, b, c, B)
  <1>1. CASE ~HasChannel(e, ch)
    BY <1>1, GoodNone DEF extended_data
  <1>2. CASE HasChannel(e, ch)
    <2>1. ch \in DOMAIN e.channels /\ DOMAIN e = Fields
      BY <1>2 DEF HasChannel, Mid, EndOK
    <2>2. e.channels[ch].confirmed
      <3>1. ASSUME ~e.channels[ch].confirmed PROVE FALSE
        <4>1. f = Failed(e, "panic")
          BY <1>2, <3>1 DEF extended_data
        <4> QED BY <2>1, <4>1, FailedIs
      <3> QED BY <3>1
    <2>3. CASE e.channels[ch].pending_data # <<>>
      <3>1. f = [e EXCEPT !.channels[ch].pending_data = Append(@, [buf |-> buf, ext |-> ext, from |-> 0])]
        BY <1>2, <2>2, <2>3 DEF extended_data
      <3> QED BY <2>1, <2>2, <3>1, GoodQueue
    <2>4. CASE ~(e.channels[ch].pending_data # <<>>)
      <3>1. PICK g : g = Transmit(e, ch, ext, buf, 0)
        OBVIOUS
      <3>2. PICK d : d = Fitting(e.channels[ch], buf, 0)
        OBVIOUS
      <3>3. f = IF Len(d) < Len(buf)
                THEN [g EXCEPT !.channels[ch].pending_data =
                          Append(@, [buf |-> buf, ext |-> ext, from |-> Len(d)])]
                ELSE g
        BY <1>2, <2>2, <2>4, <3>1, <3>2 DEF extended_data
      <3> QED BY <2>1, <2>2, <3>1, <3>2, <3>3, GoodSendQueue
    <2> QED BY <2>3, <2>4
  <1> QED BY <1>1, <1>2

\* window_adjusted keeps the agreement.
LEMMA GoodAdjusted ==
    ASSUME NEW e, NEW o, NEW b, NEW c, NEW B, Mid(e, o, b, c, B),
           NEW p, NEW t, Taken(c, p, t), p.msg = "CHANNEL_WINDOW_ADJUST",
           NEW f, f = window_adjusted(e, p), f.fault = "none"
    PROVE  Good(e, f, o, b, t, B)
  <1>1. EndOK(e) /\ Flow(b) /\ Pact(e.role, e.channels, e.last_channel_id, Phase(e), o, b \o Going(e), c, B)
    BY DEF Mid
  <1>2. DOMAIN e = Fields
    BY <1>1 DEF EndOK
  <1>3. p.ch \in DOMAIN e.channels
    <2>1. ASSUME p.ch \notin DOMAIN e.channels PROVE FALSE
      <3>1. f = Failed(e, "WrongChannel")
        BY <2>1 DEF window_adjusted, HasChannel
      <3> QED BY <1>2, <3>1, FailedIs
    <2> QED BY <2>1
  <1>4. PICK m : m = e.channels[p.ch]
    OBVIOUS
  <1>5. PICK n : n = [m EXCEPT !.recipient_window_size = @ + p.amount]
    OBVIOUS
  <1>6. PICK g : g = [e EXCEPT !.channels[p.ch].recipient_window_size = @ + p.amount]
    OBVIOUS
  <1>7. Changed(e, g, p.ch, n)
    <2>1. g = [e EXCEPT !.channels[p.ch] = n]
      BY <1>4, <1>5, <1>6
    <2> QED BY <1>1, <1>3, <2>1, ChangeIs
  <1>8. ChanOK(m) /\ p.amount \in Nat
    BY <1>1, <1>3, <1>4 DEF EndOK, ChansOK, Taken, PacketOK
  <1>9. /\ n.recipient_channel = m.recipient_channel /\ n.confirmed = m.confirmed
        /\ n.sender_window_size = m.sender_window_size
        /\ n.recipient_window_size = m.recipient_window_size + p.amount
        /\ n.recipient_maximum_packet_size = m.recipient_maximum_packet_size
        /\ n.pending_data = m.pending_data /\ DOMAIN n = ChanFields
    BY <1>5, <1>8 DEF ChanOK, ChanFields
  <1>10. ChanOK(n)
    BY <1>8, <1>9 DEF ChanOK
  <1>11. ChansOK(g.channels) /\ e.state = "Authenticated"
    BY <1>1, <1>3, <1>7, <1>10, ChangedOK
  <1>12. Earned(e.channels, g.channels, p.ch, p.amount)
    BY <1>3, <1>4, <1>7, <1>8, <1>9 DEF Earned, SameButWindow, Changed
  <1>13. Pact(e.role, g.channels, e.last_channel_id, Phase(e), o, b \o Going(e), t, B)
    BY <1>1, <1>12, PactEarn
  <1>14. Only(e, g, {"channels", "events"}) /\ g.events = e.events
    BY <1>2, <1>7 DEF Changed, Only, Fields
  <1>15. e.role = "client" => EventsOK(g.events)
    BY <1>1, <1>14 DEF EndOK
  <1>16. Good(e, g, o, b, t, B)
    BY <1>11, <1>13, <1>14, <1>15, GoodChange
  <1>17. PICK h : h = flush_pending(g, p.ch)
    OBVIOUS
  <1>18. Fine(g, h, o, b, t, B)
    BY <1>16, <1>17, FineFlush DEF Good
  <1>19. Good(e, h, o, b, t, B)
    BY <1>16, <1>18, GoodThen DEF Good, Fine
  <1>20. CASE e.role = "server"
    <2>1. f = h
      BY <1>3, <1>6, <1>17, <1>20 DEF window_adjusted, HasChannel
    <2> QED BY <1>19, <2>1
  <1>21. CASE e.role # "server"
    <2>1. PICK ev : ev = [t |-> "WindowAdjusted", new_size |-> h.channels[p.ch].recipient_window_size]
      OBVIOUS
    <2>2. f = Report(h, p.ch, ev)
      BY <1>3, <1>6, <1>17, <1>21, <2>1 DEF window_adjusted, HasChannel
    <2>3. h.channels[p.ch].recipient_window_size \in Nat
      <3>1. p.ch \in DOMAIN h.channels
        BY <1>3, <1>7, <1>18 DEF Fine, Changed
      <3>2. Table(h.channels, h.last_channel_id)
        BY <1>19, PactNumbers DEF Good, Mid
      <3> QED BY <3>1, <3>2 DEF Table
    <2>4. EventOK(ev)
      BY <2>1, <2>3 DEF EventOK
    <2>5. Good(h, f, o, b, t, B)
      BY <1>19, <2>2, <2>4, GoodReport DEF Good
    <2> QED BY <1>19, <2>5, GoodThen DEF Good
  <1> QED BY <1>20, <1>21

------------------------------------------------------------------------------
(* Encryption *)

\* The packets of a sequence of sealed ones.
LEMMA SealedIs ==
    ASSUME NEW u, IsSeq(u), NEW x, x = Plain(u)
    PROVE  IsSeq(x) /\ Len(x) = Len(u) /\ Len(u) \in Nat /\ \A i \in 1..Len(u) : x[i] = u[i].p
  <1>1. Len(u) \in Nat /\ DOMAIN u = 1..Len(u)
    BY SeqFacts
  <1>2. x = [i \in 1..Len(u) |-> u[i].p]
    BY <1>1 DEF Plain
  <1>3. DOMAIN x = 1..Len(u) /\ \A i \in 1..Len(u) : x[i] = u[i].p
    BY <1>2
  <1>4. x = [i \in 1..Len(u) |-> x[i]]
    BY <1>2
  <1>5. IsSeq(x) /\ Len(x) = Len(u)
    BY <1>1, <1>3, <1>4, SeqMade
  <1> QED BY <1>1, <1>3, <1>5

\* Those of a concatenation.
LEMMA PlainCat ==
    ASSUME NEW u, IsSeq(u), NEW v, IsSeq(v)
    PROVE  Plain(u \o v) = Plain(u) \o Plain(v)
  <1>1. /\ Len(u) \in Nat /\ Len(v) \in Nat /\ DOMAIN u = 1..Len(u) /\ DOMAIN v = 1..Len(v)
        /\ Len(u \o v) = Len(u) + Len(v) /\ DOMAIN (u \o v) = 1..Len(u) + Len(v)
        /\ \A i \in 1..Len(u) : (u \o v)[i] = u[i]
        /\ \A i \in 1..Len(v) : (u \o v)[Len(u) + i] = v[i]
    BY CatAll
  <1>2. IsSeq(u \o v)
    BY CatFacts
  <1>3. PICK w : w = u \o v
    OBVIOUS
  <1>4. PICK x : x = Plain(u)
    OBVIOUS
  <1>5. PICK y : y = Plain(v)
    OBVIOUS
  <1>6. PICK z : z = Plain(w)
    OBVIOUS
  <1>7. IsSeq(x) /\ Len(x) = Len(u) /\ \A i \in 1..Len(u) : x[i] = u[i].p
    BY <1>4, SealedIs
  <1>8. IsSeq(y) /\ Len(y) = Len(v) /\ \A i \in 1..Len(v) : y[i] = v[i].p
    BY <1>5, SealedIs
  <1>9. IsSeq(z) /\ Len(z) = Len(w) /\ \A i \in 1..Len(w) : z[i] = w[i].p
    BY <1>2, <1>3, <1>6, SealedIs
  <1>10. IsSeq(x) /\ IsSeq(y)
    BY <1>7, <1>8
  <1>11. /\ Len(x) \in Nat /\ Len(y) \in Nat /\ DOMAIN x = 1..Len(x) /\ DOMAIN y = 1..Len(y)
         /\ Len(x \o y) = Len(x) + Len(y) /\ DOMAIN (x \o y) = 1..Len(x) + Len(y)
         /\ \A i \in 1..Len(x) : (x \o y)[i] = x[i]
         /\ \A i \in 1..Len(y) : (x \o y)[Len(x) + i] = y[i]
    BY <1>10, CatAll
  <1>12. PICK N : N = Len(u) + Len(v)
    OBVIOUS
  <1>13. N \in Nat
    BY <1>1, <1>12
  <1>14. ASSUME NEW i \in 1..N PROVE (x \o y)[i] = z[i]
    <2>1. CASE i \in 1..Len(u)
      <3>1. z[i] = u[i].p
        BY <1>1, <1>3, <1>9, <1>12, <2>1
      <3>2. (x \o y)[i] = u[i].p
        BY <1>7, <1>11, <2>1
      <3> QED BY <3>1, <3>2
    <2>2. CASE i \notin 1..Len(u)
      <3>1. PICK j \in 1..Len(v) : i = Len(u) + j
        <4>1. i - Len(u) \in 1..Len(v) /\ i = Len(u) + (i - Len(u))
          BY <1>1, <1>12, <2>2
        <4> QED BY <4>1
      <3>2. w[i] = v[j]
        BY <1>1, <1>3, <3>1
      <3>3. i \in 1..Len(w)
        BY <1>1, <1>3, <1>12
      <3>4. z[i] = v[j].p
        BY <1>9, <3>2, <3>3
      <3>5. (x \o y)[i] = y[j]
        BY <1>7, <1>8, <1>11, <3>1
      <3> QED BY <1>8, <3>1, <3>4, <3>5
    <2> QED BY <2>1, <2>2
  <1>15. PICK r : r = x \o y
    OBVIOUS
  <1>16. IsSeq(r) /\ Len(r) = N /\ Len(z) = N
    BY <1>1, <1>3, <1>7, <1>8, <1>9, <1>10, <1>11, <1>12, <1>15, CatFacts
  <1>17. r = [i \in 1..N |-> r[i]] /\ z = [i \in 1..N |-> z[i]]
    BY <1>9, <1>16, SeqFacts
  <1>18. r = z
    BY <1>14, <1>15, <1>17
  <1> QED BY <1>3, <1>4, <1>5, <1>6, <1>15, <1>18

\* What is not the role, the state, the channels or the events of an end.
Inner == Fields \ {"role", "state", "channels", "last_channel_id", "events"}

\* Other fields do not matter.
LEMMA EndKept ==
    ASSUME NEW e, EndOK(e), NEW f, Only(e, f, Inner), IsSeq(f.out), Flow(Plain(f.out)), Flow(f.write)
    PROVE  /\ EndOK(f) /\ f.role = e.role /\ f.channels = e.channels
           /\ f.last_channel_id = e.last_channel_id /\ f.state = e.state
  <1>1. DOMAIN e = Fields
    BY DEF EndOK
  <1>2. /\ f.role = e.role /\ f.channels = e.channels /\ f.events = e.events
        /\ f.last_channel_id = e.last_channel_id /\ f.state = e.state /\ DOMAIN f = Fields
    BY <1>1 DEF Only, Fields, Inner
  <1> QED BY <1>2 DEF EndOK

\* Encrypted::flush moves what is written behind what is sealed.
LEMMA SealIs ==
    ASSUME NEW e, EndOK(e), NEW f, f = Encrypted_flush(e)
    PROVE  /\ Only(e, f, {"write", "out"}) /\ f.write = <<>> /\ Going(f) = Going(e)
           /\ IsSeq(f.out) /\ Flow(Plain(f.out)) /\ Flow(f.write)
  <1>1. DOMAIN e = Fields /\ IsSeq(e.out) /\ Flow(Plain(e.out)) /\ Flow(e.write)
    BY DEF EndOK
  <1>2. PICK w : w = e.write
    OBVIOUS
  <1>3. PICK v : v = [i \in DOMAIN w |-> [p |-> w[i], keys |-> e.cipher, z |-> e.compress]]
    OBVIOUS
  <1>4. /\ f.write = <<>> /\ f.out = e.out \o v
        /\ DOMAIN f = DOMAIN e /\ \A k \in DOMAIN e \ {"write", "out"} : f[k] = e[k]
    BY <1>1, <1>2, <1>3 DEF Encrypted_flush, Fields
  <1>5. IsSeq(w) /\ Flow(w)
    BY <1>1, <1>2 DEF Flow
  <1>6. Len(w) \in Nat /\ DOMAIN w = 1..Len(w) /\ w = [i \in 1..Len(w) |-> w[i]]
    BY <1>5, SeqFacts
  <1>7. DOMAIN v = 1..Len(w) /\ v = [i \in 1..Len(w) |-> v[i]] /\ \A i \in 1..Len(w) : v[i].p = w[i]
    BY <1>3, <1>6
  <1>8. IsSeq(v) /\ Len(v) = Len(w)
    BY <1>6, <1>7, SeqMade
  <1>9. Plain(v) = w
    <2>1. PICK x : x = Plain(v)
      OBVIOUS
    <2>2. x = [i \in 1..Len(w) |-> v[i].p]
      BY <1>7, <2>1 DEF Plain
    <2>3. x = [i \in 1..Len(w) |-> w[i]]
      BY <1>7, <2>2
    <2> QED BY <1>6, <2>1, <2>3
  <1>10. Plain(f.out) = Plain(e.out) \o w
    BY <1>1, <1>4, <1>8, <1>9, PlainCat
  <1>11. Flow(Plain(f.out))
    BY <1>1, <1>5, <1>10, FlowCat
  <1>12. IsSeq(Plain(f.out)) /\ IsSeq(f.out)
    BY <1>1, <1>4, <1>8, <1>11, CatFacts DEF Flow
  <1>13. Going(f) = Plain(f.out)
    BY <1>4, <1>12, CatNone DEF Going
  <1>14. Going(e) = Plain(e.out) \o w
    BY <1>2 DEF Going
  <1> QED BY <1>4, <1>10, <1>11, <1>12, <1>13, <1>14, FlowNone DEF Only

\* A message that is sealed at once.
LEMMA WriteIs ==
    ASSUME NEW e, EndOK(e), e.write = <<>>, NEW m, Flow(<<[msg |-> m]>>), NEW f, f = cipher_write(e, m)
    PROVE  /\ Only(e, f, {"out"}) /\ f.write = <<>> /\ Going(f) = Going(e) \o <<[msg |-> m]>>
           /\ IsSeq(f.out) /\ Flow(Plain(f.out)) /\ Flow(f.write)
  <1>1. DOMAIN e = Fields /\ IsSeq(e.out) /\ Flow(Plain(e.out))
    BY DEF EndOK
  <1>2. PICK y : y = [p |-> [msg |-> m], keys |-> e.cipher, z |-> FALSE]
    OBVIOUS
  <1>3. PICK a : a = [msg |-> m]
    OBVIOUS
  <1>4. PICK v : v = <<y>>
    OBVIOUS
  <1>5. /\ f.out = Append(e.out, y)
        /\ DOMAIN f = DOMAIN e /\ \A k \in DOMAIN e \ {"out"} : f[k] = e[k]
    BY <1>1, <1>2 DEF cipher_write, Fields
  <1>6. f.out = e.out \o v
    BY <1>1, <1>4, <1>5, AppendIs
  <1>7. IsSeq(v) /\ Len(v) = 1 /\ v[1] = y
    BY <1>4, OneIs
  <1>8. y.p = a
    BY <1>2, <1>3
  <1>9. Plain(v) = <<a>>
    <2>1. PICK x : x = Plain(v)
      OBVIOUS
    <2>2. IsSeq(x) /\ Len(x) = 1 /\ \A i \in 1..1 : x[i] = v[i].p
      BY <1>7, <2>1, SealedIs
    <2>3. x = [i \in 1..1 |-> x[i]]
      BY <2>2, SeqFacts
    <2>4. x[1] = a
      BY <1>7, <1>8, <2>2
    <2>5. PICK t : t = <<a>>
      OBVIOUS
    <2>6. IsSeq(t) /\ Len(t) = 1 /\ t[1] = a
      BY <2>5, OneIs
    <2>7. t = [i \in 1..1 |-> t[i]]
      BY <2>6, SeqFacts
    <2>8. \A i \in 1..1 : x[i] = t[i]
      BY <2>4, <2>6
    <2>9. x = t
      BY <2>3, <2>7, <2>8
    <2> QED BY <2>1, <2>5, <2>9
  <1>10. Plain(f.out) = Plain(e.out) \o <<a>>
    BY <1>1, <1>6, <1>7, <1>9, PlainCat
  <1>11. Flow(Plain(f.out))
    BY <1>1, <1>3, <1>10, FlowCat
  <1>12. IsSeq(Plain(f.out)) /\ IsSeq(f.out) /\ IsSeq(Plain(e.out))
    BY <1>1, <1>6, <1>7, <1>11, CatFacts DEF Flow
  <1>13. f.write = <<>>
    BY <1>1, <1>5 DEF Fields
  <1>14. Going(f) = Plain(f.out) /\ Going(e) = Plain(e.out)
    BY <1>12, <1>13, CatNone DEF Going
  <1> QED BY <1>3, <1>5, <1>10, <1>11, <1>12, <1>13, <1>14, FlowNone DEF Only

\* What flush and the handlers that flush leave alone: they may start a key
\* re-exchange.
Begun(e, f) == e.kex = "None" /\ e.rekey = "None" /\ e.exchange /\ f.rekey = "Init" /\ ~f.exchange
Turned(e, f) ==
    /\ f.role = e.role /\ f.kex = e.kex
    /\ f.pending_reads = e.pending_reads /\ f.disconnected = e.disconnected
    /\ (f.state = "None") = (e.state = "None")
    /\ (f.rekey = e.rekey /\ f.exchange = e.exchange) \/ Begun(e, f)

\* Nothing is started without the material for it.
LEMMA TurnedThen ==
    ASSUME NEW e, NEW f, NEW g, Kept(e, f), Turned(f, g)
    PROVE  Turned(e, g)
  BY DEF Kept, Turned, Begun

\* Steps that keep the fields do so one after the other.
LEMMA ThenKept ==
    ASSUME NEW e, NEW f, NEW g, Turned(e, f), Kept(f, g)
    PROVE  Turned(e, g)
  BY DEF Kept, Turned, Begun

\* Encrypted::flush seals what has been written.
LEMMA GoodSeal ==
    ASSUME NEW e, NEW o, NEW b, NEW c, NEW B, Mid(e, o, b, c, B), NEW f, f = Encrypted_flush(e)
    PROVE  /\ Good(e, f, o, b, c, B) /\ f.write = <<>> /\ f.fault = e.fault /\ f.channels = e.channels
           /\ f.state = e.state
  <1>1. EndOK(e) /\ Flow(b) /\ Pact(e.role, e.channels, e.last_channel_id, Phase(e), o, b \o Going(e), c, B)
    BY DEF Mid
  <1>2. /\ Only(e, f, {"write", "out"}) /\ f.write = <<>> /\ Going(f) = Going(e)
        /\ IsSeq(f.out) /\ Flow(Plain(f.out)) /\ Flow(f.write)
    BY <1>1, SealIs
  <1>3. Only(e, f, Inner)
    BY <1>2 DEF Only, Inner, Fields
  <1>4. /\ EndOK(f) /\ f.role = e.role /\ f.channels = e.channels
        /\ f.last_channel_id = e.last_channel_id /\ f.state = e.state
    BY <1>1, <1>2, <1>3, EndKept
  <1>5. /\ f.kex = e.kex /\ f.rekey = e.rekey /\ f.exchange = e.exchange /\ f.fault = e.fault
        /\ f.pending_reads = e.pending_reads /\ f.disconnected = e.disconnected
    BY <1>1, <1>2 DEF Only, Fields, EndOK
  <1>6. Phase(f) = Phase(e)
    BY <1>5 DEF Phase
  <1>7. Mid(f, o, b, c, B)
    BY <1>1, <1>2, <1>4, <1>6 DEF Mid
  <1> QED BY <1>2, <1>4, <1>5, <1>7 DEF Good, Kept

\* g is e after x was sealed at once.
Wrote(e, g, x) == /\ Only(e, g, {"out"}) /\ g.write = <<>> /\ Going(g) = Going(e) \o x
                  /\ IsSeq(g.out) /\ Flow(Plain(g.out)) /\ Flow(g.write)

\* A message of the key exchange.
LEMMA WroteKex ==
    ASSUME NEW e, EndOK(e), e.write = <<>>, NEW m \in KexMsgs, NEW x, x = <<[msg |-> m]>>
    PROVE  Wrote(e, cipher_write(e, m), x) /\ Idle(x) /\ Openings(x) = 0 /\ OneKex(x, m)
  <1>1. Idle(x) /\ Openings(x) = 0 /\ OneKex(x, m)
    BY KexOne
  <1>2. Flow(<<[msg |-> m]>>)
    BY <1>1 DEF Idle
  <1> QED BY <1>1, <1>2, WriteIs DEF Wrote

\* It is an end.
LEMMA WroteEnd ==
    ASSUME NEW e, EndOK(e), NEW g, NEW x, Wrote(e, g, x)
    PROVE  EndOK(g) /\ g.write = <<>>
  <1>1. Only(e, g, Inner)
    BY DEF Only, Inner, Fields, Wrote
  <1> QED BY <1>1, EndKept DEF Wrote

\* One message after the other.
LEMMA WroteThen ==
    ASSUME NEW e, EndOK(e), NEW g, NEW h, NEW x, NEW y, Wrote(e, g, x), Wrote(g, h, y), Flow(x), Flow(y)
    PROVE  Wrote(e, h, x \o y)
  <1>1. Only(e, h, {"out"})
    BY OnlyThen DEF Wrote
  <1>2. PICK z : z = Going(e)
    OBVIOUS
  <1>3. Flow(Plain(e.out)) /\ Flow(e.write)
    BY DEF EndOK
  <1>4. IsSeq(z) /\ IsSeq(x) /\ IsSeq(y)
    BY <1>2, <1>3, CatFacts DEF Going, Flow
  <1>5. (z \o x) \o y = z \o (x \o y)
    BY <1>4, CatAssoc
  <1>6. Going(h) = z \o (x \o y)
    BY <1>2, <1>5 DEF Wrote
  <1> QED BY <1>1, <1>2, <1>6 DEF Wrote

\* Other fields may change with it.
LEMMA WroteMore ==
    ASSUME NEW e, NEW b, EndOK(e), Flow(b), NEW y, Flow(y), NEW g, Wrote(e, g, y),
           NEW f, Only(g, f, Inner), f.out = g.out, f.write = g.write
    PROVE  /\ EndOK(f) /\ f.write = <<>> /\ f.state = e.state /\ f.role = e.role
           /\ f.channels = e.channels /\ f.last_channel_id = e.last_channel_id
           /\ b \o Going(f) = (b \o Going(e)) \o y
  <1>1. /\ Only(e, g, {"out"}) /\ g.write = <<>> /\ Going(g) = Going(e) \o y
        /\ IsSeq(g.out) /\ Flow(Plain(g.out)) /\ Flow(g.write)
    BY DEF Wrote
  <1>2. Only(e, g, Inner)
    BY <1>1 DEF Only, Inner, Fields
  <1>3. Only(e, f, Inner)
    BY <1>2, OnlyThen
  <1>4. /\ EndOK(f) /\ f.role = e.role /\ f.channels = e.channels
        /\ f.last_channel_id = e.last_channel_id /\ f.state = e.state
    BY <1>1, <1>3, EndKept
  <1>6. PICK x : x = Going(e)
    OBVIOUS
  <1>7. Flow(Plain(e.out)) /\ Flow(e.write) /\ Flow(y)
    BY DEF EndOK
  <1>8. IsSeq(b) /\ IsSeq(x) /\ IsSeq(y)
    BY <1>6, <1>7, CatFacts DEF Going, Flow
  <1>9. (b \o x) \o y = b \o (x \o y)
    BY <1>8, CatAssoc
  <1>10. Going(f) = x \o y
    BY <1>1, <1>6 DEF Going
  <1> QED BY <1>1, <1>4, <1>6, <1>9, <1>10

------------------------------------------------------------------------------
(* Session::flush and authentication *)

\* Between the key exchanges.
Ready(e) == e.state # "None" => e.kex = "None"

\* A key re-exchange starts.
LEMMA BeginIs ==
    ASSUME NEW e, NEW o, NEW b, NEW c, NEW B, Mid(e, o, b, c, B), e.kex = "None", e.write = <<>>,
           NEW f, f = initiate_rekey(e)
    PROVE  /\ Mid(f, o, b, c, B) /\ Turned(e, f) /\ f.write = <<>> /\ f.fault = e.fault
           /\ f.channels = e.channels /\ f.state = e.state
  <1>1. CASE ~(e.rekey = "None" /\ e.exchange)
    <2>1. f = e
      BY <1>1 DEF initiate_rekey
    <2> QED BY <2>1 DEF Turned
  <1>2. CASE e.rekey = "None" /\ e.exchange
    <2>1. PICK g : g = cipher_write(e, "KEXINIT")
      OBVIOUS
    <2>2. f = [g EXCEPT !.rekey = "Init", !.exchange = FALSE]
      BY <1>2, <2>1 DEF initiate_rekey
    <2>3. EndOK(e) /\ Flow(b) /\ Pact(e.role, e.channels, e.last_channel_id, Phase(e), o, b \o Going(e), c, B)
      BY DEF Mid
    <2>4. PICK x : x = <<[msg |-> "KEXINIT"]>>
      OBVIOUS
    <2>5. Wrote(e, g, x) /\ Idle(x) /\ Openings(x) = 0 /\ OneKex(x, "KEXINIT") /\ Flow(x)
      BY <2>1, <2>3, <2>4, WroteKex DEF KexMsgs, Idle
    <2>6. Phase(e) = "None"
      BY <1>2 DEF Phase
    <2>7. Pact(e.role, e.channels, e.last_channel_id, "Init", o, (b \o Going(e)) \o x, c, B)
      BY <2>3, <2>5, <2>6, PactStart
    <2>9. Only(e, g, {"out"})
      BY <2>5 DEF Wrote
    <2>10. DOMAIN g = Fields /\ DOMAIN e = Fields
      BY <2>3, <2>9 DEF Only, EndOK
    <2>11. /\ Only(g, f, Inner) /\ f.out = g.out /\ f.write = g.write /\ f.rekey = "Init" /\ ~f.exchange
           /\ f.kex = g.kex /\ f.fault = g.fault /\ f.pending_reads = g.pending_reads
           /\ f.disconnected = g.disconnected /\ f.channels = g.channels
      BY <2>2, <2>10 DEF Only, Inner, Fields
    <2>12. /\ g.kex = e.kex /\ g.fault = e.fault /\ g.pending_reads = e.pending_reads
           /\ g.disconnected = e.disconnected /\ g.channels = e.channels
      BY <2>9, <2>10 DEF Only, Fields
    <2>13. Phase(f) = "Init"
      BY <2>11, <2>12 DEF Phase
    <2>14. Pact(e.role, e.channels, e.last_channel_id, Phase(f), o, (b \o Going(e)) \o x, c, B)
      BY <2>7, <2>13
    <2>15m. /\ EndOK(f) /\ f.write = <<>> /\ f.state = e.state /\ f.role = e.role
          /\ f.channels = e.channels /\ f.last_channel_id = e.last_channel_id
          /\ b \o Going(f) = (b \o Going(e)) \o x
      <3>1. /\ EndOK(e) /\ Flow(b) /\ Flow(x) /\ Wrote(e, g, x)
            /\ Only(g, f, Inner) /\ f.out = g.out /\ f.write = g.write
        BY <2>3, <2>5, <2>11
      <3> QED BY <3>1, WroteMore
    <2>15. Mid(f, o, b, c, B) /\ f.write = <<>> /\ f.state = e.state /\ f.role = e.role
      BY <2>3, <2>14, <2>15m DEF Mid
    <2> QED BY <1>2, <2>11, <2>12, <2>15 DEF Turned, Begun
  <1> QED BY <1>1, <1>2

\* Session::flush keeps the agreement.
LEMMA GoodFlush ==
    ASSUME NEW e, NEW o, NEW b, NEW c, NEW B, Mid(e, o, b, c, B), Ready(e), NEW due, NEW f, f = flush(e, due)
    PROVE  /\ Mid(f, o, b, c, B) /\ Turned(e, f) /\ f.fault = e.fault
           /\ f.channels = e.channels /\ f.state = e.state
           /\ e.state # "None" => f.write = <<>>
           /\ e.state = "None" => f = e
  <1>1. CASE e.state = "None"
    BY <1>1 DEF flush, Turned
  <1>2. CASE e.state # "None"
    <2>1. PICK g : g = Encrypted_flush(e)
      OBVIOUS
    <2>2. /\ Good(e, g, o, b, c, B) /\ g.write = <<>> /\ g.fault = e.fault /\ g.channels = e.channels
          /\ g.state = e.state
      BY <2>1, GoodSeal
    <2>3. Kept(e, g) /\ Mid(g, o, b, c, B) /\ g.kex = "None"
      BY <1>2, <2>2 DEF Good, Kept, Ready
    <2>4. CASE due
      <3>1. f = initiate_rekey(g)
        BY <1>2, <2>1, <2>4 DEF flush
      <3>2. /\ Mid(f, o, b, c, B) /\ Turned(g, f) /\ f.write = <<>> /\ f.fault = g.fault
            /\ f.channels = g.channels /\ f.state = g.state
        BY <2>2, <2>3, <3>1, BeginIs
      <3>3. Turned(e, f)
        BY <2>3, <3>2, TurnedThen
      <3> QED BY <1>2, <2>2, <3>2, <3>3
    <2>5. CASE ~due
      <3>1. f = g
        BY <1>2, <2>1, <2>5 DEF flush
      <3>2. Turned(e, f)
        BY <2>3, <3>1 DEF Kept, Turned
      <3> QED BY <1>2, <2>2, <2>3, <3>1, <3>2
    <2> QED BY <2>4, <2>5
  <1> QED BY <1>1, <1>2

\* Fields that only authentication looks at.
AuthFields == {"service_sent", "service_accepted", "auth_method", "methods", "sent_pk_ok",
               "compress", "decompress", "state"}

\* A step of authentication.
LEMMA GoodAuth ==
    ASSUME NEW e, NEW o, NEW b, NEW c, NEW B, Mid(e, o, b, c, B), NEW f, Only(e, f, AuthFields),
           f.state \in States \ {"None"}, e.state # "None", e.state = "Authenticated" => f.state = "Authenticated"
    PROVE  Good(e, f, o, b, c, B) /\ f.fault = e.fault /\ f.channels = e.channels
  <1>1. EndOK(e) /\ Flow(b) /\ Pact(e.role, e.channels, e.last_channel_id, Phase(e), o, b \o Going(e), c, B)
    BY DEF Mid
  <1>2. DOMAIN e = Fields
    BY <1>1 DEF EndOK
  <1>3. /\ f.role = e.role /\ f.kex = e.kex /\ f.rekey = e.rekey /\ f.exchange = e.exchange
        /\ f.pending_reads = e.pending_reads /\ f.disconnected = e.disconnected
        /\ f.channels = e.channels /\ f.last_channel_id = e.last_channel_id /\ f.events = e.events
        /\ f.out = e.out /\ f.write = e.write /\ DOMAIN f = Fields /\ f.fault = e.fault
    BY <1>2 DEF Only, Fields, AuthFields
  <1>4. EndOK(f)
    BY <1>1, <1>3 DEF EndOK
  <1>5. Phase(f) = Phase(e) /\ Going(f) = Going(e)
    BY <1>3 DEF Phase, Going
  <1>6. Kept(e, f)
    BY <1>3 DEF Kept
  <1> QED BY <1>1, <1>3, <1>4, <1>5, <1>6 DEF Good, Mid

\* A message of authentication is written, and then the state changes.
LEMMA GoodPushAuth ==
    ASSUME NEW e, NEW o, NEW b, NEW c, NEW B, Mid(e, o, b, c, B),
           NEW p, Calm(p), Opening(p) = 0, NEW f, Only(push_packet(e, p), f, AuthFields),
           f.state \in States \ {"None"}, e.state # "None", e.state = "Authenticated" => f.state = "Authenticated"
    PROVE  Good(e, f, o, b, c, B) /\ f.fault = e.fault /\ f.channels = e.channels
  <1>1. PICK g : g = push_packet(e, p)
    OBVIOUS
  <1>2. Good(e, g, o, b, c, B)
    BY <1>1, GoodPush
  <1>3. EndOK(e) /\ DOMAIN e = Fields
    BY DEF Mid, EndOK
  <1>4. Only(e, g, {"write"}) /\ g.fault = e.fault /\ g.channels = e.channels
    BY <1>1, <1>3, PushIs
  <1>5. g.state = e.state
    BY <1>3, <1>4 DEF Only, Fields
  <1>6. Good(g, f, o, b, c, B) /\ f.fault = g.fault /\ f.channels = g.channels
    BY <1>1, <1>2, <1>5, GoodAuth DEF Good
  <1> QED BY <1>2, <1>4, <1>6, GoodThen DEF Good

------------------------------------------------------------------------------
(* The steps of authentication *)

\* Without channels nothing depends on a packet.
LEMMA MidSkip ==
    ASSUME NEW e, NEW o, NEW b, NEW c, NEW B, Mid(e, o, b, c, B), e.state # "Authenticated",
           NEW p, NEW t, Taken(c, p, t), p.msg \notin KexMsgs,
           e.role = "client" => p.msg # "CHANNEL_OPEN_CONFIRMATION"
    PROVE  Mid(e, o, b, t, B)
  <1>1. DOMAIN e.channels = {}
    BY DEF Mid, EndOK
  <1> QED BY <1>1, MidDrop

\* The messages of authentication.
LEMMA AuthCalm ==
    ASSUME NEW p, p.msg \in {"USERAUTH_REQUEST", "USERAUTH_FAILURE", "USERAUTH_SUCCESS", "USERAUTH_PK_OK",
                             "USERAUTH_BANNER", "SERVICE_ACCEPT", "SERVICE_REQUEST", "DISCONNECT"}
    PROVE  Calm(p) /\ Opening(p) = 0
  BY DEF Calm, Opening, KexMsgs

\* SERVICE_REQUEST is sealed at once.
LEMMA GoodService ==
    ASSUME NEW e, NEW o, NEW b, NEW c, NEW B, Mid(e, o, b, c, B), e.write = <<>>,
           NEW f, f = [cipher_write(e, "SERVICE_REQUEST") EXCEPT !.service_sent = TRUE]
    PROVE  Good(e, f, o, b, c, B) /\ f.fault = e.fault /\ f.state = e.state /\ f.write = <<>>
  <1>1. EndOK(e) /\ Flow(b) /\ Pact(e.role, e.channels, e.last_channel_id, Phase(e), o, b \o Going(e), c, B)
    BY DEF Mid
  <1>2. PICK m : m = "SERVICE_REQUEST"
    OBVIOUS
  <1>3. PICK p : p = [msg |-> m]
    OBVIOUS
  <1>4. PICK x : x = <<p>>
    OBVIOUS
  <1>5. p.msg = "SERVICE_REQUEST"
    BY <1>2, <1>3
  <1>6. Calm(p) /\ Opening(p) = 0
    BY <1>5, AuthCalm
  <1>7. Idle(x) /\ NoKex(x) /\ Openings(x) = 0 /\ Flow(x)
    BY <1>4, <1>6, CalmIs DEF Idle
  <1>8. PICK g : g = cipher_write(e, m)
    OBVIOUS
  <1>9. Flow(<<[msg |-> m]>>) /\ x = <<[msg |-> m]>>
    BY <1>3, <1>4, <1>7
  <1>10. Wrote(e, g, x)
    BY <1>1, <1>8, <1>9, WriteIs DEF Wrote
  <1>11. PICK h : h = [g EXCEPT !.service_sent = TRUE]
    OBVIOUS
  <1>12. DOMAIN g = Fields /\ DOMAIN e = Fields /\ Only(e, g, {"out"})
    BY <1>1, <1>10 DEF Wrote, Only, EndOK
  <1>13. /\ Only(g, h, Inner) /\ h.out = g.out /\ h.write = g.write
         /\ h.kex = g.kex /\ h.rekey = g.rekey /\ h.exchange = g.exchange /\ h.fault = g.fault
         /\ h.pending_reads = g.pending_reads /\ h.disconnected = g.disconnected
    BY <1>11, <1>12 DEF Only, Inner, Fields
  <1>14. /\ g.kex = e.kex /\ g.rekey = e.rekey /\ g.exchange = e.exchange /\ g.fault = e.fault
         /\ g.pending_reads = e.pending_reads /\ g.disconnected = e.disconnected
    BY <1>12 DEF Only, Fields
  <1>15. Phase(h) = Phase(e)
    BY <1>13, <1>14 DEF Phase
  <1>16. Pact(e.role, e.channels, e.last_channel_id, Phase(h), o, (b \o Going(e)) \o x, c, B)
    BY <1>1, <1>7, <1>15, PactAdd
  <1>17m. /\ EndOK(h) /\ h.write = <<>> /\ h.state = e.state /\ h.role = e.role
        /\ h.channels = e.channels /\ h.last_channel_id = e.last_channel_id
        /\ b \o Going(h) = (b \o Going(e)) \o x
    BY <1>1, <1>7, <1>10, <1>13, WroteMore
  <1>17. Mid(h, o, b, c, B) /\ h.write = <<>> /\ h.state = e.state /\ h.role = e.role
    BY <1>1, <1>16, <1>17m DEF Mid
  <1>18. Good(e, h, o, b, c, B) /\ h.fault = e.fault /\ h.state = e.state /\ h.write = <<>>
    BY <1>13, <1>14, <1>17 DEF Good, Kept
  <1>19. f = h
    BY <1>2, <1>8, <1>11
  <1> QED BY <1>18, <1>19

\* write_auth_request_if_needed keeps the agreement.
LEMMA GoodAuthRequest ==
    ASSUME NEW e, NEW o, NEW b, NEW c, NEW B, Mid(e, o, b, c, B), e.write = <<>>, e.state # "None",
           NEW m, NEW f, f = write_auth_request_if_needed(e, m)
    PROVE  Good(e, f, o, b, c, B)
  <1>1. PICK g : g = IF e.state = "WaitingServiceRequest" /\ ~e.service_sent
                     THEN [cipher_write(e, "SERVICE_REQUEST") EXCEPT !.service_sent = TRUE] ELSE e
    OBVIOUS
  <1>2. Good(e, g, o, b, c, B) /\ g.state = e.state
    <2>1. CASE e.state = "WaitingServiceRequest" /\ ~e.service_sent
      <3>1. g = [cipher_write(e, "SERVICE_REQUEST") EXCEPT !.service_sent = TRUE]
        BY <1>1, <2>1
      <3> QED BY <3>1, GoodService
    <2>2. CASE ~(e.state = "WaitingServiceRequest" /\ ~e.service_sent)
      BY <1>1, <2>2, GoodNone
    <2> QED BY <2>1, <2>2
  <1>3. PICK p : p = AuthRequest(m, FALSE)
    OBVIOUS
  <1>4. Calm(p) /\ Opening(p) = 0
    <2>1. p.msg = "USERAUTH_REQUEST"
      BY <1>3 DEF AuthRequest
    <2> QED BY <2>1, AuthCalm
  <1>5. PICK h : h = IF e.state = "WaitingAuthRequest" \/ (e.service_accepted /\ e.state = "WaitingServiceRequest")
                     THEN push_packet(g, p) ELSE g
    OBVIOUS
  <1>6. Good(g, h, o, b, c, B) /\ h.state = g.state
    <2>1. Mid(g, o, b, c, B) /\ EndOK(g) /\ DOMAIN g = Fields
      BY <1>2 DEF Good, Mid, EndOK
    <2>2. Good(g, push_packet(g, p), o, b, c, B) /\ Good(g, g, o, b, c, B)
      BY <1>4, <2>1, GoodPush, GoodNone
    <2>3. push_packet(g, p).state = g.state
      BY <2>1 DEF push_packet, Fields
    <2> QED BY <1>5, <2>2, <2>3
  <1>7. f = [h EXCEPT !.auth_method = m]
    BY <1>1, <1>3, <1>5 DEF write_auth_request_if_needed
  <1>8. DOMAIN h = Fields /\ Mid(h, o, b, c, B) /\ h.state \in States \ {"None"}
    BY <1>2, <1>6 DEF Good, Mid, EndOK
  <1>9. Only(h, f, AuthFields) /\ f.state = h.state
    BY <1>7, <1>8 DEF Only, AuthFields, Fields
  <1>10. Good(h, f, o, b, c, B)
    BY <1>8, <1>9, GoodAuth
  <1>11. Good(e, h, o, b, c, B)
    BY <1>2, <1>6, GoodThen DEF Good
  <1> QED BY <1>10, <1>11, GoodThen DEF Good

\* The packets that authentication understands.
LEMMA AuthTaken ==
    ASSUME NEW e, NEW o, NEW b, NEW c, NEW B, Mid(e, o, b, c, B), e.state # "Authenticated",
           NEW p, NEW t, Taken(c, p, t),
           p.msg \in {"USERAUTH_REQUEST", "USERAUTH_FAILURE", "USERAUTH_SUCCESS", "USERAUTH_PK_OK",
                      "USERAUTH_BANNER", "SERVICE_ACCEPT", "SERVICE_REQUEST"}
    PROVE  Mid(e, o, b, t, B)
  <1>1. p.msg \notin KexMsgs /\ p.msg # "CHANNEL_OPEN_CONFIRMATION"
    BY DEF KexMsgs
  <1> QED BY <1>1, MidSkip

\* The client's side of authentication.
LEMMA GoodClientAuth ==
    ASSUME NEW e, NEW o, NEW b, NEW c, NEW B, Mid(e, o, b, c, B), e.state # "Authenticated", e.state # "None",
           NEW p, NEW t, Taken(c, p, t), NEW f, f = client_auth(e, p), f.fault = "none"
    PROVE  Good(e, f, o, b, t, B)
  <1>1. DOMAIN e = Fields /\ e.state \in States /\ EndOK(e)
    BY DEF Mid, EndOK
  <1>2. CASE e.state = "WaitingServiceRequest"
    <2>1. p.msg = "SERVICE_ACCEPT"
      <3>1. ASSUME p.msg # "SERVICE_ACCEPT" PROVE FALSE
        <4>1. f = Failed(e, "Inconsistent")
          BY <1>2, <3>1 DEF client_auth
        <4> QED BY <1>1, <4>1, FailedIs
      <3> QED BY <3>1
    <2>2. Mid(e, o, b, t, B)
      BY <2>1, AuthTaken
    <2>3. PICK g : g = [e EXCEPT !.service_accepted = TRUE]
      OBVIOUS
    <2>4. Only(e, g, AuthFields) /\ g.state = e.state /\ DOMAIN g = Fields
      BY <1>1, <2>3 DEF Only, AuthFields, Fields
    <2>5. Good(e, g, o, b, t, B)
      BY <1>1, <2>2, <2>4, GoodAuth
    <2>6. CASE e.auth_method = "none"
      <3>1. f = g
        BY <1>2, <2>1, <2>3, <2>6 DEF client_auth
      <3> QED BY <2>5, <3>1
    <2>7. CASE e.auth_method # "none"
      <3>1. PICK q : q = AuthRequest(e.auth_method, FALSE)
        OBVIOUS
      <3>2. f = [push_packet(g, q) EXCEPT !.state = "WaitingAuthRequest"]
        BY <1>2, <2>1, <2>3, <2>7, <3>1 DEF client_auth
      <3>3. q.msg = "USERAUTH_REQUEST"
        BY <3>1 DEF AuthRequest
      <3>4. Calm(q) /\ Opening(q) = 0
        BY <3>3, AuthCalm
      <3>5. DOMAIN push_packet(g, q) = Fields
        BY <2>4 DEF push_packet
      <3>6. Only(push_packet(g, q), f, AuthFields) /\ f.state = "WaitingAuthRequest"
        BY <3>2, <3>5 DEF Only, AuthFields, Fields
      <3>7. Good(g, f, o, b, t, B)
        BY <1>2, <2>4, <2>5, <3>4, <3>6, GoodPushAuth DEF Good, States
      <3> QED BY <2>5, <3>7, GoodThen DEF Good
    <2> QED BY <2>6, <2>7
  <1>3. CASE e.state = "WaitingAuthRequest"
    <2>1. CASE p.msg = "USERAUTH_SUCCESS"
      <3>1. Mid(e, o, b, t, B)
        BY <2>1, AuthTaken
      <3>2. PICK g : g = [e EXCEPT !.state = "InitCompression", !.decompress = e.zlib]
        OBVIOUS
      <3>3. Only(e, g, AuthFields) /\ g.state = "InitCompression"
        BY <1>1, <3>2 DEF Only, AuthFields, Fields
      <3>4. Good(e, g, o, b, t, B)
        BY <1>3, <3>1, <3>3, GoodAuth DEF States
      <3>5. PICK ev : ev = [t |-> "AuthSuccess"]
        OBVIOUS
      <3>6. EventOK(ev)
        BY <3>5 DEF EventOK
      <3>7. f = Report(g, 0, ev)
        BY <1>3, <2>1, <3>2, <3>5 DEF client_auth
      <3>8. Good(g, f, o, b, t, B)
        BY <3>4, <3>6, <3>7, GoodReport DEF Good
      <3> QED BY <3>4, <3>8, GoodThen DEF Good
    <2>2. CASE p.msg = "USERAUTH_BANNER"
      <3>1. Mid(e, o, b, t, B)
        BY <2>2, AuthTaken
      <3>2. f = e
        BY <1>3, <2>2 DEF client_auth
      <3> QED BY <3>1, <3>2, GoodNone
    <2>3. CASE p.msg = "USERAUTH_FAILURE"
      <3>1. Mid(e, o, b, t, B)
        BY <2>3, AuthTaken
      <3>2. PICK g : g = [e EXCEPT !.auth_method = "none"]
        OBVIOUS
      <3>3. Only(e, g, AuthFields) /\ g.state = e.state
        BY <1>1, <3>2 DEF Only, AuthFields, Fields
      <3>4. Good(e, g, o, b, t, B)
        BY <1>1, <1>3, <3>1, <3>3, GoodAuth DEF States
      <3>5. PICK ev : ev = [t |-> "AuthFailure"]
        OBVIOUS
      <3>6. EventOK(ev)
        BY <3>5 DEF EventOK
      <3>7. PICK h : h = Report(g, 0, ev)
        OBVIOUS
      <3>8. Good(g, h, o, b, t, B)
        BY <3>4, <3>6, <3>7, GoodReport DEF Good
      <3>9. f = IF p.methods = {} THEN Failed(h, "NoAuthMethod") ELSE h
        BY <1>3, <2>3, <3>2, <3>5, <3>7 DEF client_auth
      <3>10. f = h
        <4>1. DOMAIN h = Fields
          BY <3>8 DEF Good, Mid, EndOK
        <4>2. ASSUME f = Failed(h, "NoAuthMethod") PROVE FALSE
          BY <4>1, <4>2, FailedIs
        <4> QED BY <3>9, <4>2
      <3> QED BY <3>4, <3>8, <3>10, GoodThen DEF Good
    <2>4. CASE p.msg = "USERAUTH_PK_OK"
      <3>1. Mid(e, o, b, t, B)
        BY <2>4, AuthTaken
      <3>2. CASE e.auth_method = "publickey"
        <4>1. PICK q : q = AuthRequest("publickey", TRUE)
          OBVIOUS
        <4>2. f = [push_packet(e, q) EXCEPT !.auth_method = "none"]
          BY <1>3, <2>4, <3>2, <4>1 DEF client_auth
        <4>3. q.msg = "USERAUTH_REQUEST"
          BY <4>1 DEF AuthRequest
        <4>4. Calm(q) /\ Opening(q) = 0
          BY <4>3, AuthCalm
        <4>5. DOMAIN push_packet(e, q) = Fields /\ push_packet(e, q).state = e.state
          BY <1>1 DEF push_packet, Fields
        <4>6. Only(push_packet(e, q), f, AuthFields) /\ f.state = e.state
          BY <4>2, <4>5 DEF Only, AuthFields, Fields
        <4> QED BY <1>1, <1>3, <3>1, <4>4, <4>6, GoodPushAuth DEF States
      <3>3. CASE e.auth_method # "publickey"
        <4>1. f = [e EXCEPT !.auth_method = "none"]
          BY <1>3, <2>4, <3>3 DEF client_auth
        <4>2. Only(e, f, AuthFields) /\ f.state = e.state
          BY <1>1, <4>1 DEF Only, AuthFields, Fields
        <4> QED BY <1>1, <1>3, <3>1, <4>2, GoodAuth DEF States
      <3> QED BY <3>2, <3>3
    <2>5. CASE p.msg \notin {"USERAUTH_SUCCESS", "USERAUTH_BANNER", "USERAUTH_FAILURE", "USERAUTH_PK_OK"}
      <3>1. f = Failed(e, "Inconsistent")
        BY <1>3, <2>5 DEF client_auth
      <3> QED BY <1>1, <3>1, FailedIs
    <2> QED BY <2>1, <2>2, <2>3, <2>4, <2>5
  <1>4. CASE e.state = "InitCompression"
    <2>1. f = Failed(e, "panic")
      BY <1>4 DEF client_auth
    <2> QED BY <1>1, <2>1, FailedIs
  <1> QED BY <1>1, <1>2, <1>3, <1>4 DEF States

\* reject_auth_request keeps the agreement.
LEMMA GoodReject ==
    ASSUME NEW e, NEW o, NEW b, NEW c, NEW B, Mid(e, o, b, c, B), e.state # "None"
    PROVE  Good(e, reject_auth_request(e), o, b, c, B)
  <1>1. DOMAIN e = Fields /\ e.state \in States
    BY DEF Mid, EndOK
  <1>2. PICK q : q = [msg |-> "USERAUTH_FAILURE", methods |-> e.methods]
    OBVIOUS
  <1>3. q.msg = "USERAUTH_FAILURE"
    BY <1>2
  <1>4. Calm(q) /\ Opening(q) = 0
    BY <1>3, AuthCalm
  <1>5. PICK f : f = [push_packet(e, q) EXCEPT !.sent_pk_ok = FALSE]
    OBVIOUS
  <1>6. DOMAIN push_packet(e, q) = Fields /\ push_packet(e, q).state = e.state
    BY <1>1 DEF push_packet, Fields
  <1>7. Only(push_packet(e, q), f, AuthFields) /\ f.state = e.state
    BY <1>5, <1>6 DEF Only, AuthFields, Fields
  <1>8. Good(e, f, o, b, c, B)
    BY <1>1, <1>4, <1>7, GoodPushAuth
  <1> QED BY <1>2, <1>5, <1>8 DEF reject_auth_request

\* auth_success keeps the agreement.
LEMMA GoodSuccess ==
    ASSUME NEW e, NEW o, NEW b, NEW c, NEW B, Mid(e, o, b, c, B), e.state # "None", e.state # "Authenticated"
    PROVE  Good(e, auth_success(e), o, b, c, B)
  <1>1. DOMAIN e = Fields /\ e.state \in States
    BY DEF Mid, EndOK
  <1>2. PICK q : q = [msg |-> "USERAUTH_SUCCESS"]
    OBVIOUS
  <1>3. q.msg = "USERAUTH_SUCCESS"
    BY <1>2
  <1>4. Calm(q) /\ Opening(q) = 0
    BY <1>3, AuthCalm
  <1>5. PICK f : f = [push_packet(e, q) EXCEPT !.state = "InitCompression", !.decompress = e.zlib]
    OBVIOUS
  <1>6. DOMAIN push_packet(e, q) = Fields
    BY <1>1 DEF push_packet, Fields
  <1>7. Only(push_packet(e, q), f, AuthFields) /\ f.state = "InitCompression"
    BY <1>5, <1>6 DEF Only, AuthFields, Fields
  <1>8. Good(e, f, o, b, c, B)
    BY <1>1, <1>4, <1>7, GoodPushAuth DEF States
  <1> QED BY <1>2, <1>5, <1>8 DEF auth_success

\* server_accept_service keeps the agreement.
LEMMA GoodAcceptService ==
    ASSUME NEW e, NEW o, NEW b, NEW c, NEW B, Mid(e, o, b, c, B), e.state # "None", e.state # "Authenticated"
    PROVE  Good(e, server_accept_service(e), o, b, c, B)
  <1>1. DOMAIN e = Fields /\ e.state \in States
    BY DEF Mid, EndOK
  <1>2. PICK q : q = [msg |-> "SERVICE_ACCEPT"]
    OBVIOUS
  <1>3. PICK r : r = [msg |-> "USERAUTH_BANNER"]
    OBVIOUS
  <1>4. q.msg = "SERVICE_ACCEPT" /\ r.msg = "USERAUTH_BANNER"
    BY <1>2, <1>3
  <1>5. Calm(q) /\ Opening(q) = 0 /\ Calm(r) /\ Opening(r) = 0
    BY <1>4, AuthCalm
  <1>6. PICK g : g = push_packet(e, q)
    OBVIOUS
  <1>7. Good(e, g, o, b, c, B)
    BY <1>5, <1>6, GoodPush
  <1>8. g.state = e.state /\ DOMAIN g = Fields
    BY <1>1, <1>6 DEF push_packet, Fields
  <1>9. PICK f : f = [push_packet(g, r) EXCEPT !.state = "WaitingAuthRequest"]
    OBVIOUS
  <1>10. DOMAIN push_packet(g, r) = Fields
    BY <1>8 DEF push_packet, Fields
  <1>11. Only(push_packet(g, r), f, AuthFields) /\ f.state = "WaitingAuthRequest"
    BY <1>9, <1>10 DEF Only, AuthFields, Fields
  <1>12. Good(g, f, o, b, c, B)
    BY <1>5, <1>7, <1>8, <1>11, GoodPushAuth DEF Good, States
  <1>13. Good(e, f, o, b, c, B)
    BY <1>7, <1>12, GoodThen DEF Good
  <1> QED BY <1>2, <1>3, <1>6, <1>9, <1>13 DEF server_accept_service

\* server_read_auth_request keeps the agreement.
LEMMA GoodReadAuth ==
    ASSUME NEW e, NEW o, NEW b, NEW c, NEW B, Mid(e, o, b, c, B), e.state # "None", e.state # "Authenticated",
           NEW p, NEW accepted
    PROVE  Good(e, server_read_auth_request(e, p, accepted), o, b, c, B)
  <1>1. DOMAIN e = Fields /\ e.state \in States
    BY DEF Mid, EndOK
  <1>2. Good(e, auth_success(e), o, b, c, B) /\ Good(e, reject_auth_request(e), o, b, c, B)
    BY GoodSuccess, GoodReject
  <1>3. Good(e, reject_auth_request([e EXCEPT !.methods = @ \ {"password"}]), o, b, c, B)
    <2>1. PICK g : g = [e EXCEPT !.methods = @ \ {"password"}]
      OBVIOUS
    <2>2. Only(e, g, AuthFields) /\ g.state = e.state
      BY <1>1, <2>1 DEF Only, AuthFields, Fields
    <2>3. Good(e, g, o, b, c, B)
      BY <1>1, <2>2, GoodAuth
    <2>4. Good(g, reject_auth_request(g), o, b, c, B)
      BY <2>2, <2>3, GoodReject DEF Good
    <2>5. Good(e, reject_auth_request(g), o, b, c, B)
      BY <2>3, <2>4, GoodThen DEF Good
    <2> QED BY <2>1, <2>5
  <1>4. Good(e, [push_packet(e, [msg |-> "USERAUTH_PK_OK"]) EXCEPT !.sent_pk_ok = TRUE], o, b, c, B)
    <2>1. PICK q : q = [msg |-> "USERAUTH_PK_OK"]
      OBVIOUS
    <2>2. q.msg = "USERAUTH_PK_OK"
      BY <2>1
    <2>3. Calm(q) /\ Opening(q) = 0
      BY <2>2, AuthCalm
    <2>4. PICK f : f = [push_packet(e, q) EXCEPT !.sent_pk_ok = TRUE]
      OBVIOUS
    <2>5. DOMAIN push_packet(e, q) = Fields /\ push_packet(e, q).state = e.state
      BY <1>1 DEF push_packet, Fields
    <2>6. Only(push_packet(e, q), f, AuthFields) /\ f.state = e.state
      BY <2>4, <2>5 DEF Only, AuthFields, Fields
    <2>7. Good(e, f, o, b, c, B)
      BY <1>1, <2>3, <2>6, GoodPushAuth
    <2> QED BY <2>1, <2>4, <2>7
  <1>5. CASE p.method = "password"
    BY <1>2, <1>3, <1>5 DEF server_read_auth_request
  <1>6. CASE p.method = "publickey" /\ ~p.real
    BY <1>2, <1>4, <1>6 DEF server_read_auth_request
  <1>7. CASE p.method = "publickey" /\ p.real
    BY <1>2, <1>7 DEF server_read_auth_request
  <1>8. CASE p.method \notin {"password", "publickey"}
    BY <1>2, <1>8 DEF server_read_auth_request
  <1> QED BY <1>5, <1>6, <1>7, <1>8

------------------------------------------------------------------------------
(* process_packet *)

\* A packet without data or credit.
LEMMA MidLight ==
    ASSUME NEW e, NEW o, NEW b, NEW c, NEW B, Mid(e, o, b, c, B), NEW p, NEW t, Taken(c, p, t),
           p.msg \notin KexMsgs \cup {"CHANNEL_DATA", "CHANNEL_EXTENDED_DATA", "CHANNEL_WINDOW_ADJUST",
                                      "CHANNEL_OPEN_CONFIRMATION"}
    PROVE  Mid(e, o, b, t, B)
  <1>1. \A k \in DOMAIN e.channels : Size(p, k) = 0 /\ Credit(p, k) = 0
    BY DEF Size, Credit
  <1> QED BY <1>1, MidDrop

\* client_read_authenticated keeps the agreement.
LEMMA GoodClientRead ==
    ASSUME NEW e, NEW o, NEW b, NEW c, NEW B, Mid(e, o, b, c, B), e.role = "client",
           NEW p, NEW t, Taken(c, p, t), p.msg \notin KexMsgs,
           NEW f, f = client_read_authenticated(e, p), f.fault = "none"
    PROVE  Good(e, f, o, b, t, B)
  <1>1. CASE p.msg = "CHANNEL_OPEN_CONFIRMATION"
    <2>1. f = channel_open_confirmation(e, p)
      BY <1>1 DEF client_read_authenticated
    <2> QED BY <1>1, <2>1, GoodConfirm
  <1>2. CASE p.msg \in {"CHANNEL_DATA", "CHANNEL_EXTENDED_DATA"}
    <2>1. PICK g : g = adjust_window_size(e, p.ch, Len(p.data))
      OBVIOUS
    <2>2. PICK ev : ev = DataEvent(p)
      OBVIOUS
    <2>3. f = Notify(g, p.ch, ev)
      BY <1>2, <2>1, <2>2 DEF client_read_authenticated
    <2>4. EventOK(ev)
      BY <2>2 DEF EventOK, DataEvent
    <2>5. Good(e, g, o, b, t, B)
      BY <1>2, <2>1, GoodAdjust DEF IsData
    <2>6. Good(g, f, o, b, t, B)
      BY <2>3, <2>4, <2>5, GoodNotify DEF Good
    <2> QED BY <2>5, <2>6, GoodThen DEF Good
  <1>3. CASE p.msg = "CHANNEL_WINDOW_ADJUST"
    <2>1. f = window_adjusted(e, p)
      BY <1>3 DEF client_read_authenticated
    <2> QED BY <1>3, <2>1, GoodAdjusted
  <1>4. CASE p.msg \notin {"CHANNEL_DATA", "CHANNEL_EXTENDED_DATA", "CHANNEL_WINDOW_ADJUST",
                           "CHANNEL_OPEN_CONFIRMATION"}
    <2>1. Mid(e, o, b, t, B)
      BY <1>4, MidLight
    <2>2. CASE p.msg \in {"CHANNEL_CLOSE", "CHANNEL_OPEN_FAILURE"}
      <3>1. f = close_channel(e, p.ch)
        BY <2>2 DEF client_read_authenticated
      <3> QED BY <2>1, <3>1, GoodClose
    <2>3. CASE p.msg = "CHANNEL_EOF"
      <3>1. PICK ev : ev = [t |-> "Eof"]
        OBVIOUS
      <3>2. f = Notify(e, p.ch, ev)
        BY <2>3, <3>1 DEF client_read_authenticated
      <3>3. EventOK(ev)
        BY <3>1 DEF EventOK
      <3> QED BY <2>1, <3>2, <3>3, GoodNotify
    <2>4. CASE p.msg = "CHANNEL_SUCCESS"
      <3>1. PICK ev : ev = [t |-> "Success"]
        OBVIOUS
      <3>2. f = Notify(e, p.ch, ev)
        BY <2>4, <3>1 DEF client_read_authenticated
      <3>3. EventOK(ev)
        BY <3>1 DEF EventOK
      <3> QED BY <2>1, <3>2, <3>3, GoodNotify
    <2>5. CASE p.msg = "CHANNEL_REQUEST"
      <3>1. f = client_channel_request(e, p)
        BY <2>5 DEF client_read_authenticated
      <3> QED BY <2>1, <3>1, GoodClientRequest
    <2>6. CASE p.msg = "GLOBAL_REQUEST"
      <3>1. PICK q : q = [msg |-> "REQUEST_FAILURE"]
        OBVIOUS
      <3>2. f = push_packet(e, q)
        BY <2>6, <3>1 DEF client_read_authenticated, client_global_request
      <3>3. q.msg = "REQUEST_FAILURE"
        BY <3>1
      <3>4. Calm(q) /\ Opening(q) = 0
        BY <3>3 DEF Calm, Opening, KexMsgs
      <3> QED BY <2>1, <3>2, <3>4, GoodPush
    <2>7. CASE p.msg \notin {"CHANNEL_CLOSE", "CHANNEL_OPEN_FAILURE", "CHANNEL_EOF", "CHANNEL_SUCCESS",
                             "CHANNEL_REQUEST", "GLOBAL_REQUEST"}
      <3>1. f = e
        BY <1>4, <2>7 DEF client_read_authenticated
      <3> QED BY <2>1, <3>1, GoodNone
    <2> QED BY <2>2, <2>3, <2>4, <2>5, <2>6, <2>7
  <1> QED BY <1>1, <1>2, <1>3, <1>4

\* server_global_request keeps the agreement.
LEMMA GoodGlobal ==
    ASSUME NEW e, NEW o, NEW b, NEW c, NEW B, Mid(e, o, b, c, B), e.role = "server", e.state = "Authenticated",
           NEW p, NEW t, Taken(c, p, t), p.msg = "GLOBAL_REQUEST", NEW ok,
           NEW f, f = server_global_request(e, p, ok)
    PROVE  Good(e, f, o, b, t, B)
  <1>1. PICK q : q = [msg |-> IF p.req \in {"tcpip-forward", "cancel-tcpip-forward"} /\ ok
                              THEN "REQUEST_SUCCESS" ELSE "REQUEST_FAILURE"]
    OBVIOUS
  <1>2. q.msg \in {"REQUEST_SUCCESS", "REQUEST_FAILURE"}
    BY <1>1
  <1>3. Calm(q) /\ Opening(q) = 0
    BY <1>2 DEF Calm, Opening, KexMsgs
  <1>4. CASE p.req = "tcpip-forward" /\ ok
    <2>1. PICK g : g = channel_open(e, "forwarded-tcpip")
      OBVIOUS
    <2>2. f = push_packet(g, q)
      BY <1>1, <1>4, <2>1 DEF server_global_request, channel_open_forwarded_tcpip
    <2>3. Opening(p) = 1
      BY <1>4 DEF Opening
    <2>4. Good(e, g, o, b, t, B)
      BY <2>1, <2>3, GoodForward
    <2>5. Good(g, f, o, b, t, B)
      BY <1>3, <2>2, <2>4, GoodPush DEF Good
    <2> QED BY <2>4, <2>5, GoodThen DEF Good
  <1>5. CASE ~(p.req = "tcpip-forward" /\ ok)
    <2>1. f = push_packet(e, q)
      BY <1>1, <1>5 DEF server_global_request
    <2>2. Mid(e, o, b, t, B)
      BY MidLight DEF KexMsgs
    <2> QED BY <1>3, <2>1, <2>2, GoodPush
  <1> QED BY <1>4, <1>5

\* What is good is also a turn.
LEMMA GoodTurns ==
    ASSUME NEW e, NEW f, NEW o, NEW b, NEW c, NEW B, Good(e, f, o, b, c, B)
    PROVE  Mid(f, o, b, c, B) /\ Turned(e, f)
  BY DEF Good, Kept, Turned

\* server_read_authenticated keeps the agreement.
LEMMA TurnServerRead ==
    ASSUME NEW e, NEW o, NEW b, NEW c, NEW B, Mid(e, o, b, c, B), e.role = "server", e.state = "Authenticated",
           e.kex = "None", NEW p, NEW t, Taken(c, p, t), p.msg \notin KexMsgs, NEW ok, NEW due,
           NEW f, f = server_read_authenticated(e, p, ok, due), f.fault = "none"
    PROVE  Mid(f, o, b, t, B) /\ Turned(e, f)
  <1>1. CASE p.msg = "CHANNEL_OPEN"
    <2>1. f = server_handle_channel_open(e, p)
      BY <1>1 DEF server_read_authenticated
    <2> QED BY <1>1, <2>1, GoodAccept, GoodTurns
  <1>2. CASE p.msg \in {"CHANNEL_DATA", "CHANNEL_EXTENDED_DATA"}
    <2>1. PICK g : g = adjust_window_size(e, p.ch, Len(p.data))
      OBVIOUS
    <2>2. PICK ev : ev = DataEvent(p)
      OBVIOUS
    <2>3. PICK h : h = flush(g, due)
      OBVIOUS
    <2>4. f = Report(h, p.ch, ev)
      BY <1>2, <2>1, <2>2, <2>3 DEF server_read_authenticated
    <2>5. Good(e, g, o, b, t, B)
      BY <1>2, <2>1, GoodAdjust DEF IsData
    <2>6. Mid(g, o, b, t, B) /\ Kept(e, g) /\ Ready(g)
      BY <2>5 DEF Good, Kept, Ready
    <2>7. Mid(h, o, b, t, B) /\ Turned(g, h)
      BY <2>3, <2>6, GoodFlush
    <2>8. Turned(e, h)
      BY <2>6, <2>7, TurnedThen
    <2>9. h.role # "client"
      BY <2>8 DEF Turned
    <2>10. Good(h, f, o, b, t, B)
      BY <2>4, <2>7, <2>9, GoodReport
    <2> QED BY <2>8, <2>10, ThenKept DEF Good
  <1>3. CASE p.msg = "CHANNEL_WINDOW_ADJUST"
    <2>1. f = window_adjusted(e, p)
      BY <1>3 DEF server_read_authenticated
    <2> QED BY <1>3, <2>1, GoodAdjusted, GoodTurns
  <1>3a. CASE p.msg = "GLOBAL_REQUEST"
    <2>1. f = server_global_request(e, p, ok)
      BY <1>3a DEF server_read_authenticated
    <2> QED BY <1>3a, <2>1, GoodGlobal, GoodTurns
  <1>4. CASE p.msg \notin {"CHANNEL_OPEN", "CHANNEL_DATA", "CHANNEL_EXTENDED_DATA", "CHANNEL_WINDOW_ADJUST",
                           "GLOBAL_REQUEST"}
    <2>1. Mid(e, o, b, t, B)
      <3>1. CASE p.msg = "CHANNEL_OPEN_CONFIRMATION"
        <4>1. \A k \in DOMAIN e.channels : Size(p, k) = 0 /\ Credit(p, k) = 0
          BY <3>1 DEF Size, Credit
        <4> QED BY <4>1, MidDrop
      <3>2. CASE p.msg # "CHANNEL_OPEN_CONFIRMATION"
        BY <1>4, <3>2, MidLight
      <3> QED BY <3>1, <3>2
    <2>2. CASE p.msg = "CHANNEL_CLOSE"
      <3>1. f = remove_channel(e, p.ch)
        BY <2>2 DEF server_read_authenticated
      <3> QED BY <2>1, <3>1, GoodRemove, GoodTurns
    <2>3. CASE p.msg = "CHANNEL_EOF"
      <3>1. f = Report(e, p.ch, [t |-> "Eof"])
        BY <2>3 DEF server_read_authenticated
      <3>2. Good(e, f, o, b, t, B)
        BY <2>1, <3>1, GoodReport
      <3> QED BY <3>2, GoodTurns
    <2>4. CASE p.msg = "CHANNEL_REQUEST"
      <3>1. f = server_channel_request(e, p, ok)
        BY <2>4 DEF server_read_authenticated
      <3> QED BY <2>1, <3>1, GoodServerRequest, GoodTurns
    <2>5. CASE p.msg \notin {"CHANNEL_CLOSE", "CHANNEL_EOF", "CHANNEL_REQUEST"}
      <3>1. f = e
        BY <1>4, <2>5 DEF server_read_authenticated
      <3> QED BY <2>1, <3>1, GoodNone, GoodTurns
    <2> QED BY <2>2, <2>3, <2>4, <2>5
  <1> QED BY <1>1, <1>2, <1>3, <1>3a, <1>4

\* server::Session::process_packet keeps the agreement.
LEMMA TurnServer ==
    ASSUME NEW e, NEW o, NEW b, NEW c, NEW B, Mid(e, o, b, c, B), e.role = "server", e.state # "None",
           e.kex = "None", NEW p, NEW t, Taken(c, p, t), p.msg \notin KexMsgs, NEW ok, NEW due,
           NEW f, f = server_process_packet(e, p, ok, due), f.fault = "none"
    PROVE  Mid(f, o, b, t, B) /\ Turned(e, f)
  <1>0. DOMAIN e = Fields /\ e.state \in States
    BY DEF Mid, EndOK
  <1>1. CASE e.state = "Authenticated"
    <2>1. f = server_read_authenticated(e, p, ok, due)
      BY <1>1 DEF server_process_packet
    <2> QED BY <1>1, <2>1, TurnServerRead
  <1>2. CASE e.state = "InitCompression"
    <2>1. PICK g : g = [e EXCEPT !.state = "Authenticated", !.compress = e.zlib]
      OBVIOUS
    <2>2. f = server_read_authenticated(g, p, ok, due)
      BY <1>2, <2>1 DEF server_process_packet
    <2>3. Only(e, g, AuthFields) /\ g.state = "Authenticated"
      BY <1>0, <2>1 DEF Only, AuthFields, Fields
    <2>4. Good(e, g, o, b, c, B)
      BY <1>2, <2>3, GoodAuth DEF States
    <2>5. Mid(g, o, b, c, B) /\ Kept(e, g) /\ g.role = "server" /\ g.kex = "None"
      BY <2>4 DEF Good, Kept
    <2>6. Mid(f, o, b, t, B) /\ Turned(g, f)
      BY <2>2, <2>3, <2>5, TurnServerRead
    <2> QED BY <2>5, <2>6, TurnedThen
  <1>3. CASE e.state \notin {"Authenticated", "InitCompression"}
    <2>1. Mid(e, o, b, t, B)
      BY <1>3, MidSkip
    <2>2. CASE e.state = "WaitingServiceRequest" /\ p.msg = "SERVICE_REQUEST"
      <3>1. f = server_accept_service(e)
        BY <2>2 DEF server_process_packet
      <3> QED BY <1>3, <2>1, <3>1, GoodAcceptService, GoodTurns
    <2>3. CASE e.state = "WaitingAuthRequest" /\ p.msg = "USERAUTH_REQUEST"
      <3>1. f = server_read_auth_request(e, p, plan.accepted)
        BY <2>3 DEF server_process_packet
      <3> QED BY <1>3, <2>1, <3>1, GoodReadAuth, GoodTurns
    <2>4. CASE /\ ~(e.state = "WaitingServiceRequest" /\ p.msg = "SERVICE_REQUEST")
               /\ ~(e.state = "WaitingAuthRequest" /\ p.msg = "USERAUTH_REQUEST")
      <3>1. f = e
        BY <1>3, <2>4 DEF server_process_packet
      <3> QED BY <2>1, <3>1, GoodNone, GoodTurns
    <2> QED BY <2>2, <2>3, <2>4
  <1> QED BY <1>1, <1>2, <1>3

\* client::Session::process_packet keeps the agreement.
LEMMA GoodClient ==
    ASSUME NEW e, NEW o, NEW b, NEW c, NEW B, Mid(e, o, b, c, B), e.role = "client", e.state # "None",
           NEW p, NEW t, Taken(c, p, t), p.msg \notin KexMsgs,
           NEW f, f = client_process_packet(e, p), f.fault = "none"
    PROVE  Good(e, f, o, b, t, B)
  <1>1. CASE e.state = "Authenticated"
    <2>1. f = client_read_authenticated(e, p)
      BY <1>1 DEF client_process_packet
    <2> QED BY <1>1, <2>1, GoodClientRead
  <1>2. CASE e.state # "Authenticated"
    <2>1. f = client_auth(e, p)
      BY <1>2 DEF client_process_packet
    <2> QED BY <1>2, <2>1, GoodClientAuth
  <1> QED BY <1>1, <1>2

\* process_packet of either side keeps the agreement.
LEMMA TurnPacket ==
    ASSUME NEW e, NEW o, NEW b, NEW c, NEW B, Mid(e, o, b, c, B), e.state # "None",
           e.kex = "None", NEW p, NEW t, Taken(c, p, t), p.msg \notin KexMsgs, NEW ok, NEW due,
           NEW f, f = process_packet(e, p, ok, due), f.fault = "none"
    PROVE  Mid(f, o, b, t, B) /\ Turned(e, f)
  <1>1. CASE e.role = "client"
    <2>1. f = client_process_packet(e, p)
      BY <1>1 DEF process_packet
    <2> QED BY <1>1, <2>1, GoodClient, GoodTurns
  <1>2. CASE e.role # "client"
    <2>1. f = server_process_packet(e, p, ok, due)
      BY <1>2 DEF process_packet
    <2>2. e.role = "server"
      BY <1>2 DEF Mid, EndOK, Sides
    <2> QED BY <2>1, <2>2, TurnServer
  <1> QED BY <1>1, <1>2

------------------------------------------------------------------------------
(* The first key exchange *)

\* How far an end can be in a key exchange.
LEMMA PactPhases ==
    ASSUME NEW r, NEW T, NEW l, NEW ph, NEW o, NEW s, NEW c, NEW B, Pact(r, T, l, ph, o, s, c, B)
    PROVE  /\ r = "client" => ph \in {"None", "Init", "DhDone", "Keys"}
           /\ r # "client" => ph \in {"None", "Init", "Dh", "Keys"}
  <1>1. CASE r = "client"
    <2>1. Exchanging(ph, Phase(o), s, c)
      BY <1>1 DEF Pact, World
    <2> QED BY <1>1, <2>1 DEF Exchanging
  <1>2. CASE r # "client"
    <2>1. Exchanging(Phase(o), ph, c, s)
      BY <1>2 DEF Pact, World
    <2> QED BY <1>2, <2>1 DEF Exchanging
  <1> QED BY <1>1, <1>2

\* The phase changes, and nothing is written.
LEMMA MidPhase ==
    ASSUME NEW e, NEW o, NEW b, EndOK(e), Flow(b), NEW f, Only(e, f, Inner \cup {"state"}),
           f.out = e.out, f.write = e.write, f.state \in States,
           f.state # "Authenticated" => DOMAIN e.channels = {}, NEW c, NEW B,
           Pact(e.role, e.channels, e.last_channel_id, Phase(f), o, b \o Going(e), c, B)
    PROVE  Mid(f, o, b, c, B) /\ f.role = e.role
  <1>1. DOMAIN e = Fields
    BY DEF EndOK
  <1>2. /\ f.role = e.role /\ f.channels = e.channels /\ f.events = e.events
        /\ f.last_channel_id = e.last_channel_id /\ DOMAIN f = Fields
    BY <1>1 DEF Only, Fields, Inner
  <1>3. EndOK(f)
    BY <1>2 DEF EndOK
  <1>4. Going(f) = Going(e)
    BY DEF Going
  <1> QED BY <1>2, <1>3, <1>4 DEF Mid

\* The state of an end between iterations, as far as keys go.
Shape(e) ==
    /\ Flow(e.pending_reads) /\ NoKex(e.pending_reads)
    /\ e.rekey = "None" => e.pending_reads = <<>>
    /\ e.state = "None" => e.rekey = "None" /\ e.kex # "None" /\ e.write = <<>>
    /\ e.state # "None" => /\ e.kex = "None"
                           /\ e.rekey = "None" => e.exchange
                           /\ e.rekey # "None" => ~e.exchange

\* It is kept.
LEMMA ShapeTurned ==
    ASSUME NEW e, NEW f, Shape(e), Turned(e, f), f.state = "None" => f.write = <<>>
    PROVE  Shape(f)
  <1>1. CASE f.rekey = e.rekey /\ f.exchange = e.exchange
    BY <1>1 DEF Shape, Turned
  <1>2. CASE Begun(e, f)
    BY <1>2 DEF Shape, Turned, Begun
  <1> QED BY <1>1, <1>2 DEF Turned

\* The end f after e has read a packet; y is still to be read.
Led(e, f, o, b, y, B) ==
    /\ Mid(f, o, b, f.pending_reads \o y, B) /\ Shape(f)
    /\ f.role = e.role /\ f.disconnected = e.disconnected

\* A message of the first key exchange is answered.
LEMMA FirstAnswer ==
    ASSUME NEW e, NEW o, NEW b, NEW c, NEW B, Mid(e, o, b, c, B), Shape(e), e.state = "None",
           NEW x, Flow(x), NEW g, Wrote(e, g, x), NEW f, Only(g, f, {"kex"}), f.kex # "None", NEW t,
           Pact(e.role, e.channels, e.last_channel_id, f.kex, o, (b \o Going(e)) \o x, t, B)
    PROVE  /\ Mid(f, o, b, t, B) /\ Shape(f) /\ f.pending_reads = <<>>
           /\ f.role = e.role /\ f.disconnected = e.disconnected /\ f.state = "None"
  <1>1. EndOK(e) /\ Flow(b) /\ DOMAIN e = Fields
    BY DEF Mid, EndOK
  <1>2. DOMAIN g = Fields /\ Only(e, g, {"out"})
    BY <1>1 DEF Wrote, Only
  <1>3. /\ Only(g, f, Inner) /\ f.out = g.out /\ f.write = g.write
        /\ f.rekey = g.rekey /\ f.pending_reads = g.pending_reads
        /\ f.disconnected = g.disconnected /\ f.exchange = g.exchange
    BY <1>2 DEF Only, Inner, Fields
  <1>4. /\ g.rekey = e.rekey /\ g.pending_reads = e.pending_reads
        /\ g.disconnected = e.disconnected /\ g.exchange = e.exchange
    BY <1>1, <1>2 DEF Only, Fields
  <1>5. Phase(f) = f.kex
    BY <1>3 DEF Phase
  <1>5a. Pact(e.role, e.channels, e.last_channel_id, Phase(f), o, (b \o Going(e)) \o x, t, B)
    BY <1>5
  <1>6m. /\ EndOK(f) /\ f.write = <<>> /\ f.state = e.state /\ f.role = e.role
        /\ f.channels = e.channels /\ f.last_channel_id = e.last_channel_id
        /\ b \o Going(f) = (b \o Going(e)) \o x
    BY <1>1, <1>3, WroteMore
  <1>6. Mid(f, o, b, t, B) /\ f.write = <<>> /\ f.state = e.state /\ f.role = e.role
    BY <1>1, <1>5a, <1>6m DEF Mid
  <1>7. Shape(f) /\ f.pending_reads = <<>>
    BY <1>3, <1>4, <1>6 DEF Shape
  <1> QED BY <1>3, <1>4, <1>6, <1>7

\* The same in a re-exchange.
LEMMA RekeyAnswer ==
    ASSUME NEW e, NEW o, NEW b, NEW c, NEW B, Mid(e, o, b, c, B), Shape(e), e.state # "None",
           NEW x, Flow(x), NEW g, Wrote(e, g, x),
           NEW h, Only(g, h, {"rekey", "exchange"}), h.rekey # "None", ~h.exchange, NEW t,
           Pact(e.role, e.channels, e.last_channel_id, h.rekey, o, (b \o Going(e)) \o x, t, B),
           NEW due, NEW f, f = flush(h, due)
    PROVE  /\ Mid(f, o, b, t, B) /\ Shape(f) /\ f.pending_reads = e.pending_reads
           /\ f.role = e.role /\ f.disconnected = e.disconnected
  <1>1. EndOK(e) /\ Flow(b) /\ DOMAIN e = Fields
    BY DEF Mid, EndOK
  <1>2. DOMAIN g = Fields /\ Only(e, g, {"out"}) /\ DOMAIN h = Fields
    BY <1>1 DEF Wrote, Only
  <1>3. /\ Only(g, h, Inner) /\ h.out = g.out /\ h.write = g.write
        /\ h.kex = g.kex /\ h.pending_reads = g.pending_reads
        /\ h.disconnected = g.disconnected
    BY <1>2 DEF Only, Inner, Fields
  <1>4. /\ g.kex = e.kex /\ g.pending_reads = e.pending_reads
        /\ g.disconnected = e.disconnected
    BY <1>1, <1>2 DEF Only, Fields
  <1>5. Phase(h) = h.rekey
    BY <1>3, <1>4 DEF Phase, Shape
  <1>5a. Pact(e.role, e.channels, e.last_channel_id, Phase(h), o, (b \o Going(e)) \o x, t, B)
    BY <1>5
  <1>6m. /\ EndOK(h) /\ h.write = <<>> /\ h.state = e.state /\ h.role = e.role
        /\ h.channels = e.channels /\ h.last_channel_id = e.last_channel_id
        /\ b \o Going(h) = (b \o Going(e)) \o x
    BY <1>1, <1>3, WroteMore
  <1>6. Mid(h, o, b, t, B) /\ h.write = <<>> /\ h.state = e.state /\ h.role = e.role
    BY <1>1, <1>5a, <1>6m DEF Mid
  <1>7. Shape(h) /\ Ready(h)
    BY <1>3, <1>4, <1>6 DEF Shape, Ready
  <1>8. Mid(f, o, b, t, B) /\ Turned(h, f) /\ f.state = h.state
    BY <1>6, <1>7, GoodFlush
  <1>9. Shape(f)
    BY <1>6, <1>7, <1>8, ShapeTurned
  <1> QED BY <1>3, <1>4, <1>6, <1>8, <1>9 DEF Turned

\* Nothing is written.
LEMMA WroteNone ==
    ASSUME NEW e, EndOK(e), e.write = <<>>
    PROVE  Wrote(e, e, <<>>) /\ Flow(<<>>)
  <1>1. Flow(Plain(e.out)) /\ Flow(e.write) /\ IsSeq(e.out)
    BY DEF EndOK
  <1>2. IsSeq(Going(e))
    BY <1>1, CatFacts DEF Going, Flow
  <1>3. Going(e) = Going(e) \o <<>>
    BY <1>2, CatNone
  <1> QED BY <1>1, <1>3, FlowNone DEF Wrote, Only

\* The first packet of a key exchange on its way.
FirstKex(c, m, p, t) == Dropped(c, m, p, t) /\ p.msg \in KexMsgs /\ \A i \in 1..m - 1 : c[i].msg \notin KexMsgs

\* reply() of the client before encryption keeps the agreement.
LEMMA LedClientKex ==
    ASSUME NEW e, NEW o, NEW b, NEW c, NEW B, Mid(e, o, b, c, B), Shape(e), e.state = "None", e.role = "client",
           NEW p, NEW t, Taken(c, p, t), NEW due, NEW f, f = client_kex(e, p, due), f.fault = "none"
    PROVE  /\ Mid(f, o, b, t, B) /\ Shape(f) /\ f.pending_reads = <<>>
           /\ f.role = e.role /\ f.disconnected = e.disconnected
  <1>1. /\ EndOK(e) /\ Flow(b) /\ Pact(e.role, e.channels, e.last_channel_id, Phase(e), o, b \o Going(e), c, B)
        /\ DOMAIN e = Fields /\ DOMAIN e.channels = {}
    BY DEF Mid, EndOK
  <1>2. Phase(e) = e.kex /\ e.kex # "None" /\ e.write = <<>> /\ e.pending_reads = <<>> /\ e.rekey = "None"
    BY DEF Shape, Phase
  <1>3. e.kex \in {"Init", "DhDone", "Keys"}
    BY <1>1, <1>2, PactPhases
  <1>4. Dropped(c, 1, p, t) /\ \A i \in 1..1 - 1 : c[i].msg \notin KexMsgs
    BY TakenDropped
  <1>5. CASE e.kex = "Init"
    <2>1. p.msg = "KEXINIT"
      <3>1. ASSUME p.msg # "KEXINIT" PROVE FALSE
        <4>1. f = Failed(e, "Kex")
          BY <1>5, <3>1 DEF client_kex
        <4> QED BY <1>1, <4>1, FailedIs
      <3> QED BY <3>1
    <2>2. PICK x : x = <<[msg |-> "KEX_ECDH_INIT"]>>
      OBVIOUS
    <2>3. PICK g : g = cipher_write(e, "KEX_ECDH_INIT")
      OBVIOUS
    <2>4. Wrote(e, g, x) /\ Idle(x) /\ Openings(x) = 0 /\ OneKex(x, "KEX_ECDH_INIT") /\ Flow(x)
      BY <1>1, <1>2, <2>2, <2>3, WroteKex DEF KexMsgs, Idle
    <2>5. p.msg \in KexMsgs
      BY <2>1 DEF KexMsgs
    <2>6. Pact(e.role, e.channels, e.last_channel_id, "DhDone", o, (b \o Going(e)) \o x, t, B)
      BY <1>1, <1>2, <1>4, <1>5, <2>4, <2>5, PactCInit
    <2>7. PICK h : h = [g EXCEPT !.kex = "DhDone"]
      OBVIOUS
    <2>7a. Only(g, h, {"kex"}) /\ h.kex = "DhDone"
      BY <1>1, <2>4, <2>7 DEF Wrote, Only, Fields
    <2>7b. h.kex # "None" /\ Pact(e.role, e.channels, e.last_channel_id, h.kex, o, (b \o Going(e)) \o x, t, B)
      BY <2>6, <2>7a
    <2>8. /\ Mid(h, o, b, t, B) /\ Shape(h) /\ h.pending_reads = <<>>
          /\ h.role = e.role /\ h.disconnected = e.disconnected /\ h.state = "None"
      <3>1. Flow(x) /\ Wrote(e, g, x) /\ Only(g, h, {"kex"})
        BY <2>4, <2>7a
      <3> QED BY <2>7b, <3>1, FirstAnswer
    <2>9. f = flush(h, due)
      BY <1>5, <2>1, <2>3, <2>7 DEF client_kex, client_parse
    <2>10. f = h
      BY <2>8, <2>9 DEF flush
    <2> QED BY <2>8, <2>10
  <1>6. CASE e.kex = "DhDone"
    <2>1. p.msg = "KEX_ECDH_REPLY"
      <3>1. ASSUME p.msg # "KEX_ECDH_REPLY" PROVE FALSE
        <4>1. f = Failed(e, "Inconsistent")
          BY <1>6, <3>1 DEF client_kex
        <4> QED BY <1>1, <4>1, FailedIs
      <3> QED BY <3>1
    <2>2. PICK x : x = <<[msg |-> "NEWKEYS"]>>
      OBVIOUS
    <2>3. PICK g : g = cipher_write(e, "NEWKEYS")
      OBVIOUS
    <2>4. Wrote(e, g, x) /\ Idle(x) /\ Openings(x) = 0 /\ OneKex(x, "NEWKEYS") /\ Flow(x)
      BY <1>1, <1>2, <2>2, <2>3, WroteKex DEF KexMsgs, Idle
    <2>5. p.msg \in KexMsgs
      BY <2>1 DEF KexMsgs
    <2>6. Pact(e.role, e.channels, e.last_channel_id, "Keys", o, (b \o Going(e)) \o x, t, B)
      BY <1>1, <1>2, <1>4, <1>6, <2>4, <2>5, PactCDhDone
    <2>7. PICK h : h = [g EXCEPT !.kex = "Keys"]
      OBVIOUS
    <2>7a. Only(g, h, {"kex"}) /\ h.kex = "Keys"
      BY <1>1, <2>4, <2>7 DEF Wrote, Only, Fields
    <2>7b. h.kex # "None" /\ Pact(e.role, e.channels, e.last_channel_id, h.kex, o, (b \o Going(e)) \o x, t, B)
      BY <2>6, <2>7a
    <2>8. /\ Mid(h, o, b, t, B) /\ Shape(h) /\ h.pending_reads = <<>>
          /\ h.role = e.role /\ h.disconnected = e.disconnected /\ h.state = "None"
      <3>1. Flow(x) /\ Wrote(e, g, x) /\ Only(g, h, {"kex"})
        BY <2>4, <2>7a
      <3> QED BY <2>7b, <3>1, FirstAnswer
    <2>9. f = flush(h, due)
      BY <1>6, <2>1, <2>3, <2>7 DEF client_kex
    <2>10. f = h
      BY <2>8, <2>9 DEF flush
    <2> QED BY <2>8, <2>10
  <1>7. CASE e.kex = "Keys"
    <2>1. p.msg = "NEWKEYS"
      <3>1. ASSUME p.msg # "NEWKEYS" PROVE FALSE
        <4>1. f = Failed(e, "Kex")
          BY <1>7, <3>1 DEF client_kex
        <4> QED BY <1>1, <4>1, FailedIs
      <3> QED BY <3>1
    <2>2. p.msg \in KexMsgs
      BY <2>1 DEF KexMsgs
    <2>3. Pact(e.role, e.channels, e.last_channel_id, "None", o, b \o Going(e), t, B)
      BY <1>1, <1>2, <1>4, <1>7, <2>2, PactCKeys
    <2>4. f = encrypted(e)
      BY <1>7, <2>1 DEF client_kex
    <2>5. /\ Only(e, f, Inner \cup {"state"}) /\ f.out = e.out /\ f.write = e.write
          /\ f.state = "WaitingServiceRequest" /\ f.kex = "None" /\ f.rekey = e.rekey
          /\ f.exchange = TRUE /\ f.pending_reads = e.pending_reads /\ f.disconnected = e.disconnected
      <3>1. DOMAIN e = Fields
        BY <1>1
      <3>2. Only(e, f, Inner \cup {"state"})
        BY <2>4, <3>1 DEF encrypted, Only, Inner, Fields
      <3> QED BY <2>4, <3>1, <3>2 DEF encrypted, Fields
    <2>6. Phase(f) = "None"
      BY <1>2, <2>5 DEF Phase
    <2>7. Mid(f, o, b, t, B) /\ f.role = e.role
      BY <1>1, <2>3, <2>5, <2>6, MidPhase DEF States
    <2>8. Shape(f)
      BY <1>2, <2>5 DEF Shape
    <2> QED BY <1>2, <2>5, <2>7, <2>8
  <1> QED BY <1>3, <1>5, <1>6, <1>7

\* reply() of the server before encryption keeps the agreement.
LEMMA LedServerKex ==
    ASSUME NEW e, NEW o, NEW b, NEW c, NEW B, Mid(e, o, b, c, B), Shape(e), e.state = "None", e.role # "client",
           NEW p, NEW t, Taken(c, p, t), NEW f, f = server_kex(e, p), f.fault = "none"
    PROVE  /\ Mid(f, o, b, t, B) /\ Shape(f) /\ f.pending_reads = <<>>
           /\ f.role = e.role /\ f.disconnected = e.disconnected
  <1>1. /\ EndOK(e) /\ Flow(b) /\ Pact(e.role, e.channels, e.last_channel_id, Phase(e), o, b \o Going(e), c, B)
        /\ DOMAIN e = Fields /\ DOMAIN e.channels = {}
    BY DEF Mid, EndOK
  <1>2. Phase(e) = e.kex /\ e.kex # "None" /\ e.write = <<>> /\ e.pending_reads = <<>> /\ e.rekey = "None"
    BY DEF Shape, Phase
  <1>3. e.kex \in {"Init", "Dh", "Keys"}
    BY <1>1, <1>2, PactPhases
  <1>4. Dropped(c, 1, p, t) /\ \A i \in 1..1 - 1 : c[i].msg \notin KexMsgs
    BY TakenDropped
  <1>5. CASE e.kex = "Init" /\ p.msg = "KEXINIT"
    <2>1. PICK x : x = <<>>
      OBVIOUS
    <2>2. Wrote(e, e, x) /\ Flow(x)
      BY <1>1, <1>2, <2>1, WroteNone
    <2>3. p.msg \in KexMsgs
      BY <1>5 DEF KexMsgs
    <2>4. Pact(e.role, e.channels, e.last_channel_id, "Dh", o, b \o Going(e), t, B)
      BY <1>1, <1>2, <1>4, <1>5, <2>3, PactSInit
    <2>5. IsSeq(b \o Going(e))
      BY <2>4, PactNumbers DEF Flow
    <2>6. (b \o Going(e)) \o x = b \o Going(e)
      BY <2>1, <2>5, CatNone
    <2>7. f = [e EXCEPT !.kex = "Dh"]
      BY <1>5 DEF server_kex, server_parse
    <2>8. Pact(e.role, e.channels, e.last_channel_id, "Dh", o, (b \o Going(e)) \o x, t, B)
      BY <2>4, <2>6
    <2>9. Only(e, f, {"kex"}) /\ f.kex = "Dh"
      BY <1>1, <2>7 DEF Only, Fields
    <2>10. f.kex # "None" /\ Pact(e.role, e.channels, e.last_channel_id, f.kex, o, (b \o Going(e)) \o x, t, B)
      BY <2>8, <2>9
    <2>11. Flow(x) /\ Wrote(e, e, x) /\ Only(e, f, {"kex"})
      BY <2>2, <2>9
    <2> QED BY <2>10, <2>11, FirstAnswer
  <1>6. CASE e.kex = "Init" /\ p.msg # "KEXINIT"
    <2>1. f = e
      BY <1>6 DEF server_kex
    <2>2. p.msg \notin KexMsgs
      <3>1. ASSUME p.msg \in KexMsgs PROVE FALSE
        BY <1>1, <1>2, <1>4, <1>6, <3>1, PactSInit
      <3> QED BY <3>1
    <2>3. Mid(e, o, b, t, B)
      BY <2>2, MidSkip
    <2> QED BY <1>2, <2>1, <2>3
  <1>7. CASE e.kex = "Dh"
    <2>1. p.msg = "KEX_ECDH_INIT"
      <3>1. ASSUME p.msg # "KEX_ECDH_INIT" PROVE FALSE
        <4>1. f = Failed(e, "panic")
          BY <1>7, <3>1 DEF server_kex
        <4> QED BY <1>1, <4>1, FailedIs
      <3> QED BY <3>1
    <2>2. PICK x : x = <<[msg |-> "KEX_ECDH_REPLY"]>>
      OBVIOUS
    <2>3. PICK g : g = cipher_write(e, "KEX_ECDH_REPLY")
      OBVIOUS
    <2>4. Wrote(e, g, x) /\ Idle(x) /\ Openings(x) = 0 /\ OneKex(x, "KEX_ECDH_REPLY") /\ Flow(x)
      BY <1>1, <1>2, <2>2, <2>3, WroteKex DEF KexMsgs, Idle
    <2>5. EndOK(g) /\ g.write = <<>>
      BY <1>1, <2>4, WroteEnd
    <2>6. PICK y : y = <<[msg |-> "NEWKEYS"]>>
      OBVIOUS
    <2>7. PICK h : h = cipher_write(g, "NEWKEYS")
      OBVIOUS
    <2>8. Wrote(g, h, y) /\ Idle(y) /\ Openings(y) = 0 /\ OneKex(y, "NEWKEYS") /\ Flow(y)
      BY <2>5, <2>6, <2>7, WroteKex DEF KexMsgs, Idle
    <2>9. PICK z : z = x \o y
      OBVIOUS
    <2>10. Wrote(e, h, z)
      BY <1>1, <2>4, <2>8, <2>9, WroteThen
    <2>11. Idle(z) /\ Openings(z) = 0 /\ TwoKex(z, "KEX_ECDH_REPLY", "NEWKEYS") /\ Flow(z)
      BY <2>4, <2>8, <2>9, KexPair DEF Idle
    <2>12. p.msg \in KexMsgs
      BY <2>1 DEF KexMsgs
    <2>13. Pact(e.role, e.channels, e.last_channel_id, "Keys", o, (b \o Going(e)) \o z, t, B)
      BY <1>1, <1>2, <1>4, <1>7, <2>11, <2>12, PactSDh
    <2>14. f = [h EXCEPT !.kex = "Keys"]
      BY <1>7, <2>1, <2>3, <2>7 DEF server_kex, KexDh_parse
    <2>15. Only(h, f, {"kex"}) /\ f.kex = "Keys"
      BY <1>1, <2>10, <2>14 DEF Wrote, Only, Fields
    <2>16. f.kex # "None" /\ Pact(e.role, e.channels, e.last_channel_id, f.kex, o, (b \o Going(e)) \o z, t, B)
      BY <2>13, <2>15
    <2>17. Flow(z) /\ Wrote(e, h, z) /\ Only(h, f, {"kex"})
      BY <2>10, <2>11, <2>15
    <2> QED BY <2>16, <2>17, FirstAnswer
  <1>8. CASE e.kex = "Keys"
    <2>1. p.msg = "NEWKEYS"
      <3>1. ASSUME p.msg # "NEWKEYS" PROVE FALSE
        <4>1. f = Failed(e, "Kex")
          BY <1>8, <3>1 DEF server_kex
        <4> QED BY <1>1, <4>1, FailedIs
      <3> QED BY <3>1
    <2>2. p.msg \in KexMsgs
      BY <2>1 DEF KexMsgs
    <2>3. Pact(e.role, e.channels, e.last_channel_id, "None", o, b \o Going(e), t, B)
      BY <1>1, <1>2, <1>4, <1>8, <2>2, PactSKeys
    <2>4. f = encrypted(e)
      BY <1>8, <2>1 DEF server_kex
    <2>5. /\ Only(e, f, Inner \cup {"state"}) /\ f.out = e.out /\ f.write = e.write
          /\ f.state = "WaitingServiceRequest" /\ f.kex = "None" /\ f.rekey = e.rekey
          /\ f.exchange = TRUE /\ f.pending_reads = e.pending_reads /\ f.disconnected = e.disconnected
      <3>1. DOMAIN e = Fields
        BY <1>1
      <3>2. Only(e, f, Inner \cup {"state"})
        BY <2>4, <3>1 DEF encrypted, Only, Inner, Fields
      <3> QED BY <2>4, <3>1, <3>2 DEF encrypted, Fields
    <2>6. Phase(f) = "None"
      BY <1>2, <2>5 DEF Phase
    <2>7. Mid(f, o, b, t, B) /\ f.role = e.role
      BY <1>1, <2>3, <2>5, <2>6, MidPhase DEF States
    <2>8. Shape(f)
      BY <1>2, <2>5 DEF Shape
    <2> QED BY <1>2, <2>5, <2>7, <2>8
  <1> QED BY <1>3, <1>5, <1>6, <1>7, <1>8

------------------------------------------------------------------------------
(* A key re-exchange *)

\* A packet of a re-exchange that does not end it, at the client.
LEMMA LedClientRekey ==
    ASSUME NEW e, NEW o, NEW b, NEW c, NEW B, Mid(e, o, b, c, B), Shape(e), e.state # "None", e.role = "client",
           e.write = <<>>, e.rekey # "Keys", NEW m, NEW p, NEW t, FirstKex(c, m, p, t), NEW due,
           NEW f, f = client_read_encrypted(e, p, due)
    PROVE  /\ Mid(f, o, b, t, B) /\ Shape(f) /\ f.pending_reads = e.pending_reads
           /\ f.role = e.role /\ f.disconnected = e.disconnected
  <1>1. /\ EndOK(e) /\ Flow(b) /\ Pact(e.role, e.channels, e.last_channel_id, Phase(e), o, b \o Going(e), c, B)
        /\ DOMAIN e = Fields /\ e.write = <<>>
    BY DEF Mid, EndOK
  <1>2. /\ Phase(e) = e.rekey /\ (e.rekey = "None" => e.exchange) /\ (e.rekey # "None" => ~e.exchange)
    BY DEF Shape, Phase
  <1>3. e.rekey \in {"None", "Init", "DhDone"}
    BY <1>1, <1>2, PactPhases
  <1>4. CASE e.rekey = "None"
    <2>1. p.msg = "KEXINIT"
      BY <1>1, <1>2, <1>4, PactCNone DEF FirstKex
    <2>2. PICK x : x = <<[msg |-> "KEXINIT"]>>
      OBVIOUS
    <2>2a. PICK y : y = <<[msg |-> "KEX_ECDH_INIT"]>>
      OBVIOUS
    <2>3. PICK g : g = cipher_write(e, "KEXINIT")
      OBVIOUS
    <2>3a. PICK k : k = cipher_write(g, "KEX_ECDH_INIT")
      OBVIOUS
    <2>3b. Wrote(e, g, x) /\ Idle(x) /\ Openings(x) = 0 /\ OneKex(x, "KEXINIT") /\ Flow(x)
      BY <1>1, <2>2, <2>3, WroteKex DEF KexMsgs, Idle
    <2>3c. EndOK(g) /\ g.write = <<>>
      BY <1>1, <2>3b, WroteEnd
    <2>3d. Wrote(g, k, y) /\ Idle(y) /\ Openings(y) = 0 /\ OneKex(y, "KEX_ECDH_INIT") /\ Flow(y)
      BY <2>2a, <2>3a, <2>3c, WroteKex DEF KexMsgs, Idle
    <2>3e. PICK z : z = x \o y
      OBVIOUS
    <2>3f. Wrote(e, k, z)
      BY <1>1, <2>3b, <2>3d, <2>3e, WroteThen
    <2>4. Wrote(e, k, z) /\ Idle(z) /\ Openings(z) = 0 /\ TwoKex(z, "KEXINIT", "KEX_ECDH_INIT") /\ Flow(z)
      BY <2>3b, <2>3d, <2>3e, <2>3f, KexPair DEF Idle
    <2>5. Pact(e.role, e.channels, e.last_channel_id, "DhDone", o, (b \o Going(e)) \o z, t, B)
      BY <1>1, <1>2, <1>4, <2>4, PactCNone DEF FirstKex
    <2>6. PICK h : h = [k EXCEPT !.rekey = "DhDone", !.exchange = FALSE]
      OBVIOUS
    <2>7. f = flush(h, due)
      BY <1>2, <1>4, <2>1, <2>3, <2>3a, <2>6 DEF client_read_encrypted, client_parse
    <2>8. Only(k, h, {"rekey", "exchange"}) /\ h.rekey = "DhDone" /\ ~h.exchange
      <3>1. DOMAIN k = Fields /\ k.exchange = e.exchange
        BY <1>1, <2>4 DEF Wrote, Only, Fields
      <3> QED BY <1>2, <1>4, <2>6, <3>1 DEF Only, Fields
    <2>9. Pact(e.role, e.channels, e.last_channel_id, h.rekey, o, (b \o Going(e)) \o z, t, B)
      BY <2>5, <2>8
    <2>10. Flow(z) /\ Wrote(e, k, z) /\ Only(k, h, {"rekey", "exchange"}) /\ h.rekey # "None" /\ ~h.exchange
      BY <2>4, <2>8
    <2> QED BY <2>7, <2>9, <2>10, RekeyAnswer
  <1>5. CASE e.rekey = "Init"
    <2>1. p.msg = "KEXINIT"
      BY <1>1, <1>2, <1>5, PactCInit DEF FirstKex
    <2>2. PICK x : x = <<[msg |-> "KEX_ECDH_INIT"]>>
      OBVIOUS
    <2>3. PICK g : g = cipher_write(e, "KEX_ECDH_INIT")
      OBVIOUS
    <2>4. Wrote(e, g, x) /\ Idle(x) /\ Openings(x) = 0 /\ OneKex(x, "KEX_ECDH_INIT") /\ Flow(x)
      BY <1>1, <2>2, <2>3, WroteKex DEF KexMsgs, Idle
    <2>5. Pact(e.role, e.channels, e.last_channel_id, "DhDone", o, (b \o Going(e)) \o x, t, B)
      BY <1>1, <1>2, <1>5, <2>4, PactCInit DEF FirstKex
    <2>6. PICK h : h = [g EXCEPT !.rekey = "DhDone"]
      OBVIOUS
    <2>7. f = flush(h, due)
      BY <1>2, <1>5, <2>1, <2>3, <2>6 DEF client_read_encrypted, client_parse
    <2>8. Only(g, h, {"rekey", "exchange"}) /\ h.rekey = "DhDone" /\ ~h.exchange
      <3>1. DOMAIN g = Fields /\ g.exchange = e.exchange
        BY <1>1, <2>4 DEF Wrote, Only, Fields
      <3> QED BY <1>2, <1>5, <2>6, <3>1 DEF Only, Fields
    <2>9. Pact(e.role, e.channels, e.last_channel_id, h.rekey, o, (b \o Going(e)) \o x, t, B)
      BY <2>5, <2>8
    <2>10. Flow(x) /\ Wrote(e, g, x) /\ Only(g, h, {"rekey", "exchange"}) /\ h.rekey # "None" /\ ~h.exchange
      BY <2>4, <2>8
    <2> QED BY <2>7, <2>9, <2>10, RekeyAnswer
  <1>6. CASE e.rekey = "DhDone"
    <2>1. p.msg = "KEX_ECDH_REPLY"
      BY <1>1, <1>2, <1>6, PactCDhDone DEF FirstKex
    <2>2. PICK x : x = <<[msg |-> "NEWKEYS"]>>
      OBVIOUS
    <2>3. PICK g : g = cipher_write(e, "NEWKEYS")
      OBVIOUS
    <2>4. Wrote(e, g, x) /\ Idle(x) /\ Openings(x) = 0 /\ OneKex(x, "NEWKEYS") /\ Flow(x)
      BY <1>1, <2>2, <2>3, WroteKex DEF KexMsgs, Idle
    <2>5. Pact(e.role, e.channels, e.last_channel_id, "Keys", o, (b \o Going(e)) \o x, t, B)
      BY <1>1, <1>2, <1>6, <2>4, PactCDhDone DEF FirstKex
    <2>6. PICK h : h = [g EXCEPT !.rekey = "Keys"]
      OBVIOUS
    <2>7. f = flush(h, due)
      BY <1>2, <1>6, <2>1, <2>3, <2>6 DEF client_read_encrypted
    <2>8. Only(g, h, {"rekey", "exchange"}) /\ h.rekey = "Keys" /\ ~h.exchange
      <3>1. DOMAIN g = Fields /\ g.exchange = e.exchange
        BY <1>1, <2>4 DEF Wrote, Only, Fields
      <3> QED BY <1>2, <1>6, <2>6, <3>1 DEF Only, Fields
    <2>9. Pact(e.role, e.channels, e.last_channel_id, h.rekey, o, (b \o Going(e)) \o x, t, B)
      BY <2>5, <2>8
    <2>10. Flow(x) /\ Wrote(e, g, x) /\ Only(g, h, {"rekey", "exchange"}) /\ h.rekey # "None" /\ ~h.exchange
      BY <2>4, <2>8
    <2> QED BY <2>7, <2>9, <2>10, RekeyAnswer
  <1> QED BY <1>3, <1>4, <1>5, <1>6

\* The same at the server.
LEMMA LedServerRekey ==
    ASSUME NEW e, NEW o, NEW b, NEW c, NEW B, Mid(e, o, b, c, B), Shape(e), e.state # "None", e.role # "client",
           e.write = <<>>, e.rekey # "Keys", NEW m, NEW p, NEW t, FirstKex(c, m, p, t), NEW ok, NEW due,
           NEW f, f = server_read_encrypted(e, p, ok, due)
    PROVE  /\ Mid(f, o, b, t, B) /\ Shape(f) /\ f.pending_reads = e.pending_reads
           /\ f.role = e.role /\ f.disconnected = e.disconnected
  <1>1. /\ EndOK(e) /\ Flow(b) /\ Pact(e.role, e.channels, e.last_channel_id, Phase(e), o, b \o Going(e), c, B)
        /\ DOMAIN e = Fields /\ e.write = <<>>
    BY DEF Mid, EndOK
  <1>2. /\ Phase(e) = e.rekey /\ (e.rekey = "None" => e.exchange) /\ (e.rekey # "None" => ~e.exchange)
    BY DEF Shape, Phase
  <1>3. e.rekey \in {"None", "Init", "Dh"}
    BY <1>1, <1>2, PactPhases
  <1>4. CASE e.rekey = "None"
    <2>1. p.msg = "KEXINIT"
      BY <1>1, <1>2, <1>4, PactSNone DEF FirstKex
    <2>2. PICK x : x = <<[msg |-> "KEXINIT"]>>
      OBVIOUS
    <2>3. PICK g : g = cipher_write(e, "KEXINIT")
      OBVIOUS
    <2>4. Wrote(e, g, x) /\ Idle(x) /\ Openings(x) = 0 /\ OneKex(x, "KEXINIT") /\ Flow(x)
      BY <1>1, <2>2, <2>3, WroteKex DEF KexMsgs, Idle
    <2>5. Pact(e.role, e.channels, e.last_channel_id, "Dh", o, (b \o Going(e)) \o x, t, B)
      BY <1>1, <1>2, <1>4, <2>4, PactSNone DEF FirstKex
    <2>6. PICK h : h = [g EXCEPT !.rekey = "Dh", !.exchange = FALSE]
      OBVIOUS
    <2>7. f = flush(h, due)
      BY <1>2, <1>4, <2>1, <2>3, <2>6 DEF server_read_encrypted, server_parse
    <2>8. Only(g, h, {"rekey", "exchange"}) /\ h.rekey = "Dh" /\ ~h.exchange
      <3>1. DOMAIN g = Fields /\ g.exchange = e.exchange
        BY <1>1, <2>4 DEF Wrote, Only, Fields
      <3> QED BY <1>2, <1>4, <2>6, <3>1 DEF Only, Fields
    <2>9. Pact(e.role, e.channels, e.last_channel_id, h.rekey, o, (b \o Going(e)) \o x, t, B)
      BY <2>5, <2>8
    <2>10. Flow(x) /\ Wrote(e, g, x) /\ Only(g, h, {"rekey", "exchange"}) /\ h.rekey # "None" /\ ~h.exchange
      BY <2>4, <2>8
    <2> QED BY <2>7, <2>9, <2>10, RekeyAnswer
  <1>5. CASE e.rekey = "Init"
    <2>1. p.msg = "KEXINIT"
      BY <1>1, <1>2, <1>5, PactSInit DEF FirstKex
    <2>2. PICK x : x = <<>>
      OBVIOUS
    <2>4. Wrote(e, e, x) /\ Flow(x)
      BY <1>1, <2>2, WroteNone
    <2>4a. Pact(e.role, e.channels, e.last_channel_id, "Dh", o, b \o Going(e), t, B)
      BY <1>1, <1>2, <1>5, PactSInit DEF FirstKex
    <2>4b. IsSeq(b \o Going(e))
      BY <2>4a, PactNumbers DEF Flow
    <2>4c. (b \o Going(e)) \o x = b \o Going(e)
      BY <2>2, <2>4b, CatNone
    <2>5. Pact(e.role, e.channels, e.last_channel_id, "Dh", o, (b \o Going(e)) \o x, t, B)
      BY <2>4a, <2>4c
    <2>6. PICK h : h = [e EXCEPT !.rekey = "Dh"]
      OBVIOUS
    <2>7. f = flush(h, due)
      BY <1>2, <1>5, <2>1, <2>6 DEF server_read_encrypted, server_parse
    <2>8. Only(e, h, {"rekey", "exchange"}) /\ h.rekey = "Dh" /\ ~h.exchange
      <3>1. DOMAIN e = Fields /\ e.exchange = e.exchange
        BY <1>1, <2>4 DEF Wrote, Only, Fields
      <3> QED BY <1>2, <1>5, <2>6, <3>1 DEF Only, Fields
    <2>9. Pact(e.role, e.channels, e.last_channel_id, h.rekey, o, (b \o Going(e)) \o x, t, B)
      BY <2>5, <2>8
    <2>10. Flow(x) /\ Wrote(e, e, x) /\ Only(e, h, {"rekey", "exchange"}) /\ h.rekey # "None" /\ ~h.exchange
      BY <2>4, <2>8
    <2> QED BY <2>7, <2>9, <2>10, RekeyAnswer
  <1>6. CASE e.rekey = "Dh"
    <2>1. p.msg = "KEX_ECDH_INIT"
      BY <1>1, <1>2, <1>6, PactSDh DEF FirstKex
    <2>2. PICK x : x = <<[msg |-> "KEX_ECDH_REPLY"]>>
      OBVIOUS
    <2>2a. PICK y : y = <<[msg |-> "NEWKEYS"]>>
      OBVIOUS
    <2>3. PICK g : g = cipher_write(e, "KEX_ECDH_REPLY")
      OBVIOUS
    <2>3a. PICK k : k = cipher_write(g, "NEWKEYS")
      OBVIOUS
    <2>3b. Wrote(e, g, x) /\ Idle(x) /\ Openings(x) = 0 /\ OneKex(x, "KEX_ECDH_REPLY") /\ Flow(x)
      BY <1>1, <2>2, <2>3, WroteKex DEF KexMsgs, Idle
    <2>3c. EndOK(g) /\ g.write = <<>>
      BY <1>1, <2>3b, WroteEnd
    <2>3d. Wrote(g, k, y) /\ Idle(y) /\ Openings(y) = 0 /\ OneKex(y, "NEWKEYS") /\ Flow(y)
      BY <2>2a, <2>3a, <2>3c, WroteKex DEF KexMsgs, Idle
    <2>3e. PICK z : z = x \o y
      OBVIOUS
    <2>3f. Wrote(e, k, z)
      BY <1>1, <2>3b, <2>3d, <2>3e, WroteThen
    <2>4. Wrote(e, k, z) /\ Idle(z) /\ Openings(z) = 0 /\ TwoKex(z, "KEX_ECDH_REPLY", "NEWKEYS") /\ Flow(z)
      BY <2>3b, <2>3d, <2>3e, <2>3f, KexPair DEF Idle
    <2>5. Pact(e.role, e.channels, e.last_channel_id, "Keys", o, (b \o Going(e)) \o z, t, B)
      BY <1>1, <1>2, <1>6, <2>4, PactSDh DEF FirstKex
    <2>6. PICK h : h = [k EXCEPT !.rekey = "Keys"]
      OBVIOUS
    <2>7. f = flush(h, due)
      BY <1>2, <1>6, <2>1, <2>3, <2>3a, <2>6 DEF server_read_encrypted, KexDh_parse
    <2>8. Only(k, h, {"rekey", "exchange"}) /\ h.rekey = "Keys" /\ ~h.exchange
      <3>1. DOMAIN k = Fields /\ k.exchange = e.exchange
        BY <1>1, <2>4 DEF Wrote, Only, Fields
      <3> QED BY <1>2, <1>6, <2>6, <3>1 DEF Only, Fields
    <2>9. Pact(e.role, e.channels, e.last_channel_id, h.rekey, o, (b \o Going(e)) \o z, t, B)
      BY <2>5, <2>8
    <2>10. Flow(z) /\ Wrote(e, k, z) /\ Only(k, h, {"rekey", "exchange"}) /\ h.rekey # "None" /\ ~h.exchange
      BY <2>4, <2>8
    <2> QED BY <2>7, <2>9, <2>10, RekeyAnswer
  <1> QED BY <1>3, <1>4, <1>5, <1>6

------------------------------------------------------------------------------
(* The end of a re-exchange *)

\* Sequences with the same elements are equal.
LEMMA SameSeq ==
    ASSUME NEW s, IsSeq(s), NEW t, IsSeq(t), Len(s) = Len(t), \A i \in 1..Len(s) : s[i] = t[i]
    PROVE  s = t
  <1>1. Len(s) \in Nat /\ s = [i \in 1..Len(s) |-> s[i]] /\ t = [i \in 1..Len(t) |-> t[i]]
    BY SeqFacts
  <1> QED BY <1>1

\* What is left of t after n packets.
Rest(t, n) == [i \in 1..Len(t) - n |-> t[n + i]]

\* It is a sequence.
LEMMA RestIs ==
    ASSUME NEW t, IsSeq(t), NEW n \in 0..Len(t), NEW u, u = Rest(t, n)
    PROVE  IsSeq(u) /\ Len(u) = Len(t) - n /\ \A i \in 1..Len(t) - n : u[i] = t[n + i]
  <1>1. Len(t) \in Nat
    BY SeqFacts
  <1>2. PICK k : k = Len(t) - n
    OBVIOUS
  <1>3. k \in Nat
    BY <1>1, <1>2
  <1>4. u = [i \in 1..k |-> t[n + i]]
    BY <1>2 DEF Rest
  <1>5. DOMAIN u = 1..k /\ u = [i \in 1..k |-> u[i]]
    BY <1>4
  <1>6. IsSeq(u) /\ Len(u) = k
    BY <1>3, <1>5, SeqMade
  <1> QED BY <1>2, <1>4, <1>6

\* The next packet is taken.
LEMMA RestTakes ==
    ASSUME NEW t, Flow(t), NEW n \in 0..Len(t), n < Len(t)
    PROVE  Taken(Rest(t, n), t[n + 1], Rest(t, n + 1))
  <1>1. IsSeq(t) /\ Len(t) \in Nat /\ DOMAIN t = 1..Len(t) /\ \A i \in DOMAIN t : PacketOK(t[i])
    BY SeqFacts DEF Flow
  <1>2. PICK u : u = Rest(t, n)
    OBVIOUS
  <1>3. PICK v : v = Rest(t, n + 1)
    OBVIOUS
  <1>4. IsSeq(u) /\ Len(u) = Len(t) - n /\ \A i \in 1..Len(t) - n : u[i] = t[n + i]
    <2>1. IsSeq(t) /\ n \in 0..Len(t)
      BY <1>1
    <2> QED BY <1>2, <2>1, RestIs, Zenon
  <1>4a. n + 1 \in 0..Len(t)
    BY <1>1
  <1>5. IsSeq(v) /\ Len(v) = Len(t) - (n + 1) /\ \A i \in 1..Len(t) - (n + 1) : v[i] = t[(n + 1) + i]
    <2>1. IsSeq(t) /\ n + 1 \in 0..Len(t)
      BY <1>1, <1>4a
    <2> QED BY <1>3, <2>1, RestIs, Zenon
  <1>6. PICK x : x = <<t[n + 1]>>
    OBVIOUS
  <1>7. IsSeq(x) /\ Len(x) = 1 /\ x[1] = t[n + 1]
    BY <1>6, OneIs
  <1>8. /\ IsSeq(x \o v) /\ Len(x \o v) = Len(x) + Len(v)
        /\ \A i \in 1..Len(x) : (x \o v)[i] = x[i]
        /\ \A i \in 1..Len(v) : (x \o v)[Len(x) + i] = v[i]
    <2>1. IsSeq(x) /\ IsSeq(v)
      BY <1>5, <1>7
    <2> QED BY <2>1, CatFacts
  <1>9. PICK w : w = x \o v
    OBVIOUS
  <1>10. IsSeq(w) /\ Len(w) = Len(u) /\ w[1] = t[n + 1] /\ \A i \in 1..Len(v) : w[1 + i] = v[i]
    <2>1. IsSeq(w) /\ Len(w) = 1 + Len(v) /\ w[1] = x[1] /\ \A i \in 1..Len(v) : w[1 + i] = v[i]
      <3>1. Len(x) = 1 /\ 1 \in 1..Len(x)
        BY <1>7
      <3> QED BY <1>8, <1>9, <3>1
    <2>2. 1 + Len(v) = Len(u)
      BY <1>1, <1>4, <1>5
    <2> QED BY <1>7, <2>1, <2>2
  <1>11. ASSUME NEW i \in 1..Len(u) PROVE u[i] = w[i]
    <2>1. CASE i = 1
      BY <1>1, <1>4, <1>10, <2>1
    <2>2. CASE i # 1
      <3>1. i - 1 \in 1..Len(v) /\ 1 + (i - 1) = i /\ (n + 1) + (i - 1) = n + i /\ i - 1 \in 1..Len(t) - (n + 1)
        BY <1>1, <1>4, <1>5, <2>2
      <3>2. w[i] = v[i - 1]
        BY <1>10, <3>1
      <3>3. v[i - 1] = t[n + i]
        BY <1>5, <3>1
      <3> QED BY <1>4, <3>2, <3>3
    <2> QED BY <2>1, <2>2
  <1>12. u = w
    BY <1>4, <1>10, <1>11, SameSeq
  <1>13. Flow(u)
    <2>1. DOMAIN u = 1..Len(t) - n
      BY <1>4, SeqFacts
    <2>2. \A i \in DOMAIN u : n + i \in DOMAIN t /\ u[i] = t[n + i]
      BY <1>1, <1>4, <2>1
    <2> QED BY <1>1, <1>4, <2>2 DEF Flow
  <1> QED BY <1>2, <1>3, <1>5, <1>6, <1>9, <1>12, <1>13, CatTakes

\* All of it, and nothing of it.
LEMMA RestEnds ==
    ASSUME NEW q, IsSeq(q), NEW y, IsSeq(y)
    PROVE  Rest(q \o y, 0) = q \o y /\ Rest(q \o y, Len(q)) = y
  <1>1. /\ IsSeq(q \o y) /\ Len(q \o y) = Len(q) + Len(y)
        /\ \A i \in 1..Len(y) : (q \o y)[Len(q) + i] = y[i]
    BY CatFacts
  <1>2. PICK t : t = q \o y
    OBVIOUS
  <1>3. Len(q) \in Nat /\ Len(y) \in Nat
    BY SeqFacts
  <1>4. IsSeq(t) /\ Len(t) = Len(q) + Len(y) /\ \A i \in 1..Len(y) : t[Len(q) + i] = y[i]
    BY <1>1, <1>2
  <1>5. 0 \in 0..Len(t) /\ Len(q) \in 0..Len(t)
    BY <1>3, <1>4
  <1>6. PICK u : u = Rest(t, 0)
    OBVIOUS
  <1>7. IsSeq(u) /\ Len(u) = Len(t) - 0 /\ \A i \in 1..Len(t) - 0 : u[i] = t[0 + i]
    <2>1. IsSeq(t) /\ 0 \in 0..Len(t)
      BY <1>4, <1>5
    <2> QED BY <1>6, <2>1, RestIs
  <1>8. Len(u) = Len(t) /\ \A i \in 1..Len(u) : u[i] = t[i]
    BY <1>3, <1>4, <1>7
  <1>9. u = t
    BY <1>4, <1>7, <1>8, SameSeq
  <1>10. PICK v : v = Rest(t, Len(q))
    OBVIOUS
  <1>11. IsSeq(v) /\ Len(v) = Len(t) - Len(q) /\ \A i \in 1..Len(t) - Len(q) : v[i] = t[Len(q) + i]
    <2>1. IsSeq(t) /\ Len(q) \in 0..Len(t)
      BY <1>4, <1>5
    <2> QED BY <1>10, <2>1, RestIs
  <1>12. Len(v) = Len(y) /\ \A i \in 1..Len(v) : v[i] = y[i]
    BY <1>3, <1>4, <1>11
  <1>13. v = y
    BY <1>11, <1>12, SameSeq
  <1> QED BY <1>2, <1>6, <1>9, <1>10, <1>13

\* What EndRekey reads the queued packets with.
Readings(e, ok, due, f) ==
    f = [n \in 0..(Len(e.pending_reads)) |->
            IF n = 0 THEN flush_all_pending([e EXCEPT !.rekey = "None"])
            ELSE (IF f[n - 1].fault # "none" THEN f[n - 1]
                  ELSE process_packet(f[n - 1], e.pending_reads[n], ok, due))]

\* Its recursion is well founded.
LEMMA ReadingsExist ==
    ASSUME NEW e, NEW ok, NEW due, Len(e.pending_reads) \in Nat
    PROVE  \E f : Readings(e, ok, due, f)
  <1> DEFINE First == flush_all_pending([e EXCEPT !.rekey = "None"])
             Then(x, k) == (IF x.fault # "none" THEN x ELSE process_packet(x, e.pending_reads[k], ok, due))
             Upto(f, n) == f = [k \in 0..n |-> IF k = 0 THEN First ELSE Then(f[k - 1], k)]
             Bad == {n \in Nat : ~\E f : Upto(f, n)}
  <1> HIDE DEF Then, First
  <1>1. Bad = {}
    <2> SUFFICES ASSUME Bad # {} PROVE FALSE
      OBVIOUS
    <2>1. Bad \subseteq Nat
      OBVIOUS
    <2> HIDE DEF Bad
    <2>2. PICK n \in Bad : \A m \in Bad : ~(m < n)
      BY <2>1, LeastNat
    <2>3. n \in Nat /\ ~\E f : Upto(f, n)
      BY <2>2 DEF Bad
    <2>4. CASE n = 0
      <3>1. Upto([k \in 0..0 |-> First], 0)
        OBVIOUS
      <3> QED BY <2>3, <2>4, <3>1
    <2>5. CASE n > 0
      <3>1. n - 1 \in Nat /\ n - 1 < n
        BY <2>3, <2>5
      <3>2. PICK g : Upto(g, n - 1)
        BY <2>2, <3>1 DEF Bad
      <3>3. PICK h : h = [k \in 0..n |-> IF k = n THEN Then(g[n - 1], n) ELSE g[k]]
        OBVIOUS
      <3>4. \A k \in 0..n - 1 : g[k] = IF k = 0 THEN First ELSE Then(g[k - 1], k)
        BY <3>2
      <3>5. ASSUME NEW k \in 0..n PROVE h[k] = IF k = 0 THEN First ELSE Then(h[k - 1], k)
        <4>1. CASE k = 0
          <5>1. k \in 0..n - 1 /\ k # n
            BY <2>3, <2>5, <4>1
          <5> QED BY <3>3, <3>4, <4>1, <5>1
        <4>2. CASE k # 0 /\ k # n
          <5>1. k \in 0..n - 1 /\ k - 1 \in 0..n /\ k - 1 # n
            BY <2>3, <4>2
          <5>2. h[k] = g[k] /\ h[k - 1] = g[k - 1]
            BY <3>3, <4>2, <5>1
          <5> QED BY <3>4, <4>2, <5>1, <5>2
        <4>3. CASE k = n
          <5>1. n - 1 \in 0..n /\ n - 1 # n /\ k # 0 /\ n \in 0..n
            BY <2>3, <2>5, <4>3
          <5>2. h[n] = Then(g[n - 1], n) /\ h[n - 1] = g[n - 1]
            BY <3>3, <5>1
          <5> QED BY <4>3, <5>1, <5>2
        <4> QED BY <4>1, <4>2, <4>3
      <3>6. h = [k \in 0..n |-> h[k]]
        BY <3>3
      <3>7. Upto(h, n)
        BY <3>5, <3>6
      <3> QED BY <2>3, <3>7
    <2>6. n = 0 \/ n > 0
      BY <2>3
    <2> QED BY <2>4, <2>5, <2>6
  <1>2. Len(e.pending_reads) \in Nat
    OBVIOUS
  <1>3. \E f : Upto(f, Len(e.pending_reads))
    BY <1>1, <1>2
  <1> QED BY <1>3 DEF Readings, First, Then

\* What it does when they have been read.
Ended(u, due) ==
    IF u.fault # "none" THEN u
    ELSE flush(newkeys([u EXCEPT !.pending_reads = <<>>, !.pending_len = 0]), due)

\* EndRekey changes the keys when they have been read.
LEMMA EndRekeyIs ==
    ASSUME NEW e, NEW ok, NEW due, NEW a, a = CHOOSE g : Readings(e, ok, due, g)
    PROVE  EndRekey(e, ok, due) = Ended(a[Len(e.pending_reads)], due)
  BY SMTT(30) DEF EndRekey, Readings, Ended

\* The queued packets are read, then the keys change: the agreement is kept.
LEMMA LedEndRekey ==
    ASSUME NEW e, NEW o, NEW b, NEW q, q = e.pending_reads, NEW y, IsSeq(y), NEW t, t = q \o y, Flow(t), NEW B,
           NEW h, h = [e EXCEPT !.rekey = "None"], Mid(h, o, b, t, B), Shape(e), e.state # "None", e.rekey = "Keys",
           NEW ok, NEW due, NEW f, f = EndRekey(e, ok, due), f.fault = "none"
    PROVE  Led(e, f, o, b, y, B)
  <1>1. /\ DOMAIN h = Fields /\ IsSeq(q) /\ Flow(q) /\ NoKex(q)
    BY DEF Mid, EndOK, Shape, Flow
  <1>2. DOMAIN e = Fields
    BY <1>1
  <1>3. /\ h.role = e.role /\ h.kex = e.kex /\ h.kex = "None" /\ h.rekey = "None" /\ ~h.exchange
        /\ h.pending_reads = q /\ h.disconnected = e.disconnected /\ h.state = e.state
    BY <1>2 DEF Fields, Shape
  <1>4. PICK N : N = Len(q)
    OBVIOUS
  <1>5. N \in Nat /\ DOMAIN q = 1..N /\ IsSeq(t) /\ Len(t) = N + Len(y) /\ Len(y) \in Nat
    BY <1>1, <1>4, SeqFacts, CatFacts
  <1>6. \A i \in 1..N : t[i] = q[i]
    BY <1>1, <1>4, CatFacts
  <1>7. PICK a : a = CHOOSE g : Readings(e, ok, due, g)
    OBVIOUS
  <1>8. Readings(e, ok, due, a)
    BY <1>4, <1>5, <1>7, ReadingsExist
  <1>9. f = IF a[N].fault # "none" THEN a[N]
            ELSE flush(newkeys([a[N] EXCEPT !.pending_reads = <<>>, !.pending_len = 0]), due)
    <2>1. EndRekey(e, ok, due) = Ended(a[Len(e.pending_reads)], due)
      BY <1>7, EndRekeyIs, Zenon
    <2>2. f = Ended(a[N], due)
      BY <1>4, <2>1, Zenon
    <2> QED BY <2>2 DEF Ended
  <1>10. \A n \in 0..N : a[n] = IF n = 0 THEN flush_all_pending(h)
                                ELSE IF a[n - 1].fault # "none" THEN a[n - 1]
                                ELSE process_packet(a[n - 1], q[n], ok, due)
    BY <1>4, <1>8 DEF Readings
  <1> DEFINE Fair(n) == a[n].fault = "none" => Mid(a[n], o, b, Rest(t, n), B) /\ Kept(h, a[n])
             Bad == {n \in 0..N : ~Fair(n)}
  <1>11. ASSUME Bad # {} PROVE FALSE
    <2>1. Bad \subseteq Nat
      BY <1>5
    <2>2. PICK n \in Bad : \A m \in Bad : ~(m < n)
      BY <1>11, <2>1, LeastNat
    <2>3. n \in 0..N /\ ~Fair(n)
      BY <2>2
    <2>4. CASE n = 0
      <3>1. a[0] = flush_all_pending(h)
        <4>1. 0 \in 0..N
          BY <1>5
        <4> QED BY <1>10, <4>1
      <3>2. Fine(h, a[0], o, b, t, B)
        BY <3>1, FineFlushAll
      <3>3. Rest(t, 0) = t
        BY <1>1, RestEnds
      <3> QED BY <2>3, <2>4, <3>2, <3>3 DEF Fine, Good
    <2>5. CASE n # 0
      <3>1. n - 1 \in 0..N /\ n - 1 < n /\ n - 1 \in 0..Len(t) /\ n - 1 < Len(t) /\ (n - 1) + 1 = n /\ n \in 1..N
        BY <1>5, <2>3, <2>5
      <3>2. Fair(n - 1)
        BY <2>2, <3>1
      <3>3. PICK u : u = a[n - 1]
        OBVIOUS
      <3>4. PICK g : g = a[n]
        OBVIOUS
      <3>5. g = IF u.fault # "none" THEN u ELSE process_packet(u, q[n], ok, due)
        BY <1>10, <2>3, <2>5, <3>3, <3>4
      <3>6. g.fault = "none"
        BY <2>3, <3>4
      <3>7. u.fault = "none" /\ g = process_packet(u, q[n], ok, due)
        BY <3>5, <3>6
      <3>8. Mid(u, o, b, Rest(t, n - 1), B) /\ Kept(h, u)
        BY <3>2, <3>3, <3>7
      <3>9. Taken(Rest(t, n - 1), t[n], Rest(t, n))
        BY <3>1, RestTakes
      <3>10. q[n] = t[n] /\ t[n].msg \notin KexMsgs
        BY <1>1, <1>5, <1>6, <3>1 DEF NoKex
      <3>11. u.state # "None" /\ u.kex = "None" /\ u.rekey = "None" /\ ~u.exchange
        BY <1>3, <3>8 DEF Kept
      <3>12. g = process_packet(u, t[n], ok, due)
        BY <3>7, <3>10
      <3>13. Mid(g, o, b, Rest(t, n), B) /\ Turned(u, g)
        <4>1. PICK c : c = Rest(t, n - 1)
          OBVIOUS
        <4>2. PICK d : d = Rest(t, n)
          OBVIOUS
        <4>3. PICK p : p = t[n]
          OBVIOUS
        <4>4. Mid(u, o, b, c, B) /\ Taken(c, p, d)
          BY <3>8, <3>9, <4>1, <4>2, <4>3
        <4>5. p.msg \notin KexMsgs /\ g = process_packet(u, p, ok, due)
          BY <3>10, <3>12, <4>3
        <4>6. u.state # "None" /\ u.kex = "None" /\ g.fault = "none"
          BY <3>6, <3>11
        <4>7. Mid(g, o, b, d, B) /\ Turned(u, g)
          BY <4>4, <4>5, <4>6, TurnPacket
        <4> QED BY <4>2, <4>7
      <3>14. Kept(u, g)
        BY <3>11, <3>13 DEF Kept, Turned, Begun
      <3>15. Kept(h, g)
        BY <3>8, <3>14 DEF Kept
      <3> QED BY <2>3, <3>4, <3>13, <3>15
    <2> QED BY <2>4, <2>5
  <1>12. Fair(N)
    <2>1. N \in 0..N
      BY <1>5
    <2>2. N \notin Bad
      BY <1>11
    <2> HIDE DEF Fair
    <2> QED BY <2>1, <2>2
  <1>13. PICK u : u = a[N]
    OBVIOUS
  <1>14. u.fault = "none"
    BY <1>9, <1>13
  <1>15. Rest(t, N) = y
    BY <1>1, <1>4, RestEnds
  <1>16. Mid(u, o, b, y, B) /\ Kept(h, u)
    BY <1>12, <1>13, <1>14, <1>15
  <1>17. PICK k : k = newkeys([u EXCEPT !.pending_reads = <<>>, !.pending_len = 0])
    OBVIOUS
  <1>18. f = flush(k, due)
    BY <1>9, <1>13, <1>14, <1>17
  <1>19. /\ EndOK(u) /\ Flow(b) /\ Pact(u.role, u.channels, u.last_channel_id, Phase(u), o, b \o Going(u), y, B)
         /\ DOMAIN u = Fields
    BY <1>16 DEF Mid, EndOK
  <1>20. /\ Only(u, k, Inner \cup {"state"}) /\ k.out = u.out /\ k.write = u.write /\ k.state = u.state
         /\ k.kex = u.kex /\ k.rekey = u.rekey /\ k.exchange = TRUE /\ k.pending_reads = <<>>
         /\ k.disconnected = u.disconnected
    BY <1>17, <1>19 DEF newkeys, Only, Inner, Fields
  <1>21. /\ k.kex = "None" /\ k.rekey = "None" /\ k.state # "None" /\ k.state \in States
         /\ (k.state # "Authenticated" => DOMAIN u.channels = {}) /\ Phase(k) = Phase(u)
    BY <1>3, <1>16, <1>19, <1>20 DEF Kept, EndOK, Phase
  <1>22. Pact(u.role, u.channels, u.last_channel_id, Phase(k), o, b \o Going(u), y, B)
    BY <1>19, <1>21
  <1>23. Mid(k, o, b, y, B) /\ k.role = u.role
    <2>1. /\ EndOK(u) /\ Flow(b) /\ Only(u, k, Inner \cup {"state"}) /\ k.out = u.out /\ k.write = u.write
          /\ k.state \in States /\ (k.state # "Authenticated" => DOMAIN u.channels = {})
      BY <1>19, <1>20, <1>21
    <2> QED BY <1>22, <2>1, MidPhase
  <1>24. Flow(<<>>) /\ NoKex(<<>>)
    BY FlowNone DEF NoKex
  <1>25. Shape(k) /\ Ready(k)
    BY <1>20, <1>21, <1>24 DEF Shape, Ready
  <1>26. Mid(f, o, b, y, B) /\ Turned(k, f) /\ f.state = k.state
    BY <1>18, <1>23, <1>25, GoodFlush
  <1>27. Shape(f)
    BY <1>21, <1>25, <1>26, ShapeTurned
  <1>28. f.pending_reads = <<>> /\ f.role = e.role /\ f.disconnected = e.disconnected
    BY <1>3, <1>16, <1>20, <1>23, <1>26 DEF Turned, Kept
  <1>29. f.pending_reads \o y = y
    BY <1>28, CatNone
  <1> QED BY <1>26, <1>27, <1>28, <1>29 DEF Led

------------------------------------------------------------------------------
(* A packet is received *)

\* reply() of either side before encryption keeps the agreement.
LEMMA LedFirst ==
    ASSUME NEW e, NEW o, NEW b, NEW q, q = e.pending_reads, NEW p, NEW y, IsSeq(y), Flow(<<p>> \o y),
           NEW c, c = q \o (<<p>> \o y), NEW B, Mid(e, o, b, c, B), Shape(e), e.state = "None",
           NEW ok, NEW due, NEW f, f = reply(e, p, ok, due), f.fault = "none"
    PROVE  Led(e, f, o, b, y, B)
  <1>1. q = <<>> /\ e.kex # "None"
    BY DEF Shape
  <1>2. PICK u : u = <<p>> \o y
    OBVIOUS
  <1>3. IsSeq(u) /\ Taken(u, p, y)
    BY <1>2, CatTakes DEF Flow
  <1>4. c = u
    BY <1>1, <1>2, <1>3, CatNone
  <1>5. Taken(c, p, y)
    BY <1>3, <1>4
  <1>6. /\ Mid(f, o, b, y, B) /\ Shape(f) /\ f.pending_reads = <<>>
        /\ f.role = e.role /\ f.disconnected = e.disconnected
    <2>1. CASE e.role = "client"
      <3>1. f = client_kex(e, p, due)
        BY <1>1, <2>1 DEF reply
      <3> QED BY <1>5, <2>1, <3>1, LedClientKex
    <2>2. CASE e.role # "client"
      <3>1. f = server_kex(e, p)
        BY <2>2 DEF reply
      <3> QED BY <1>5, <2>2, <3>1, LedServerKex
    <2> QED BY <2>1, <2>2
  <1>7. f.pending_reads \o y = y
    BY <1>6, CatNone
  <1> QED BY <1>6, <1>7 DEF Led

\* A message of a key re-exchange, behind what is queued.
LEMMA KexComes ==
    ASSUME NEW q, Flow(q), NoKex(q), NEW p, NEW y, IsSeq(y), Flow(<<p>> \o y), p.msg \in KexMsgs,
           NEW c, c = q \o (<<p>> \o y)
    PROVE  FirstKex(c, Len(q) + 1, p, q \o y)
  <1>1. Dropped(c, Len(q) + 1, p, q \o y)
    BY CatDrops
  <1>2. PICK u : u = <<p>> \o y
    OBVIOUS
  <1>3. IsSeq(q) /\ IsSeq(u)
    BY <1>2 DEF Flow
  <1>4. Len(q) \in Nat /\ DOMAIN q = 1..Len(q)
    BY <1>3, SeqFacts
  <1>5. \A i \in 1..Len(q) : c[i] = q[i]
    BY <1>2, <1>3, CatFacts
  <1>6. (Len(q) + 1) - 1 = Len(q)
    BY <1>4
  <1>7. \A i \in 1..(Len(q) + 1) - 1 : c[i].msg \notin KexMsgs
    BY <1>4, <1>5, <1>6 DEF NoKex
  <1> QED BY <1>1, <1>7 DEF FirstKex

\* It is read.
LEMMA LedKex ==
    ASSUME NEW e, NEW o, NEW b, NEW q, q = e.pending_reads, NEW p, NEW y, IsSeq(y), Flow(<<p>> \o y),
           NEW c, c = q \o (<<p>> \o y), NEW B, Mid(e, o, b, c, B), Shape(e), e.state # "None", e.write = <<>>,
           p.msg \in KexMsgs, NEW ok, NEW due, NEW f, f = reply(e, p, ok, due), f.fault = "none"
    PROVE  Led(e, f, o, b, y, B)
  <1>1. e.kex = "None" /\ Flow(q) /\ NoKex(q)
    BY DEF Shape
  <1>2. PICK m : m = Len(q) + 1
    OBVIOUS
  <1>3. PICK t : t = q \o y
    OBVIOUS
  <1>4. FirstKex(c, m, p, t)
    BY <1>1, <1>2, <1>3, KexComes
  <1>5. f = IF e.role = "client" THEN client_read_encrypted(e, p, due) ELSE server_read_encrypted(e, p, ok, due)
    BY <1>1 DEF reply
  <1>6. CASE e.rekey # "Keys"
    <2>1. /\ Mid(f, o, b, t, B) /\ Shape(f) /\ f.pending_reads = e.pending_reads
          /\ f.role = e.role /\ f.disconnected = e.disconnected
      <3>1. CASE e.role = "client"
        <4>1. f = client_read_encrypted(e, p, due)
          BY <1>5, <3>1
        <4> QED BY <1>4, <1>6, <3>1, <4>1, LedClientRekey
      <3>2. CASE e.role # "client"
        <4>1. f = server_read_encrypted(e, p, ok, due)
          BY <1>5, <3>2
        <4> QED BY <1>4, <1>6, <3>2, <4>1, LedServerRekey
      <3> QED BY <3>1, <3>2
    <2>2. f.pending_reads \o y = t
      BY <1>3, <2>1
    <2> QED BY <2>1, <2>2 DEF Led
  <1>7. CASE e.rekey = "Keys"
    <2>1. /\ EndOK(e) /\ Flow(b) /\ Pact(e.role, e.channels, e.last_channel_id, Phase(e), o, b \o Going(e), c, B)
          /\ DOMAIN e = Fields /\ Phase(e) = "Keys" /\ e.state \in States
          /\ (e.state # "Authenticated" => DOMAIN e.channels = {})
      BY <1>1, <1>7 DEF Mid, EndOK, Phase
    <2>2. p.msg = "NEWKEYS" /\ Pact(e.role, e.channels, e.last_channel_id, "None", o, b \o Going(e), t, B)
      <3>1. CASE e.role = "client"
        BY <1>4, <2>1, <3>1, PactCKeys DEF FirstKex
      <3>2. CASE e.role # "client"
        BY <1>4, <2>1, <3>2, PactSKeys DEF FirstKex
      <3> QED BY <3>1, <3>2
    <2>3. PICK h : h = [e EXCEPT !.rekey = "None"]
      OBVIOUS
    <2>4. /\ Only(e, h, Inner \cup {"state"}) /\ h.out = e.out /\ h.write = e.write /\ h.state = e.state
          /\ h.kex = e.kex /\ h.rekey = "None"
      BY <2>1, <2>3 DEF Only, Inner, Fields
    <2>5. Phase(h) = "None"
      BY <1>1, <2>4 DEF Phase
    <2>6. Pact(e.role, e.channels, e.last_channel_id, Phase(h), o, b \o Going(e), t, B)
      BY <2>2, <2>5
    <2>7. h.state \in States /\ (h.state # "Authenticated" => DOMAIN e.channels = {})
      BY <2>1, <2>4
    <2>8. Mid(h, o, b, t, B)
      BY <2>1, <2>4, <2>6, <2>7, MidPhase
    <2>9. Flow(t)
      BY <1>4 DEF FirstKex, Dropped
    <2>10. PICK k : k = IF e.role = "client" THEN FALSE ELSE ok
      OBVIOUS
    <2>11. f = EndRekey(e, k, due)
      <3>1. CASE e.role = "client"
        BY <1>5, <1>7, <2>2, <2>10, <3>1 DEF client_read_encrypted
      <3>2. CASE e.role # "client"
        BY <1>5, <1>7, <2>2, <2>10, <3>2 DEF server_read_encrypted
      <3> QED BY <3>1, <3>2
    <2> QED BY <1>3, <1>7, <2>3, <2>8, <2>9, <2>11, LedEndRekey
  <1> QED BY <1>6, <1>7

\* Another packet while none runs.
LEMMA LedPlain ==
    ASSUME NEW e, NEW o, NEW b, NEW q, q = e.pending_reads, NEW p, NEW y, IsSeq(y), Flow(<<p>> \o y),
           NEW c, c = q \o (<<p>> \o y), NEW B, Mid(e, o, b, c, B), Shape(e), e.state # "None", e.rekey = "None",
           p.msg \notin KexMsgs, NEW ok, NEW due, NEW f, f = reply(e, p, ok, due), f.fault = "none"
    PROVE  Led(e, f, o, b, y, B)
  <1>1. q = <<>> /\ e.kex = "None" /\ p.msg # "KEXINIT"
    BY DEF Shape, KexMsgs
  <1>2. PICK u : u = <<p>> \o y
    OBVIOUS
  <1>3. IsSeq(u) /\ Taken(u, p, y)
    BY <1>2, CatTakes DEF Flow
  <1>4. c = u
    BY <1>1, <1>2, <1>3, CatNone
  <1>5. Taken(c, p, y)
    BY <1>3, <1>4
  <1>6. f = process_packet(e, p, ok, due)
    <2>1. CASE e.role = "client"
      <3>1. f = client_read_encrypted(e, p, due)
        BY <1>1, <2>1 DEF reply
      <3>2. f = client_process_packet(e, p)
        BY <1>1, <3>1 DEF client_read_encrypted
      <3> QED BY <2>1, <3>2 DEF process_packet
    <2>2. CASE e.role # "client"
      <3>1. f = server_read_encrypted(e, p, ok, due)
        BY <2>2 DEF reply
      <3>2. f = server_process_packet(e, p, ok, due)
        BY <1>1, <3>1 DEF server_read_encrypted
      <3> QED BY <2>2, <3>2 DEF process_packet
    <2> QED BY <2>1, <2>2
  <1>7. Mid(f, o, b, y, B) /\ Turned(e, f)
    BY <1>1, <1>5, <1>6, TurnPacket
  <1>8. f.state # "None" /\ f.pending_reads = <<>> /\ f.role = e.role /\ f.disconnected = e.disconnected
    BY <1>1, <1>7 DEF Turned
  <1>9. Shape(f)
    BY <1>7, <1>8, ShapeTurned
  <1>10. f.pending_reads \o y = y
    BY <1>8, CatNone
  <1> QED BY <1>7, <1>8, <1>9, <1>10 DEF Led

\* A packet goes to the end of a queue.
LEMMA CatLater ==
    ASSUME NEW q, IsSeq(q), NEW p, NEW y, IsSeq(y)
    PROVE  Append(q, p) \o y = q \o (<<p>> \o y)
  <1>1. PICK x : x = <<p>>
    OBVIOUS
  <1>2. IsSeq(x)
    BY <1>1, OneIs
  <1>3. (q \o x) \o y = q \o (x \o y)
    BY <1>2, CatAssoc
  <1>4. Append(q, p) = q \o x
    BY <1>1, AppendIs
  <1> QED BY <1>1, <1>3, <1>4

\* Another packet while one runs is kept for later, or ends the session.
LEMMA LedQueued ==
    ASSUME NEW e, NEW o, NEW b, NEW q, q = e.pending_reads, NEW p, NEW y, IsSeq(y), Flow(<<p>> \o y),
           NEW c, c = q \o (<<p>> \o y), NEW B, Mid(e, o, b, c, B), Shape(e), e.state # "None", e.rekey # "None",
           p.msg \notin KexMsgs, NEW ok, NEW due, NEW f, f = reply(e, p, ok, due), f.fault = "none"
    PROVE  Led(e, f, o, b, y, B)
  <1>1. e.kex = "None" /\ p.msg \notin {"KEXINIT", "KEX_ECDH_INIT", "KEX_ECDH_REPLY", "NEWKEYS"} /\ Phase(e) = e.rekey
    BY DEF Shape, KexMsgs, Phase
  <1>2. /\ EndOK(e) /\ Flow(b) /\ Pact(e.role, e.channels, e.last_channel_id, Phase(e), o, b \o Going(e), c, B)
        /\ DOMAIN e = Fields /\ e.state \in States
        /\ (e.state # "Authenticated" => DOMAIN e.channels = {})
    BY DEF Mid, EndOK
  <1>3. f = QueueRead(e, p)
    <2>1. CASE e.role = "client"
      <3>1. f = client_read_encrypted(e, p, due)
        BY <1>1, <2>1 DEF reply
      <3>2. e.rekey \in {"Init", "DhDone", "Keys"}
        BY <1>1, <1>2, <2>1, PactPhases
      <3>3. CASE e.rekey = "Init"
        BY <1>1, <3>1, <3>3 DEF client_read_encrypted
      <3>4. CASE e.rekey = "DhDone"
        <4>1. f = Failed(e, "Inconsistent")
          BY <1>1, <3>1, <3>4 DEF client_read_encrypted
        <4> QED BY <1>2, <4>1, FailedIs
      <3>5. CASE e.rekey = "Keys"
        <4>1. f = Failed(e, "Kex")
          BY <1>1, <3>1, <3>5 DEF client_read_encrypted
        <4> QED BY <1>2, <4>1, FailedIs
      <3> QED BY <3>2, <3>3, <3>4, <3>5
    <2>2. CASE e.role # "client"
      <3>1. f = server_read_encrypted(e, p, ok, due)
        BY <2>2 DEF reply
      <3>2. e.rekey \in {"Init", "Dh", "Keys"}
        BY <1>1, <1>2, <2>2, PactPhases
      <3>3. CASE e.rekey = "Init"
        BY <1>1, <3>1, <3>3 DEF server_read_encrypted
      <3>4. CASE e.rekey = "Dh"
        <4>1. f = Failed(e, "panic")
          BY <1>1, <3>1, <3>4 DEF server_read_encrypted
        <4> QED BY <1>2, <4>1, FailedIs
      <3>5. CASE e.rekey = "Keys"
        <4>1. f = Failed(e, "Kex")
          BY <1>1, <3>1, <3>5 DEF server_read_encrypted
        <4> QED BY <1>2, <4>1, FailedIs
      <3> QED BY <3>2, <3>3, <3>4, <3>5
    <2> QED BY <2>1, <2>2
  <1>4. PICK l : l = e.pending_len + PacketLen(p)
    OBVIOUS
  <1>39. PICK g : g = [e EXCEPT !.pending_len = @ + PacketLen(p)]
    OBVIOUS
  <1>40. /\ g = [e EXCEPT !.pending_len = @ + PacketLen(p)] /\ g.pending_len = l
         /\ g = [e EXCEPT !.pending_len = l] /\ DOMAIN g = Fields
    BY <1>2, <1>4, <1>39 DEF Fields
  <1>5. f = [e EXCEPT !.pending_reads = Append(q, p), !.pending_len = l]
    <2>1. CASE l > 2 * WindowSize
      <3>1. f = Failed(g, "Pending")
        BY <1>3, <1>40, <2>1 DEF QueueRead
      <3> QED BY <1>40, <3>1, FailedIs
    <2>2. CASE ~(l > 2 * WindowSize)
      <3>1. f = [g EXCEPT !.pending_reads = Append(@, p)]
        BY <1>3, <1>40, <2>2 DEF QueueRead
      <3> QED BY <1>2, <1>4, <1>40, <3>1 DEF Fields
    <2> QED BY <2>1, <2>2
  <1>6. /\ Only(e, f, Inner \cup {"state"}) /\ f.out = e.out /\ f.write = e.write /\ f.state = e.state
        /\ f.kex = e.kex /\ f.rekey = e.rekey /\ f.exchange = e.exchange
        /\ f.pending_reads = Append(q, p) /\ f.disconnected = e.disconnected
    BY <1>2, <1>5 DEF Only, Inner, Fields
  <1>7. Phase(f) = Phase(e)
    BY <1>6 DEF Phase
  <1>8. Pact(e.role, e.channels, e.last_channel_id, Phase(f), o, b \o Going(e), c, B)
    BY <1>2, <1>7
  <1>9. f.state \in States /\ (f.state # "Authenticated" => DOMAIN e.channels = {})
    BY <1>2, <1>6
  <1>10. Mid(f, o, b, c, B) /\ f.role = e.role
    <2>1. EndOK(e) /\ Flow(b) /\ Only(e, f, Inner \cup {"state"}) /\ f.out = e.out /\ f.write = e.write
      BY <1>2, <1>6
    <2> QED BY <1>8, <1>9, <2>1, MidPhase
  <1>11. PICK x : x = <<p>>
    OBVIOUS
  <1>12. Taken(x \o y, p, y) /\ PacketOK(p)
    BY <1>11, CatTakes DEF Taken
  <1>13. Flow(x) /\ IsSeq(x) /\ Flow(q) /\ IsSeq(q) /\ NoKex(q)
    BY <1>11, <1>12, FlowOne DEF Shape, Flow
  <1>14. f.pending_reads = q \o x
    BY <1>6, <1>11, <1>13, AppendIs
  <1>15. Append(q, p) \o y = q \o (<<p>> \o y)
    <2>1. IsSeq(q)
      BY <1>13
    <2>2. \A z : IsSeq(z) => Append(z, p) \o y = z \o (<<p>> \o y)
      BY CatLater
    <2> QED BY <2>1, <2>2, Zenon
  <1>16. f.pending_reads \o y = c
    BY <1>6, <1>15
  <1>17. Grown(q, x, q \o x) /\ Flow(q \o x)
    <2>1. Flow(q) /\ Flow(x)
      BY <1>13
    <2>2. Grown(q, x, q \o x)
      BY <2>1, CatGrows
    <2> QED BY <2>2 DEF Grown
  <1>18. NoKex(x)
    <2>1. Len(x) = 1 /\ x[1] = p /\ DOMAIN x = 1..Len(x)
      BY <1>11, <1>13, OneIs, SeqFacts
    <2>2. \A i \in DOMAIN x : x[i] = p
      BY <2>1
    <2> QED BY <2>2 DEF NoKex
  <1>19. NoKex(q \o x)
    BY <1>13, <1>17, <1>18, KexGrown
  <1>20. Shape(f)
    <2>1. Flow(f.pending_reads) /\ NoKex(f.pending_reads)
      BY <1>14, <1>17, <1>19
    <2> QED BY <1>6, <2>1 DEF Shape
  <1> QED BY <1>6, <1>10, <1>16, <1>20 DEF Led

\* Any packet that is received keeps the agreement.
LEMMA LedRead ==
    ASSUME NEW e, NEW o, NEW b, NEW q, q = e.pending_reads, NEW p, NEW y, IsSeq(y), Flow(<<p>> \o y),
           NEW c, c = q \o (<<p>> \o y), NEW B, Mid(e, o, b, c, B), Shape(e), e.write = <<>>,
           NEW w, w.p = p, NEW ok, NEW due, NEW f, f = Receive(e, w, ok, due), f.fault = "none"
    PROVE  Led(e, f, o, b, y, B)
  <1>1. DOMAIN e = Fields
    BY DEF Mid, EndOK
  <1>2. f = reply(e, p, ok, due)
    <2>1. CASE w.keys # e.cipher
      <3>1. f = Failed(e, "keys")
        BY <2>1 DEF Receive
      <3> QED BY <1>1, <3>1, FailedIs
    <2>2. CASE w.keys = e.cipher /\ w.z # e.decompress
      <3>1. f = Failed(e, "compression")
        BY <2>2 DEF Receive
      <3> QED BY <1>1, <3>1, FailedIs
    <2>3. CASE w.keys = e.cipher /\ w.z = e.decompress
      <3>1. f = IF w.p.msg = "DISCONNECT" THEN Failed(e, "closed") ELSE reply(e, w.p, ok, due)
        BY <2>3 DEF Receive
      <3>2. CASE w.p.msg = "DISCONNECT"
        <4>1. f = Failed(e, "closed")
          BY <3>1, <3>2
        <4> QED BY <1>1, <4>1, FailedIs
      <3> QED BY <3>1, <3>2
    <2> QED BY <2>1, <2>2, <2>3
  <1>3. CASE e.state = "None"
    BY <1>2, <1>3, LedFirst
  <1>4. CASE e.state # "None" /\ p.msg \in KexMsgs
    BY <1>2, <1>4, LedKex
  <1>5. CASE e.state # "None" /\ p.msg \notin KexMsgs /\ e.rekey = "None"
    BY <1>2, <1>5, LedPlain
  <1>6. CASE e.state # "None" /\ p.msg \notin KexMsgs /\ e.rekey # "None"
    BY <1>2, <1>6, LedQueued
  <1> QED BY <1>3, <1>4, <1>5, <1>6

\* The end of an iteration keeps the agreement.
LEMMA LedEnd ==
    ASSUME NEW e, NEW o, NEW b, NEW y, NEW B, NEW f, Led(e, f, o, b, y, B), NEW due,
           NEW g, g = EndIteration(f, due), g.fault = "none"
    PROVE  Led(e, g, o, b, y, B) /\ g.write = <<>>
  <1>1. PICK k : k = flush(f, due)
    OBVIOUS
  <1>2. g = IF f.fault # "none" THEN f
            ELSE IF k.role = "client" /\ k.state = "InitCompression"
            THEN [k EXCEPT !.state = "Authenticated", !.compress = k.zlib] ELSE k
    BY <1>1 DEF EndIteration
  <1>3. PICK c : c = f.pending_reads \o y
    OBVIOUS
  <1>4. Mid(f, o, b, c, B) /\ Shape(f) /\ Ready(f) /\ f.role = e.role /\ f.disconnected = e.disconnected
    BY <1>3 DEF Led, Ready, Shape
  <1>5. /\ Mid(k, o, b, c, B) /\ Turned(f, k) /\ k.fault = f.fault /\ k.state = f.state
        /\ (f.state # "None" => k.write = <<>>) /\ (f.state = "None" => k = f)
    BY <1>1, <1>4, GoodFlush
  <1>6. k.write = <<>>
    BY <1>4, <1>5 DEF Shape
  <1>7. Shape(k)
    BY <1>4, <1>5, <1>6, ShapeTurned
  <1>8. k.pending_reads = f.pending_reads /\ k.role = e.role /\ k.disconnected = e.disconnected
    BY <1>4, <1>5 DEF Turned
  <1>9. CASE k.role = "client" /\ k.state = "InitCompression"
    <2>1. g = [k EXCEPT !.state = "Authenticated", !.compress = k.zlib]
      BY <1>2, <1>9
    <2>2. DOMAIN k = Fields
      BY <1>5 DEF Mid, EndOK
    <2>3. Only(k, g, AuthFields) /\ g.state = "Authenticated" /\ g.write = k.write
      BY <2>1, <2>2 DEF Only, Fields, AuthFields
    <2>4. g.state \in States \ {"None"} /\ k.state # "None"
      BY <1>9, <2>3 DEF States
    <2>5. Good(k, g, o, b, c, B)
      BY <1>5, <2>3, <2>4, GoodAuth
    <2>6. Mid(g, o, b, c, B) /\ Kept(k, g)
      BY <2>5 DEF Good
    <2>7. Shape(g)
      BY <1>7, <2>3, <2>4, <2>6 DEF Shape, Kept
    <2>8. g.pending_reads = f.pending_reads /\ g.role = e.role /\ g.disconnected = e.disconnected
      BY <1>8, <2>6 DEF Kept
    <2>9. c = g.pending_reads \o y
      BY <1>3, <2>8
    <2> QED BY <1>6, <2>3, <2>6, <2>7, <2>8, <2>9 DEF Led
  <1>10. CASE ~(k.role = "client" /\ k.state = "InitCompression")
    <2>1. g = k
      BY <1>2, <1>10
    <2>2. c = k.pending_reads \o y
      BY <1>3, <1>8
    <2> QED BY <1>5, <1>6, <1>7, <1>8, <2>1, <2>2 DEF Led
  <1> QED BY <1>9, <1>10

------------------------------------------------------------------------------
(* The applications *)

\* A message of the client's application.
MsgOK(m) == /\ m.t \in {"Authenticate", "ChannelOpen", "Data", "Eof", "Request", "Global", "Disconnect"}
            /\ m.t = "Data" => IsSeq(m.data)

\* Messages that make an end use up a channel number.
Call(m) == IF m.t = "ChannelOpen" \/ (m.t = "Global" /\ m.req = "tcpip-forward") THEN 1 ELSE 0

\* A channel is asked for.
LEMMA TakeOpen ==
    ASSUME NEW e, NEW o, NEW b, NEW c, NEW B, Mid(e, o, b, c, B), e.role = "client", B + 1 < IdSpace,
           NEW m, m.t = "ChannelOpen", NEW f, f = TakeMsg(e, m), f.fault = "none"
    PROVE  Good(e, f, o, b, c, B + 1)
  <1>1. f = channel_open(e, m.type)
    <2>1. CASE m.type = "session"
      BY <2>1 DEF TakeMsg, channel_open_session
    <2>2. CASE m.type = "x11"
      BY <2>2 DEF TakeMsg, channel_open_x11
    <2>3. CASE m.type = "direct-tcpip"
      BY <2>3 DEF TakeMsg, channel_open_direct_tcpip
    <2>4. CASE m.type \notin {"session", "x11", "direct-tcpip"}
      BY <2>4 DEF TakeMsg
    <2> QED BY <2>1, <2>2, <2>3, <2>4
  <1> QED BY <1>1, GoodOpen

\* A request on a channel.
LEMMA TakeRequest ==
    ASSUME NEW e, NEW o, NEW b, NEW c, NEW B, Mid(e, o, b, c, B),
           NEW m, m.t = "Request", NEW f, f = TakeMsg(e, m)
    PROVE  Good(e, f, o, b, c, B)
  <1>1. \E w : f = channel_request(e, m.ch, m.req, w)
    <2>0. f = CASE m.req = "pty-req" -> request_pty(e, m.ch, m.want_reply)
              [] m.req = "x11-req" -> request_x11(e, m.ch, m.want_reply)
              [] m.req = "env" -> set_env(e, m.ch, m.want_reply)
              [] m.req = "shell" -> request_shell(e, m.ch, m.want_reply)
              [] m.req = "exec" -> exec(e, m.ch, m.want_reply)
              [] m.req = "subsystem" -> request_subsystem(e, m.ch, m.want_reply)
              [] m.req = "signal" -> signal(e, m.ch)
              [] m.req = "window-change" -> window_change(e, m.ch)
              [] OTHER -> channel_request(e, m.ch, m.req, m.want_reply)
      BY DEF TakeMsg
    <2>1. CASE m.req = "pty-req"
      BY <2>0, <2>1 DEF request_pty
    <2>2. CASE m.req = "x11-req"
      BY <2>0, <2>2 DEF request_x11
    <2>3. CASE m.req = "env"
      BY <2>0, <2>3 DEF set_env
    <2>4. CASE m.req = "shell"
      BY <2>0, <2>4 DEF request_shell
    <2>5. CASE m.req = "exec"
      BY <2>0, <2>5 DEF exec
    <2>6. CASE m.req = "subsystem"
      BY <2>0, <2>6 DEF request_subsystem
    <2>7. CASE m.req = "signal"
      BY <2>0, <2>7 DEF signal
    <2>8. CASE m.req = "window-change"
      BY <2>0, <2>8 DEF window_change
    <2>9. CASE m.req \notin {"pty-req", "x11-req", "env", "shell", "exec", "subsystem", "signal", "window-change"}
      BY <2>0, <2>9
    <2> QED BY <2>1, <2>2, <2>3, <2>4, <2>5, <2>6, <2>7, <2>8, <2>9
  <1>2. PICK w : f = channel_request(e, m.ch, m.req, w)
    BY <1>1
  <1> QED BY <1>2, GoodRequest

\* A global request.
LEMMA TakeGlobal ==
    ASSUME NEW e, NEW o, NEW b, NEW c, NEW B, Mid(e, o, b, c, B), e.role = "client", NEW m, m.t = "Global",
           B + Call(m) < IdSpace, NEW f, f = TakeMsg(e, m)
    PROVE  Good(e, f, o, b, c, B + Call(m))
  <1>1. CASE m.req = "tcpip-forward"
    <2>1. PICK p : p = [msg |-> "GLOBAL_REQUEST", req |-> "tcpip-forward"]
      OBVIOUS
    <2>2. f = push_packet(e, p)
      BY <1>1, <2>1 DEF TakeMsg, tcpip_forward
    <2>3. Calm(p) /\ Opening(p) = 1
      BY <2>1 DEF Calm, KexMsgs, Opening
    <2>4. Call(m) = 1
      BY <1>1 DEF Call
    <2> QED BY <2>2, <2>3, <2>4, GoodAsk
  <1>2. CASE m.req # "tcpip-forward"
    <2>1. PICK p : p = [msg |-> "GLOBAL_REQUEST", req |-> "cancel-tcpip-forward"]
      OBVIOUS
    <2>2. f = push_packet(e, p)
      BY <1>2, <2>1 DEF TakeMsg, cancel_tcpip_forward
    <2>3. Calm(p) /\ Opening(p) = 0
      BY <2>1 DEF Calm, KexMsgs, Opening
    <2>4. Call(m) = 0
      BY <1>2 DEF Call
    <2>5. B \in Nat
      BY PactNumbers DEF Mid
    <2>6. B + Call(m) = B
      BY <2>4, <2>5
    <2>7. Good(e, push_packet(e, p), o, b, c, B)
      BY <2>3, GoodPush
    <2> QED BY <2>2, <2>6, <2>7
  <1> QED BY <1>1, <1>2

\* A message of the client's application is taken, other than the last.
LEMMA GoodTake ==
    ASSUME NEW e, NEW o, NEW b, NEW c, NEW B, Mid(e, o, b, c, B), e.role = "client", e.write = <<>>,
           e.state # "None", NEW m, MsgOK(m), B + Call(m) < IdSpace,
           m.t # "Disconnect", NEW f, f = TakeMsg(e, m), f.fault = "none"
    PROVE  Good(e, f, o, b, c, B + Call(m))
  <1>1. B \in Nat /\ DOMAIN e = Fields
    BY PactNumbers DEF Mid, EndOK
  <1>2. m.t \notin {"ChannelOpen", "Global"} => Call(m) = 0
    BY DEF Call
  <1>3. m.t \notin {"ChannelOpen", "Global"} => B + Call(m) = B
    BY <1>1, <1>2
  <1>4. CASE m.t = "Authenticate"
    <2>1. f = write_auth_request_if_needed(e, m.method)
      BY <1>4 DEF TakeMsg
    <2>2. Good(e, f, o, b, c, B)
      BY <2>1, GoodAuthRequest
    <2> QED BY <1>3, <1>4, <2>2
  <1>5. CASE m.t = "ChannelOpen"
    <2>1. Call(m) = 1
      BY <1>5 DEF Call
    <2>2. B + 1 < IdSpace
      BY <2>1
    <2>3. Good(e, f, o, b, c, B + 1)
      BY <1>5, <2>2, TakeOpen
    <2> QED BY <2>1, <2>3
  <1>6. CASE m.t = "Data"
    <2>1. f = data(e, m.ch, m.data) /\ IsSeq(m.data)
      BY <1>6 DEF TakeMsg, MsgOK
    <2>2. Good(e, f, o, b, c, B)
      BY <2>1, GoodData
    <2> QED BY <1>3, <1>6, <2>2
  <1>7. CASE m.t = "Eof"
    <2>1. f = byte(e, m.ch, "CHANNEL_EOF")
      BY <1>7 DEF TakeMsg
    <2>2. Good(e, f, o, b, c, B)
      BY <2>1, GoodByte
    <2> QED BY <1>3, <1>7, <2>2
  <1>8. CASE m.t = "Request"
    <2>1. Good(e, f, o, b, c, B)
      BY <1>8, TakeRequest
    <2> QED BY <1>3, <1>8, <2>1
  <1>9. CASE m.t = "Global"
    BY <1>9, TakeGlobal
  <1> QED BY <1>4, <1>5, <1>6, <1>7, <1>8, <1>9 DEF MsgOK

\* An operation of the server's application.
LEMMA GoodServe ==
    ASSUME NEW e, NEW o, NEW b, NEW c, NEW B, Mid(e, o, b, c, B), NEW op, NEW ch, NEW buf, IsSeq(buf),
           op.op \in {"data", "extended_data", "eof", "close", "success", "xon_xoff",
                      "exit_status", "exit_signal"},
           NEW f, f = ServerOp(e, op, ch, buf), f.fault = "none"
    PROVE  Good(e, f, o, b, c, B)
  <1>1. CASE op.op = "data"
    <2>1. f = data(e, ch, buf)
      BY <1>1 DEF ServerOp
    <2> QED BY <2>1, GoodData
  <1>2. CASE op.op = "extended_data"
    <2>1. f = extended_data(e, ch, 1, buf)
      BY <1>2 DEF ServerOp
    <2> QED BY <2>1, GoodExtendedData
  <1>3. CASE op.op = "eof"
    <2>1. f = byte(e, ch, "CHANNEL_EOF")
      BY <1>3 DEF ServerOp
    <2> QED BY <2>1, GoodByte
  <1>4. CASE op.op = "close"
    <2>1. f = byte(e, ch, "CHANNEL_CLOSE")
      BY <1>4 DEF ServerOp
    <2> QED BY <2>1, GoodByte
  <1>5. CASE op.op = "success"
    <2>1. f = channel_reply(e, ch, "CHANNEL_SUCCESS")
      BY <1>5 DEF ServerOp, channel_success
    <2> QED BY <2>1, GoodReply
  <1>7. CASE op.op = "xon_xoff"
    <2>1. f = channel_request(e, ch, "xon-xoff", FALSE)
      BY <1>7 DEF ServerOp, xon_xoff_request
    <2> QED BY <2>1, GoodRequest
  <1>8. CASE op.op = "exit_status"
    <2>1. f = channel_request(e, ch, "exit-status", FALSE)
      BY <1>8 DEF ServerOp, exit_status_request
    <2> QED BY <2>1, GoodRequest
  <1>9. CASE op.op = "exit_signal"
    <2>1. f = channel_request(e, ch, "exit-signal", FALSE)
      BY <1>9 DEF ServerOp, exit_signal_request
    <2> QED BY <2>1, GoodRequest
  <1> QED BY <1>1, <1>2, <1>3, <1>4, <1>5, <1>7, <1>8, <1>9

\* The end after such an operation is led.
LEMMA LedGood ==
    ASSUME NEW e, NEW o, NEW b, NEW y, NEW B, NEW f, Good(e, f, o, b, e.pending_reads \o y, B), Shape(e),
           e.state # "None"
    PROVE  Led(e, f, o, b, y, B)
  <1>1. f.pending_reads = e.pending_reads
    BY DEF Good, Kept
  <1>2. f.pending_reads \o y = e.pending_reads \o y
    BY <1>1
  <1>3. Shape(f)
    BY DEF Good, Kept, Shape
  <1> QED BY <1>2, <1>3 DEF Good, Kept, Led

\* Messages that make an end use up a number, in a queue.
Calls(q) == Sum([i \in DOMAIN q |-> Call(q[i])])

\* Their numbers add up.
LEMMA CallsCat ==
    ASSUME NEW s, IsSeq(s), NEW t, IsSeq(t)
    PROVE  /\ Calls(s) \in Nat /\ Calls(t) \in Nat
           /\ Calls(s \o t) = Calls(s) + Calls(t)
  <1> DEFINE a == [i \in DOMAIN s |-> Call(s[i])]
             b == [i \in DOMAIN t |-> Call(t[i])]
             ab == [i \in DOMAIN (s \o t) |-> Call((s \o t)[i])]
  <1>2. /\ Len(s) \in Nat /\ Len(t) \in Nat /\ DOMAIN s = 1..Len(s) /\ DOMAIN t = 1..Len(t)
        /\ Len(s \o t) = Len(s) + Len(t) /\ DOMAIN (s \o t) = 1..Len(s) + Len(t)
        /\ \A i \in 1..Len(s) : (s \o t)[i] = s[i]
        /\ \A i \in 1..Len(t) : (s \o t)[Len(s) + i] = t[i]
    BY CatAll
  <1>3. \A m : Call(m) \in Nat
    BY DEF Call
  <1>4. a \in Seq(Nat) /\ b \in Seq(Nat) /\ Len(a) = Len(s) /\ Len(b) = Len(t)
    BY <1>2, <1>3
  <1>5. DOMAIN ab = DOMAIN (a \o b)
    BY <1>2, <1>4
  <1>6. ASSUME NEW i \in DOMAIN ab PROVE ab[i] = (a \o b)[i]
    <2>1. i \in 1..Len(s) + Len(t)
      BY <1>2
    <2>2. CASE i <= Len(s)
      BY <1>2, <1>4, <2>1, <2>2
    <2>3. CASE i > Len(s)
      <3>1. i - Len(s) \in 1..Len(t) /\ i = Len(s) + (i - Len(s))
        BY <1>2, <2>1, <2>3
      <3>2. (s \o t)[i] = t[i - Len(s)]
        BY <1>2, <3>1
      <3>3. (a \o b)[i] = b[i - Len(s)]
        BY <1>2, <1>4, <2>1, <2>3, <3>1
      <3> QED BY <1>2, <3>1, <3>2, <3>3
    <2> QED BY <1>2, <2>1, <2>2, <2>3
  <1>7. a \o b \in Seq(Nat)
    BY <1>4
  <1>8. ab = a \o b
    <2>1. ab = [i \in DOMAIN ab |-> ab[i]] /\ a \o b = [i \in DOMAIN (a \o b) |-> (a \o b)[i]]
      BY <1>7
    <2> QED BY <1>5, <1>6, <2>1, Zenon
  <1>9. Calls(s) = Sum(a) /\ Calls(t) = Sum(b) /\ Calls(s \o t) = Sum(ab)
    BY DEF Calls
  <1> HIDE DEF a, b, ab
  <1>10. Sum(a) \in Nat /\ Sum(b) \in Nat /\ Sum(a \o b) = Sum(a) + Sum(b)
    BY <1>4, SumType, SumConcat
  <1> QED BY <1>8, <1>9, <1>10

\* One message.
LEMMA CallsOne ==
    ASSUME NEW m
    PROVE  Calls(<<m>>) = Call(m) /\ Calls(<<>>) = 0 /\ Call(m) \in {0, 1}
  <1>1. Call(m) \in {0, 1} /\ Call(m) \in Nat
    BY DEF Call
  <1>2. [i \in DOMAIN <<m>> |-> Call(<<m>>[i])] = <<Call(m)>>
    OBVIOUS
  <1>3. [i \in DOMAIN <<>> |-> Call(<<>>[i])] = <<>>
    OBVIOUS
  <1> QED BY <1>1, <1>2, <1>3, SumOne DEF Calls

\* A message is sent.
LEMMA CallsSent ==
    ASSUME NEW q, IsSeq(q), NEW m
    PROVE  /\ IsSeq(Append(q, m)) /\ Calls(q) \in Nat /\ Call(m) \in {0, 1}
           /\ Calls(Append(q, m)) = Calls(q) + Call(m)
           /\ \A i \in DOMAIN Append(q, m) : Append(q, m)[i] = m \/ (i \in DOMAIN q /\ Append(q, m)[i] = q[i])
  <1>1. PICK x : x = <<m>>
    OBVIOUS
  <1>2. IsSeq(x) /\ Len(x) = 1 /\ x[1] = m
    BY <1>1, OneIs
  <1>3. Append(q, m) = q \o x
    BY <1>1, AppendIs
  <1>4. IsSeq(q) /\ IsSeq(x)
    BY <1>2
  <1>5. Calls(q) \in Nat /\ Calls(q \o x) = Calls(q) + Calls(x) /\ IsSeq(q \o x)
    BY <1>4, CallsCat, CatFacts
  <1>6. Calls(x) = Call(m) /\ Call(m) \in {0, 1}
    BY <1>1, CallsOne
  <1>7. /\ Len(q) \in Nat /\ Len(x) \in Nat /\ DOMAIN q = 1..Len(q) /\ DOMAIN x = 1..Len(x)
        /\ Len(q \o x) = Len(q) + Len(x) /\ DOMAIN (q \o x) = 1..Len(q) + Len(x)
        /\ \A i \in 1..Len(q) : (q \o x)[i] = q[i]
        /\ \A i \in 1..Len(x) : (q \o x)[Len(q) + i] = x[i]
    BY <1>4, CatAll
  <1>8. ASSUME NEW i \in DOMAIN (q \o x) PROVE (q \o x)[i] = m \/ (i \in DOMAIN q /\ (q \o x)[i] = q[i])
    <2>1. CASE i \in 1..Len(q)
      BY <1>7, <2>1
    <2>2. CASE i \notin 1..Len(q)
      <3>1. i = Len(q) + 1 /\ 1 \in 1..Len(x)
        BY <1>2, <1>7, <2>2
      <3> QED BY <1>2, <1>7, <3>1
    <2> QED BY <2>1, <2>2
  <1> QED BY <1>3, <1>5, <1>6, <1>8

\* A message is taken.
LEMMA CallsTaken ==
    ASSUME NEW q, IsSeq(q), q # <<>>
    PROVE  /\ IsSeq(Tail(q)) /\ Calls(Tail(q)) \in Nat /\ Call(Head(q)) \in {0, 1}
           /\ Calls(q) = Call(Head(q)) + Calls(Tail(q))
           /\ Head(q) = q[1] /\ 1 \in DOMAIN q
           /\ \A i \in DOMAIN Tail(q) : i + 1 \in DOMAIN q /\ Tail(q)[i] = q[i + 1]
  <1>1. PICK m : m = Head(q)
    OBVIOUS
  <1>2. PICK t : t = Tail(q)
    OBVIOUS
  <1>3. PICK x : x = <<m>>
    OBVIOUS
  <1>4. /\ IsSeq(t) /\ q = x \o t /\ m = q[1] /\ Len(q) >= 1 /\ Len(t) = Len(q) - 1
        /\ \A i \in 1..Len(q) - 1 : t[i] = q[i + 1]
    BY <1>1, <1>2, <1>3, TailIs
  <1>5. IsSeq(x)
    BY <1>3, OneIs
  <1>6. Calls(t) \in Nat /\ Calls(x \o t) = Calls(x) + Calls(t)
    <2>1. IsSeq(x) /\ IsSeq(t)
      BY <1>4, <1>5
    <2> QED BY <2>1, CallsCat
  <1>7. Calls(x) = Call(m) /\ Call(m) \in {0, 1}
    BY <1>3, CallsOne
  <1>8. Len(q) \in Nat /\ DOMAIN q = 1..Len(q) /\ DOMAIN t = 1..Len(t)
    BY <1>4, SeqFacts
  <1>9. \A i \in DOMAIN t : i + 1 \in DOMAIN q /\ t[i] = q[i + 1]
    BY <1>4, <1>8
  <1>10. 1 \in DOMAIN q
    BY <1>4, <1>8
  <1> QED BY <1>1, <1>2, <1>4, <1>6, <1>7, <1>9, <1>10

------------------------------------------------------------------------------
(* The inductive invariant *)

\* An end between iterations.
SideOK(s) ==
    /\ EndOK(ep[s]) /\ ep[s].role = s /\ Shape(ep[s])
    /\ ep[s].write = <<>> /\ ep[s].out = <<>>
    /\ IsSeq(wire[s]) /\ Flow(Plain(wire[s]))

\* The agreement of the two.
Joint(B) ==
    World(ep.client.channels, ep.client.last_channel_id, Phase(ep.client),
          ep.server.channels, ep.server.last_channel_id, Phase(ep.server),
          InFlight("client"), InFlight("server"), B)

\* The operations that the client's application has begun.
Ops == app.pc + (IF app.phase = "run" THEN 0 ELSE 1)

\* The application's state.
AppIs(a) ==
    /\ DOMAIN a = {"pc", "phase", "open", "done", "taken", "window", "seen"}
    /\ a.pc \in Nat \ {0} /\ a.pc <= Len(plan.client) + 1
    /\ a.phase # "run" => a.pc <= Len(plan.client)
    /\ a.done \in Int
    /\ IsSeq(a.open) /\ \A i \in DOMAIN a.open : a.open[i] \in 0..IdSpace - 1
    /\ a.window \in [0..IdSpace - 1 -> Int]

AppOK == AppIs(app)

MsgsOK == IsSeq(msgs) /\ \A i \in DOMAIN msgs : MsgOK(msgs[i])

Both == Running("client") /\ Running("server")

\* The inductive invariant: while both sessions run, they are well formed,
\* agree, and have a number for every channel that can still be opened.
SshInv ==
    /\ plan \in Plans /\ srvApp \in Nat /\ DOMAIN ep = Sides /\ DOMAIN wire = Sides
    /\ Both => /\ SideOK("client") /\ SideOK("server") /\ AppOK /\ MsgsOK
               /\ \E B : Joint(B) /\ B + Calls(msgs) <= Ops

\* It implies that the windows agree.
LEMMA WindowsFollow == SshInv => WindowsAgree
  <1> SUFFICES ASSUME SshInv, NEW q \in Pairs, NEW s \in Sides, Running("client"), Running("server")
               PROVE  LET own   == IF s = "client" THEN q[1] ELSE q[2]
                          other == IF s = "client" THEN q[2] ELSE q[1]
                      IN  ep[s].channels[own].recipient_window_size + DataFor(other, InFlight(s))
                            + CreditFor(own, InFlight(Peer(s)))
                          = ep[Peer(s)].channels[other].sender_window_size
    BY DEF WindowsAgree
  <1>1. PICK B : Joint(B)
    BY DEF SshInv, Both
  <1>2. PICK CT : CT = ep.client.channels
    OBVIOUS
  <1>3. PICK ST : ST = ep.server.channels
    OBVIOUS
  <1>4. PICK cs : cs = InFlight("client")
    OBVIOUS
  <1>5. PICK sc : sc = InFlight("server")
    OBVIOUS
  <1>6. Account(CT, ST, cs, sc) /\ Account(ST, CT, sc, cs)
        /\ Linked(CT, ep.client.last_channel_id, ST, ep.server.last_channel_id)
    BY <1>1, <1>2, <1>3, <1>4, <1>5 DEF Joint, World, Agreed
  <1>7. PICK c : c = q[1]
    OBVIOUS
  <1>8. PICK d : d = q[2]
    OBVIOUS
  <1>9. c \in DOMAIN CT /\ d \in DOMAIN ST /\ CT[c].confirmed /\ CT[c].recipient_channel = d
    BY <1>2, <1>3, <1>7, <1>8 DEF Pairs
  <1>10. ST[d].confirmed /\ ST[d].recipient_channel = c
    BY <1>6, <1>9 DEF Linked
  <1>11. CT[c].recipient_window_size + DataFor(d, cs) + CreditFor(c, sc) = ST[d].sender_window_size
    BY <1>6, <1>9 DEF Account
  <1>12. ST[d].recipient_window_size + DataFor(c, sc) + CreditFor(d, cs) = CT[c].sender_window_size
    BY <1>6, <1>9, <1>10 DEF Account
  <1>13. CASE s = "client"
    <2>1. Peer(s) = "server" /\ s # "server"
      BY <1>13 DEF Peer
    <2> QED BY <1>2, <1>3, <1>4, <1>5, <1>7, <1>8, <1>11, <1>13, <2>1
  <1>14. CASE s = "server"
    <2>1. Peer(s) = "client" /\ s # "client"
      BY <1>14 DEF Peer
    <2> QED BY <1>2, <1>3, <1>4, <1>5, <1>7, <1>8, <1>12, <1>14, <2>1
  <1> QED BY <1>13, <1>14 DEF Sides

\* The agreement as one end sees it.
LEMMA JointMid ==
    ASSUME NEW s \in Sides, SideOK(s), SideOK(Peer(s)), NEW B, Joint(B)
    PROVE  Mid(ep[s], ep[Peer(s)], InFlight(s), InFlight(Peer(s)), B)
  <1>1. PICK e : e = ep[s]
    OBVIOUS
  <1>2. PICK o : o = ep[Peer(s)]
    OBVIOUS
  <1>3. PICK b : b = InFlight(s)
    OBVIOUS
  <1>4. PICK c : c = InFlight(Peer(s))
    OBVIOUS
  <1>5. Pact(s, e.channels, e.last_channel_id, Phase(e), o, b, c, B)
    <2>1. CASE s = "client"
      <3>1. Peer(s) = "server"
        BY <2>1 DEF Peer
      <3> QED BY <1>1, <1>2, <1>3, <1>4, <2>1, <3>1 DEF Joint, Pact
    <2>2. CASE s = "server"
      <3>1. Peer(s) = "client" /\ s # "client"
        BY <2>2 DEF Peer
      <3> QED BY <1>1, <1>2, <1>3, <1>4, <2>2, <3>1 DEF Joint, Pact
    <2> QED BY <2>1, <2>2 DEF Sides
  <1>6. EndOK(e) /\ e.role = s /\ e.write = <<>> /\ e.out = <<>>
    BY <1>1 DEF SideOK
  <1>7. Flow(b) /\ IsSeq(b)
    BY <1>5, PactNumbers DEF Flow
  <1>8. Going(e) = <<>>
    <2>1. Plain(<<>>) = <<>>
      BY DEF Plain
    <2> QED BY <1>6, <2>1, CatNone, OneIs DEF Going
  <1>9. b \o Going(e) = b
    BY <1>7, <1>8, CatNone
  <1>10. Mid(e, o, b, c, B)
    BY <1>5, <1>6, <1>7, <1>9 DEF Mid
  <1> QED BY <1>1, <1>2, <1>3, <1>4, <1>10

\* The initial states.
LEMMA SshStart == Init => SshInv
  <1> SUFFICES ASSUME Init PROVE SshInv
    OBVIOUS
  <1>1. PICK k : k = [msg |-> "KEXINIT"]
    OBVIOUS
  <1>2. PICK x : x = <<k>>
    OBVIOUS
  <1>3. PICK w : w = <<[p |-> k, keys |-> 0, z |-> FALSE]>>
    OBVIOUS
  <1>4. k.msg = "KEXINIT" /\ PacketOK(k) /\ Opening(k) = 0
    BY <1>1 DEF PacketOK, IsData, Opening
  <1>5. Flow(x) /\ IsSeq(x) /\ Idle(x) /\ OneKex(x, "KEXINIT") /\ Openings(x) = 0
    <2>1. "KEXINIT" \in KexMsgs
      BY DEF KexMsgs
    <2>2. Idle(x) /\ OneKex(x, "KEXINIT") /\ Openings(x) = 0
      BY <1>1, <1>2, <2>1, KexOne
    <2> QED BY <2>2 DEF Idle, Flow
  <1>6. Plain(w) = x /\ IsSeq(w)
    <2>1. IsSeq(w) /\ Len(w) = 1 /\ w[1] = [p |-> k, keys |-> 0, z |-> FALSE]
      BY <1>3, OneIs
    <2>2. IsSeq(x) /\ Len(x) = 1 /\ x[1] = k
      BY <1>2, OneIs
    <2>3. PICK v : v = Plain(w)
      OBVIOUS
    <2>4. IsSeq(v) /\ Len(v) = Len(w) /\ \A i \in 1..Len(w) : v[i] = w[i].p
      BY <2>1, <2>3, SealedIs
    <2>5. \A i \in 1..Len(v) : v[i] = x[i]
      BY <2>1, <2>2, <2>4
    <2>6. v = x
      BY <2>1, <2>2, <2>4, <2>5, SameSeq
    <2> QED BY <2>1, <2>3, <2>6
  <1>7. /\ plan \in Plans /\ srvApp = 0 /\ msgs = <<>>
        /\ ep = [s \in Sides |-> NewSession(s, plan)] /\ wire = [s \in Sides |-> w]
    BY <1>1, <1>3 DEF Init
  <1>8. ASSUME NEW s \in Sides PROVE SideOK(s)
    <2>1. PICK e : e = NewSession(s, plan)
      OBVIOUS
    <2>2. ep[s] = e /\ wire[s] = w
      BY <1>7, <2>1
    <2>3. /\ DOMAIN e = Fields /\ e.role = s /\ e.state = "None" /\ e.out = <<>> /\ e.write = <<>>
          /\ e.channels = <<>> /\ e.events = <<>> /\ e.pending_reads = <<>> /\ e.rekey = "None" /\ e.kex = "Init"
      BY <2>1 DEF NewSession, Fields
    <2>4. Flow(<<>>) /\ IsSeq(<<>>) /\ NoKex(<<>>) /\ Plain(<<>>) = <<>> /\ DOMAIN <<>> = {}
      BY FlowNone DEF NoKex, Plain, Flow
    <2>5. EndOK(e)
      BY <2>3, <2>4 DEF EndOK, ChansOK, EventsOK, States
    <2>6. Shape(e)
      BY <2>3, <2>4 DEF Shape
    <2> QED BY <1>5, <1>6, <2>2, <2>3, <2>5, <2>6 DEF SideOK
  <1>9. Joint(1)
    <2>1. \A s \in Sides : /\ ep[s].channels = <<>> /\ ep[s].last_channel_id = 1 /\ ep[s].pending_reads = <<>>
                           /\ ep[s].kex = "Init"
      BY <1>7 DEF NewSession
    <2>2. \A s \in Sides : InFlight(s) = x
      <3> SUFFICES ASSUME NEW s \in Sides PROVE InFlight(s) = x
        OBVIOUS
      <3>1. Peer(s) \in Sides
        BY DEF Peer, Sides
      <3>2. InFlight(s) = <<>> \o Plain(w)
        BY <1>7, <2>1, <3>1 DEF InFlight, Plain
      <3> QED BY <1>5, <1>6, <3>2, CatNone
    <2>3. PICK T : T = <<>>
      OBVIOUS
    <2>4. DOMAIN T = {}
      BY <2>3
    <2>5. \A i \in DOMAIN x : x[i] = k
      BY <1>2
    <2>6. Agreed(T, 1, T, 1, x, x)
      <3>1. Table(T, 1)
        BY <2>4 DEF Table
      <3>2. Linked(T, 1, T, 1) /\ Account(T, T, x, x) /\ HalfOpen(T, T, x, x)
        BY <2>4 DEF Linked, Account, HalfOpen
      <3>3. Asked(T, 1, T, x, x) /\ Answered(T, 1, T, 1, x)
        BY <1>4, <2>5 DEF Asked, Answered, IsOpen, IsConf
      <3>4. Fresh(1, x)
        BY <1>5 DEF Fresh, Idle
      <3> QED BY <1>5, <3>1, <3>2, <3>3, <3>4 DEF Agreed
    <2>7. Exchanging("Init", "Init", x, x)
      BY <1>5 DEF Exchanging
    <2>8. 1 < IdSpace /\ 1 + Openings(x) <= 1
      BY <1>5, SshConnectionAssumption
    <2>9. World(T, 1, "Init", T, 1, "Init", x, x, 1)
      BY <2>6, <2>7, <2>8 DEF World
    <2>10. Phase(ep.client) = "Init" /\ Phase(ep.server) = "Init"
      BY <2>1 DEF Phase, Sides
    <2>11. /\ ep.client.channels = T /\ ep.server.channels = T
           /\ ep.client.last_channel_id = 1 /\ ep.server.last_channel_id = 1
           /\ InFlight("client") = x /\ InFlight("server") = x
      BY <2>1, <2>2, <2>3 DEF Sides
    <2> QED BY <2>9, <2>10, <2>11 DEF Joint
  <1>10. AppOK /\ Ops = 1
    <2>1. /\ DOMAIN app = {"pc", "phase", "open", "done", "taken", "window", "seen"}
          /\ app.pc = 1 /\ app.phase = "run" /\ app.done = 0 /\ app.open = <<>>
          /\ app.window = [c \in 0..IdSpace - 1 |-> 0]
      BY DEF Init
    <2>2. Len(plan.client) \in Nat
      BY <1>7, SshSessionAssumption
    <2>3. IsSeq(<<>>) /\ DOMAIN <<>> = {}
      BY FlowNone DEF Flow
    <2>4. app.pc <= Len(plan.client) + 1
      BY <2>1, <2>2
    <2> QED BY <2>1, <2>3, <2>4 DEF AppOK, AppIs, Ops
  <1>11. MsgsOK /\ Calls(msgs) = 0
    <2>1. IsSeq(<<>>) /\ DOMAIN <<>> = {}
      BY FlowNone DEF Flow
    <2>2. Calls(<<>>) = 0
      BY CallsOne
    <2> QED BY <1>7, <2>1, <2>2 DEF MsgsOK
  <1>12. 1 + Calls(msgs) <= Ops
    BY <1>10, <1>11
  <1>13. SideOK("client") /\ SideOK("server")
    BY <1>8 DEF Sides
  <1>14. DOMAIN ep = Sides /\ DOMAIN wire = Sides
    BY <1>7
  <1> QED BY <1>7, <1>9, <1>10, <1>11, <1>12, <1>13, <1>14 DEF SshInv

------------------------------------------------------------------------------
(* One iteration *)

\* The other side of the other side.
LEMMA PeerIs ==
    ASSUME NEW s \in Sides
    PROVE  Peer(s) \in Sides /\ Peer(s) # s /\ Peer(Peer(s)) = s /\ \A r \in Sides : r = s \/ r = Peer(s)
  BY DEF Sides, Peer

\* What is on its way to s, after what s has queued.
LEMMA FlightIs ==
    ASSUME NEW s \in Sides
    PROVE  InFlight(Peer(s)) = ep[s].pending_reads \o Plain(wire[s])
  BY PeerIs DEF InFlight, Plain

\* The sessions and streams after an iteration.
Moved(s, k, rest) ==
    /\ ep'[s] = [k EXCEPT !.out = <<>>] /\ ep'[Peer(s)] = ep[Peer(s)]
    /\ wire'[Peer(s)] = wire[Peer(s)] \o k.out /\ wire'[s] = rest

\* They are these, unless an error ends the session.
LEMMA IterationIs ==
    ASSUME NEW s \in Sides, DOMAIN ep = Sides, DOMAIN wire = Sides, NEW due, NEW e0, NEW rest,
           Iteration(s, due, e0, rest)
    PROVE  /\ DOMAIN ep' = Sides /\ DOMAIN wire' = Sides
           /\ Running(s)' => \E k : k = EndIteration(e0, due) /\ k.fault = "none" /\ Moved(s, k, rest)
           /\ ep'[Peer(s)] = ep[Peer(s)]
  <1>1. PICK k : k = EndIteration(e0, due)
    OBVIOUS
  <1>2. IF k.fault = "none"
        THEN /\ ep' = [ep EXCEPT ![s] = [k EXCEPT !.out = <<>>]]
             /\ wire' = [wire EXCEPT ![Peer(s)] = @ \o k.out, ![s] = rest]
        ELSE /\ ep' = [ep EXCEPT ![s] = k]
             /\ wire' = [wire EXCEPT ![s] = rest]
    BY <1>1 DEF Iteration
  <1>3. Peer(s) \in Sides /\ Peer(s) # s
    BY PeerIs
  <1>4. CASE k.fault = "none"
    <2>1. PICK g : g = [k EXCEPT !.out = <<>>]
      OBVIOUS
    <2>2. ep' = [ep EXCEPT ![s] = g] /\ wire' = [wire EXCEPT ![Peer(s)] = @ \o k.out, ![s] = rest]
      BY <1>2, <1>4, <2>1
    <2>3. ep'[s] = g /\ ep'[Peer(s)] = ep[Peer(s)] /\ DOMAIN ep' = Sides
      BY <1>3, <2>2
    <2>4. wire'[Peer(s)] = wire[Peer(s)] \o k.out /\ wire'[s] = rest /\ DOMAIN wire' = Sides
      BY <1>3, <2>2
    <2> QED BY <1>1, <1>4, <2>1, <2>3, <2>4 DEF Moved
  <1>5. CASE k.fault # "none"
    <2>1. ep' = [ep EXCEPT ![s] = k] /\ wire' = [wire EXCEPT ![s] = rest]
      BY <1>2, <1>5
    <2>2. ep'[s] = k /\ ep'[Peer(s)] = ep[Peer(s)] /\ DOMAIN ep' = Sides /\ DOMAIN wire' = Sides
      BY <1>3, <2>1
    <2>3. ~(Running(s)')
      BY <1>5, <2>2 DEF Running
    <2> QED BY <2>2, <2>3
  <1> QED BY <1>4, <1>5

\* The invariant is kept by an iteration that leads the session.
LEMMA Turn ==
    ASSUME NEW s \in Sides, SideOK(s), SideOK(Peer(s)), NEW B, NEW due, NEW e0, NEW rest, IsSeq(rest),
           NEW y, y = Plain(rest), Flow(y), e0.role = s,
           Led(e0, e0, ep[Peer(s)], InFlight(s), y, B),
           NEW k, k = EndIteration(e0, due), k.fault = "none", Moved(s, k, rest)
    PROVE  SideOK(s)' /\ SideOK(Peer(s))' /\ Joint(B)'
  <1>1. PICK o : o = ep[Peer(s)]
    OBVIOUS
  <1>2. PICK b : b = InFlight(s)
    OBVIOUS
  <1>3. Led(e0, e0, o, b, y, B)
    BY <1>1, <1>2
  <1>4. Led(e0, k, o, b, y, B) /\ k.write = <<>>
    BY <1>3, LedEnd
  <1>5. PICK c : c = k.pending_reads \o y
    OBVIOUS
  <1>6. Mid(k, o, b, c, B) /\ Shape(k) /\ k.role = s
    BY <1>4, <1>5 DEF Led
  <1>7. /\ EndOK(k) /\ Flow(b) /\ Pact(k.role, k.channels, k.last_channel_id, Phase(k), o, b \o Going(k), c, B)
        /\ DOMAIN k = Fields /\ IsSeq(k.out) /\ Flow(Plain(k.out))
    BY <1>6 DEF Mid, EndOK
  <1>8. PICK g : g = [k EXCEPT !.out = <<>>]
    OBVIOUS
  <1>9. /\ Only(k, g, Inner) /\ g.out = <<>> /\ g.write = <<>> /\ g.kex = k.kex /\ g.rekey = k.rekey
        /\ g.pending_reads = k.pending_reads /\ g.exchange = k.exchange
    BY <1>4, <1>7, <1>8 DEF Only, Inner, Fields
  <1>10. Flow(<<>>) /\ IsSeq(<<>>) /\ Plain(<<>>) = <<>>
    BY FlowNone DEF Flow, Plain
  <1>11. /\ EndOK(g) /\ g.role = k.role /\ g.channels = k.channels
         /\ g.last_channel_id = k.last_channel_id /\ g.state = k.state
    <2>1. IsSeq(g.out) /\ Flow(Plain(g.out)) /\ Flow(g.write)
      BY <1>9, <1>10
    <2> QED BY <1>7, <1>9, <2>1, EndKept
  <1>12. Shape(g)
    BY <1>6, <1>9, <1>11 DEF Shape
  <1>13. Phase(g) = Phase(k)
    BY <1>9 DEF Phase
  <1>14. Peer(s) \in Sides /\ Peer(s) # s /\ Peer(Peer(s)) = s
    BY PeerIs
  <1>15. ep'[s] = g /\ ep'[Peer(s)] = o /\ wire'[s] = rest
    BY <1>1, <1>8 DEF Moved
  <1>16. PICK v : v = wire[Peer(s)]
    OBVIOUS
  <1>17. PICK u : u = k.out
    OBVIOUS
  <1>18. wire'[Peer(s)] = v \o u /\ IsSeq(v) /\ IsSeq(u) /\ Flow(Plain(v)) /\ Flow(Plain(u))
    BY <1>7, <1>16, <1>17 DEF Moved, SideOK
  <1>19. Plain(v \o u) = Plain(v) \o Plain(u) /\ IsSeq(v \o u)
    BY <1>18, PlainCat, CatFacts
  <1>20. Flow(Plain(v) \o Plain(u))
    BY <1>18, FlowCat
  <1>21. SideOK(s)'
    BY <1>6, <1>9, <1>11, <1>12, <1>15 DEF SideOK
  <1>22. SideOK(Peer(s))'
    <2>1. IsSeq(v \o u) /\ Flow(Plain(v \o u))
      BY <1>19, <1>20
    <2>2. EndOK(o) /\ o.role = Peer(s) /\ Shape(o) /\ o.write = <<>> /\ o.out = <<>>
      BY <1>1 DEF SideOK
    <2> QED BY <1>15, <1>18, <2>1, <2>2 DEF SideOK
  <1>23. InFlight(Peer(s))' = c
    <2>1. InFlight(Peer(s))' = ep'[s].pending_reads \o Plain(wire'[s])
      BY <1>14 DEF InFlight, Plain
    <2> QED BY <1>5, <1>9, <1>15, <2>1
  <1>24. InFlight(s)' = b \o Going(k)
    <2>1. PICK r : r = o.pending_reads
      OBVIOUS
    <2>2. InFlight(s)' = r \o (Plain(v) \o Plain(u))
      BY <1>14, <1>15, <1>18, <1>19, <2>1 DEF InFlight, Plain
    <2>3. b = r \o Plain(v)
      BY <1>1, <1>2, <1>16, <2>1 DEF InFlight, Plain
    <2>4. PICK x : x = Plain(u)
      OBVIOUS
    <2>5. PICK z : z = Plain(v)
      OBVIOUS
    <2>6. IsSeq(x) /\ IsSeq(z) /\ IsSeq(r)
      BY <1>1, <1>18, <2>1, <2>4, <2>5 DEF SideOK, Shape, Flow
    <2>7. Going(k) = x
      BY <1>4, <1>17, <2>4, <2>6, CatNone DEF Going
    <2>8. (r \o z) \o x = r \o (z \o x)
      BY <2>6, CatAssoc
    <2> QED BY <2>2, <2>3, <2>4, <2>5, <2>7, <2>8
  <1>25. PICK d : d = b \o Going(k)
    OBVIOUS
  <1>26. Pact(s, g.channels, g.last_channel_id, Phase(g), o, d, c, B)
    BY <1>6, <1>7, <1>11, <1>13, <1>25
  <1>27. Joint(B)'
    <2>1. CASE s = "client"
      <3>1. Peer(s) = "server"
        BY <2>1 DEF Peer
      <3>2. World(g.channels, g.last_channel_id, Phase(g), o.channels, o.last_channel_id, Phase(o), d, c, B)
        BY <1>26, <2>1 DEF Pact
      <3>3. ep.client' = g /\ ep.server' = o /\ InFlight("client")' = d /\ InFlight("server")' = c
        BY <1>15, <1>23, <1>24, <1>25, <2>1, <3>1
      <3> QED BY <3>2, <3>3 DEF Joint, Phase
    <2>2. CASE s = "server"
      <3>1. Peer(s) = "client"
        BY <2>2 DEF Peer
      <3>2. World(o.channels, o.last_channel_id, Phase(o), g.channels, g.last_channel_id, Phase(g), c, d, B)
        BY <1>26, <2>2 DEF Pact
      <3>3. ep.client' = o /\ ep.server' = g /\ InFlight("client")' = c /\ InFlight("server")' = d
        BY <1>15, <1>23, <1>24, <1>25, <2>2, <3>1
      <3> QED BY <3>2, <3>3 DEF Joint, Phase
    <2> QED BY <2>1, <2>2 DEF Sides
  <1> QED BY <1>21, <1>22, <1>27

------------------------------------------------------------------------------
(* The loops take packets and messages *)

\* An iteration that did not fail began with a session that had not.
LEMMA FaultFree ==
    ASSUME NEW e0, NEW due, NEW k, k = EndIteration(e0, due), k.fault = "none"
    PROVE  e0.fault = "none"
  BY DEF EndIteration

\* The other session runs on.
LEMMA BothBefore ==
    ASSUME NEW s \in Sides, Running(s), ep'[Peer(s)] = ep[Peer(s)], Both'
    PROVE  Both /\ Running(s)'
  <1>1. CASE s = "client"
    <2>1. Peer(s) = "server"
      BY <1>1 DEF Peer
    <2> QED BY <1>1, <2>1 DEF Both, Running
  <1>2. CASE s = "server"
    <2>1. Peer(s) = "client"
      BY <1>2 DEF Peer
    <2> QED BY <1>2, <2>1 DEF Both, Running
  <1> QED BY <1>1, <1>2 DEF Sides

\* Both sides, from one.
LEMMA SidesOK ==
    ASSUME NEW s \in Sides
    PROVE  /\ SideOK("client") /\ SideOK("server") <=> SideOK(s) /\ SideOK(Peer(s))
           /\ (SideOK("client") /\ SideOK("server"))' <=> SideOK(s)' /\ SideOK(Peer(s))'
  <1>1. CASE s = "client"
    <2>1. Peer(s) = "server"
      BY <1>1 DEF Peer
    <2> QED BY <1>1, <2>1
  <1>2. CASE s = "server"
    <2>1. Peer(s) = "client"
      BY <1>2 DEF Peer
    <2> QED BY <1>2, <2>1
  <1> QED BY <1>1, <1>2 DEF Sides

\* The first packet of a stream.
LEMMA PlainTakes ==
    ASSUME NEW u, IsSeq(u), u # <<>>, Flow(Plain(u))
    PROVE  /\ IsSeq(Tail(u)) /\ Plain(u) = <<Head(u).p>> \o Plain(Tail(u))
           /\ IsSeq(Plain(Tail(u))) /\ Flow(Plain(Tail(u)))
  <1>1. PICK w : w = Head(u)
    OBVIOUS
  <1>2. PICK t : t = Tail(u)
    OBVIOUS
  <1>3. PICK x : x = <<w>>
    OBVIOUS
  <1>4. IsSeq(t) /\ u = x \o t
    BY <1>1, <1>2, <1>3, TailIs
  <1>5. IsSeq(x) /\ Len(x) = 1 /\ x[1] = w
    BY <1>3, OneIs
  <1>6. Plain(x \o t) = Plain(x) \o Plain(t)
    BY <1>4, <1>5, PlainCat
  <1>7. PICK v : v = Plain(x)
    OBVIOUS
  <1>8. IsSeq(v) /\ Len(v) = Len(x) /\ \A i \in 1..Len(x) : v[i] = x[i].p
    BY <1>5, <1>7, SealedIs
  <1>9. PICK z : z = <<w.p>>
    OBVIOUS
  <1>10. IsSeq(z) /\ Len(z) = 1 /\ z[1] = w.p
    BY <1>9, OneIs
  <1>11. \A i \in 1..Len(v) : v[i] = z[i]
    BY <1>5, <1>8, <1>10
  <1>12. v = z
    BY <1>5, <1>8, <1>10, <1>11, SameSeq
  <1>13. IsSeq(Plain(t))
    BY <1>4, SealedIs
  <1>14. Plain(u) = <<w.p>> \o Plain(t)
    BY <1>4, <1>6, <1>7, <1>9, <1>12
  <1>15. Taken(<<w.p>> \o Plain(t), w.p, Plain(t))
    BY <1>13, <1>14, CatTakes
  <1> QED BY <1>1, <1>2, <1>4, <1>13, <1>14, <1>15 DEF Taken

\* The rest of the invariant does not change.
LEMMA AppSame ==
    ASSUME UNCHANGED <<plan, app>>
    PROVE  (AppOK <=> AppOK') /\ Ops' = Ops
  BY DEF AppOK, AppIs, Ops

\* A packet is read.
LEMMA ReadKeeps ==
    ASSUME SshInv, NEW s \in Sides, Read(s)
    PROVE  SshInv'
  <1>1. /\ plan \in Plans /\ srvApp \in Nat /\ DOMAIN ep = Sides /\ DOMAIN wire = Sides
        /\ plan' = plan /\ msgs' = msgs /\ app' = app /\ srvApp' = srvApp /\ Running(s) /\ wire[s] # <<>>
    BY DEF SshInv, Read
  <1>2. PICK due, ok : Iteration(s, due, Receive(ep[s], Head(wire[s]), ok, due), Tail(wire[s]))
    BY DEF Read
  <1>3. PICK w : w = Head(wire[s])
    OBVIOUS
  <1>4. PICK rest : rest = Tail(wire[s])
    OBVIOUS
  <1>5. PICK e0 : e0 = Receive(ep[s], w, ok, due)
    OBVIOUS
  <1>6. Iteration(s, due, e0, rest)
    BY <1>2, <1>3, <1>4, <1>5
  <1>7. /\ DOMAIN ep' = Sides /\ DOMAIN wire' = Sides
        /\ Running(s)' => \E k : k = EndIteration(e0, due) /\ k.fault = "none" /\ Moved(s, k, rest)
        /\ ep'[Peer(s)] = ep[Peer(s)]
    BY <1>1, <1>6, IterationIs
  <1>8. ASSUME Both'
        PROVE  /\ (SideOK("client") /\ SideOK("server") /\ AppOK /\ MsgsOK)'
               /\ (\E B : Joint(B) /\ B + Calls(msgs) <= Ops)'
    <2>1. Both /\ Running(s)'
      BY <1>1, <1>7, <1>8, BothBefore
    <2>2. /\ SideOK("client") /\ SideOK("server") /\ AppOK /\ MsgsOK
          /\ \E B : Joint(B) /\ B + Calls(msgs) <= Ops
      BY <2>1 DEF SshInv
    <2>3. PICK B : Joint(B) /\ B + Calls(msgs) <= Ops
      BY <2>2
    <2>4. PICK k : k = EndIteration(e0, due) /\ k.fault = "none" /\ Moved(s, k, rest)
      BY <1>7, <2>1
    <2>5. SideOK(s) /\ SideOK(Peer(s))
      BY <2>2, SidesOK
    <2>6. Mid(ep[s], ep[Peer(s)], InFlight(s), InFlight(Peer(s)), B)
      BY <2>3, <2>5, JointMid
    <2>7. PICK e : e = ep[s]
      OBVIOUS
    <2>8. PICK o : o = ep[Peer(s)]
      OBVIOUS
    <2>9. PICK b : b = InFlight(s)
      OBVIOUS
    <2>10. PICK q : q = e.pending_reads
      OBVIOUS
    <2>11. PICK p : p = w.p
      OBVIOUS
    <2>12. PICK y : y = Plain(rest)
      OBVIOUS
    <2>13. /\ IsSeq(rest) /\ Plain(wire[s]) = <<p>> \o y /\ IsSeq(y) /\ Flow(y) /\ Flow(Plain(wire[s]))
      BY <1>1, <1>3, <1>4, <2>5, <2>11, <2>12, PlainTakes DEF SideOK
    <2>14. PICK c : c = q \o (<<p>> \o y)
      OBVIOUS
    <2>15. InFlight(Peer(s)) = c
      BY <2>7, <2>10, <2>13, <2>14, FlightIs
    <2>16. Mid(e, o, b, c, B) /\ Shape(e) /\ e.write = <<>> /\ e.role = s
      BY <2>5, <2>6, <2>7, <2>8, <2>9, <2>15 DEF SideOK
    <2>17. e0.fault = "none" /\ e0 = Receive(e, w, ok, due)
      BY <1>5, <2>4, <2>7, FaultFree
    <2>18. Flow(<<p>> \o y) /\ IsSeq(y)
      BY <2>13
    <2>19. Led(e, e0, o, b, y, B)
      BY <2>10, <2>11, <2>14, <2>16, <2>17, <2>18, LedRead
    <2>20. Led(e0, e0, o, b, y, B) /\ e0.role = s
      BY <2>16, <2>19 DEF Led
    <2>21. Led(e0, e0, ep[Peer(s)], InFlight(s), y, B)
      BY <2>8, <2>9, <2>20
    <2>22. SideOK(s)' /\ SideOK(Peer(s))' /\ Joint(B)'
      BY <2>4, <2>5, <2>12, <2>13, <2>20, <2>21, Turn
    <2>23. (SideOK("client") /\ SideOK("server"))'
      BY <2>22, SidesOK
    <2>24. AppOK' /\ Ops' = Ops
      BY <1>1, <2>2, AppSame
    <2>25. MsgsOK' /\ Calls(msgs)' = Calls(msgs)
      BY <1>1, <2>2 DEF MsgsOK, Calls
    <2>26. Joint(B)' /\ (B + Calls(msgs) <= Ops)'
      BY <2>3, <2>22, <2>24, <2>25
    <2> QED BY <2>23, <2>24, <2>25, <2>26
  <1> QED BY <1>1, <1>7, <1>8 DEF SshInv

\* The client's session takes a message.
LEMMA LedTake ==
    ASSUME NEW e, NEW o, NEW b, NEW y, NEW B, Mid(e, o, b, e.pending_reads \o y, B), e.role = "client",
           e.write = <<>>, e.state # "None", Shape(e), NEW m, MsgOK(m), B + Call(m) < IdSpace,
           NEW f, f = TakeMsg(e, m), f.fault = "none"
    PROVE  Led(f, f, o, b, y, B + Call(m)) /\ f.role = "client"
  <1>0. PICK c : c = e.pending_reads \o y
    OBVIOUS
  <1>00. Mid(e, o, b, c, B)
    BY <1>0
  <1>1. CASE m.t = "Disconnect"
    <2>1. PICK p : p = [msg |-> "DISCONNECT"]
      OBVIOUS
    <2>2. Calm(p) /\ Opening(p) = 0
      BY <2>1 DEF Calm, KexMsgs, Opening
    <2>3. PICK g : g = push_packet(e, p)
      OBVIOUS
    <2>4. Good(e, g, o, b, c, B)
      BY <1>00, <2>2, <2>3, GoodPush
    <2>5. f = [g EXCEPT !.disconnected = TRUE]
      BY <1>1, <2>1, <2>3 DEF TakeMsg, disconnect
    <2>6. /\ EndOK(g) /\ Flow(b) /\ Pact(g.role, g.channels, g.last_channel_id, Phase(g), o, b \o Going(g), c, B)
          /\ DOMAIN g = Fields /\ Kept(e, g) /\ g.state \in States
          /\ (g.state # "Authenticated" => DOMAIN g.channels = {})
      BY <2>4 DEF Good, Mid, EndOK
    <2>7. /\ Only(g, f, Inner \cup {"state"}) /\ f.out = g.out /\ f.write = g.write /\ f.state = g.state
          /\ f.kex = g.kex /\ f.rekey = g.rekey /\ f.exchange = g.exchange /\ f.pending_reads = g.pending_reads
      BY <2>5, <2>6 DEF Only, Inner, Fields
    <2>8. Phase(f) = Phase(g)
      BY <2>7 DEF Phase
    <2>9. Pact(g.role, g.channels, g.last_channel_id, Phase(f), o, b \o Going(g), c, B)
      BY <2>6, <2>8
    <2>10. f.state \in States /\ (f.state # "Authenticated" => DOMAIN g.channels = {})
      BY <2>6, <2>7
    <2>11. Mid(f, o, b, c, B) /\ f.role = g.role
      <3>1. EndOK(g) /\ Flow(b) /\ Only(g, f, Inner \cup {"state"}) /\ f.out = g.out /\ f.write = g.write
        BY <2>6, <2>7
      <3> QED BY <2>9, <2>10, <3>1, MidPhase
    <2>12. Shape(f)
      BY <2>6, <2>7 DEF Shape, Kept
    <2>13. c = f.pending_reads \o y /\ f.role = "client"
      BY <1>0, <2>6, <2>7, <2>11 DEF Kept
    <2>14. B \in Nat /\ Call(m) = 0
      BY <1>1, <2>6, PactNumbers DEF Call
    <2>15. B + Call(m) = B
      BY <2>14
    <2> QED BY <2>11, <2>12, <2>13, <2>15 DEF Led
  <1>2. CASE m.t # "Disconnect"
    <2>1. PICK D : D = B + Call(m)
      OBVIOUS
    <2>2. Good(e, f, o, b, c, D)
      <3>1. Mid(e, o, b, c, B) /\ m.t # "Disconnect"
        BY <1>00, <1>2
      <3> QED BY <2>1, <3>1, GoodTake
    <2>3. Led(e, f, o, b, y, D)
      BY <1>0, <2>2, LedGood
    <2> QED BY <2>1, <2>3 DEF Led
  <1> QED BY <1>1, <1>2

\* It keeps the invariant.
LEMMA TakeKeeps ==
    ASSUME SshInv, ClientTakesMsg
    PROVE  SshInv'
  <1>0. PICK s : s = "client"
    OBVIOUS
  <1>1. /\ plan \in Plans /\ srvApp \in Nat /\ DOMAIN ep = Sides /\ DOMAIN wire = Sides
        /\ plan' = plan /\ msgs' = Tail(msgs) /\ app' = app /\ srvApp' = srvApp /\ Running(s) /\ msgs # <<>>
        /\ ep[s].state # "None" /\ s \in Sides
    BY <1>0 DEF SshInv, ClientTakesMsg, is_rekeying, Sides
  <1>2. PICK due : Iteration(s, due, TakeMsg(ep[s], Head(msgs)), wire[s])
    BY <1>0 DEF ClientTakesMsg
  <1>3. PICK m : m = Head(msgs)
    OBVIOUS
  <1>4. PICK rest : rest = wire[s]
    OBVIOUS
  <1>5. PICK e0 : e0 = TakeMsg(ep[s], m)
    OBVIOUS
  <1>6. Iteration(s, due, e0, rest)
    BY <1>2, <1>3, <1>4, <1>5
  <1>7. /\ DOMAIN ep' = Sides /\ DOMAIN wire' = Sides
        /\ Running(s)' => \E k : k = EndIteration(e0, due) /\ k.fault = "none" /\ Moved(s, k, rest)
        /\ ep'[Peer(s)] = ep[Peer(s)]
    BY <1>1, <1>6, IterationIs
  <1>8. ASSUME Both'
        PROVE  /\ (SideOK("client") /\ SideOK("server") /\ AppOK /\ MsgsOK)'
               /\ (\E B : Joint(B) /\ B + Calls(msgs) <= Ops)'
    <2>1. Both /\ Running(s)'
      BY <1>1, <1>7, <1>8, BothBefore
    <2>2. /\ SideOK("client") /\ SideOK("server") /\ AppOK /\ MsgsOK
          /\ \E B : Joint(B) /\ B + Calls(msgs) <= Ops
      BY <2>1 DEF SshInv
    <2>3. PICK B : Joint(B) /\ B + Calls(msgs) <= Ops
      BY <2>2
    <2>4. PICK k : k = EndIteration(e0, due) /\ k.fault = "none" /\ Moved(s, k, rest)
      BY <1>7, <2>1
    <2>5. SideOK(s) /\ SideOK(Peer(s))
      BY <1>1, <2>2, SidesOK
    <2>6. Mid(ep[s], ep[Peer(s)], InFlight(s), InFlight(Peer(s)), B)
      BY <1>1, <2>3, <2>5, JointMid
    <2>7. PICK e : e = ep[s]
      OBVIOUS
    <2>8. PICK o : o = ep[Peer(s)]
      OBVIOUS
    <2>9. PICK b : b = InFlight(s)
      OBVIOUS
    <2>10. PICK y : y = Plain(rest)
      OBVIOUS
    <2>11. IsSeq(rest) /\ Flow(y)
      BY <1>4, <2>5, <2>10 DEF SideOK
    <2>12. InFlight(Peer(s)) = e.pending_reads \o y
      BY <1>1, <1>4, <2>7, <2>10, FlightIs
    <2>13. Mid(e, o, b, e.pending_reads \o y, B) /\ Shape(e) /\ e.write = <<>> /\ e.role = "client" /\ e.state # "None"
      BY <1>0, <1>1, <2>5, <2>6, <2>7, <2>8, <2>9, <2>12 DEF SideOK
    <2>14. IsSeq(msgs) /\ \A i \in DOMAIN msgs : MsgOK(msgs[i])
      BY <2>2 DEF MsgsOK
    <2>15. PICK t : t = Tail(msgs)
      OBVIOUS
    <2>16. /\ IsSeq(t) /\ Calls(t) \in Nat /\ Call(m) \in {0, 1} /\ Calls(msgs) = Call(m) + Calls(t)
           /\ m = msgs[1] /\ 1 \in DOMAIN msgs /\ \A i \in DOMAIN t : i + 1 \in DOMAIN msgs /\ t[i] = msgs[i + 1]
      BY <1>1, <1>3, <2>14, <2>15, CallsTaken
    <2>17. MsgOK(m) /\ IsSeq(t) /\ \A i \in DOMAIN t : MsgOK(t[i])
      BY <2>14, <2>16
    <2>18. B \in Nat /\ Ops \in Nat /\ Ops < IdSpace
      <3>1. B \in Nat
        BY <2>13, PactNumbers DEF Mid
      <3>2. Len(plan.client) \in Nat /\ Len(plan.client) + 1 < IdSpace /\ IdSpace \in Nat
        BY <1>1, SshSessionAssumption, SshConnectionAssumption
      <3>3. /\ app.pc \in Nat /\ app.pc <= Len(plan.client) + 1
            /\ app.phase # "run" => app.pc <= Len(plan.client)
        BY <2>2 DEF AppOK, AppIs
      <3>4. CASE app.phase = "run"
        <4>1. Ops = app.pc + 0
          BY <3>4 DEF Ops
        <4> QED BY <3>1, <3>2, <3>3, <4>1
      <3>5. CASE app.phase # "run"
        <4>1. Ops = app.pc + 1 /\ app.pc <= Len(plan.client)
          BY <3>3, <3>5 DEF Ops
        <4> QED BY <3>1, <3>2, <3>3, <4>1
      <3> QED BY <3>4, <3>5
    <2>19. PICK D : D = B + Call(m)
      OBVIOUS
    <2>20. D < IdSpace /\ D + Calls(t) <= Ops
      BY <2>3, <2>16, <2>18, <2>19, SshConnectionAssumption
    <2>21. e0.fault = "none" /\ e0 = TakeMsg(e, m)
      BY <1>5, <2>4, <2>7, FaultFree
    <2>22. Led(e0, e0, o, b, y, D) /\ e0.role = s
      <3>1. B + Call(m) < IdSpace
        BY <2>19, <2>20
      <3>2. Led(e0, e0, o, b, y, B + Call(m)) /\ e0.role = "client"
        BY <2>13, <2>17, <2>21, <3>1, LedTake
      <3> QED BY <1>0, <2>19, <3>2
    <2>23. Led(e0, e0, ep[Peer(s)], InFlight(s), y, D)
      BY <2>8, <2>9, <2>22
    <2>24. SideOK(s)' /\ SideOK(Peer(s))' /\ Joint(D)'
      BY <1>1, <2>4, <2>5, <2>10, <2>11, <2>22, <2>23, Turn
    <2>25. (SideOK("client") /\ SideOK("server"))'
      BY <1>1, <2>24, SidesOK
    <2>26. AppOK' /\ Ops' = Ops
      BY <1>1, <2>2, AppSame
    <2>27. msgs' = t
      BY <1>1, <2>15
    <2>28. MsgsOK' /\ Calls(msgs)' = Calls(t)
      BY <2>17, <2>27 DEF MsgsOK, Calls
    <2>29. Joint(D)' /\ (D + Calls(msgs) <= Ops)'
      BY <2>20, <2>24, <2>26, <2>28
    <2> QED BY <2>25, <2>26, <2>28, <2>29
  <1> QED BY <1>1, <1>7, <1>8 DEF SshInv

------------------------------------------------------------------------------
(* The server's application, and the end of a session *)

\* A sequence that counts up, or none.
LEMMA BytesIs ==
    ASSUME NEW s, NEW n \in Int
    PROVE  IsSeq(Bytes(s, n))
  <1>1. PICK x : x = Bytes(s, n)
    OBVIOUS
  <1>2. x = [i \in 1..n |-> Len(sent[s]) + i]
    BY <1>1 DEF Bytes
  <1>3. DOMAIN x = 1..n /\ x = [i \in 1..n |-> x[i]]
    BY <1>2
  <1>4. CASE n \in Nat
    BY <1>1, <1>3, <1>4, SeqMade
  <1>5. CASE n \notin Nat
    <2>1. 1..n = 1..0 /\ 0 \in Nat
      BY <1>5
    <2>2. PICK k : k = 0
      OBVIOUS
    <2>3. k \in Nat /\ DOMAIN x = 1..k /\ x = [i \in 1..k |-> x[i]]
      BY <1>3, <2>1, <2>2
    <2> QED BY <1>1, <2>3, SeqMade
  <1> QED BY <1>4, <1>5

\* The server's session takes an operation of its application.
LEMMA ServerKeeps ==
    ASSUME SshInv, ServerTakesMsg
    PROVE  SshInv'
  <1>0. PICK s : s = "server"
    OBVIOUS
  <1>00. PICK op : op = plan.server[srvApp + 1]
    OBVIOUS
  <1>000. PICK n : n = IF op.op \in {"data", "extended_data"} THEN op.n ELSE 0
    OBVIOUS
  <1>1. /\ plan \in Plans /\ srvApp \in Nat /\ DOMAIN ep = Sides /\ DOMAIN wire = Sides
        /\ plan' = plan /\ msgs' = msgs /\ app' = app /\ srvApp' = srvApp + 1 /\ Running(s)
        /\ srvApp < Len(plan.server) /\ ep[s].state # "None" /\ s \in Sides
    BY <1>0 DEF SshInv, ServerTakesMsg, is_rekeying, Sides
  <1>2. PICK due, ch : Iteration(s, due, ServerOp(ep[s], op, ch, Bytes("server", n)), wire[s])
    BY <1>0, <1>00, <1>000 DEF ServerTakesMsg
  <1>3. PICK buf : buf = Bytes("server", n)
    OBVIOUS
  <1>4. PICK rest : rest = wire[s]
    OBVIOUS
  <1>5. PICK e0 : e0 = ServerOp(ep[s], op, ch, buf)
    OBVIOUS
  <1>6. Iteration(s, due, e0, rest)
    BY <1>2, <1>3, <1>4, <1>5
  <1>7. /\ DOMAIN ep' = Sides /\ DOMAIN wire' = Sides
        /\ Running(s)' => \E k : k = EndIteration(e0, due) /\ k.fault = "none" /\ Moved(s, k, rest)
        /\ ep'[Peer(s)] = ep[Peer(s)]
    BY <1>1, <1>6, IterationIs
  <1>8. /\ op.op \in {"data", "extended_data", "eof", "close", "success", "xon_xoff",
                      "exit_status", "exit_signal"}
        /\ IsSeq(buf)
    <2>1. Len(plan.server) \in Nat /\ srvApp + 1 \in 1..Len(plan.server)
      BY <1>1, SshSessionAssumption
    <2>2. /\ op.op \in {"data", "extended_data", "eof", "close", "success", "xon_xoff",
                        "exit_status", "exit_signal"}
          /\ op.op \in {"data", "extended_data"} => op.n \in Nat
      BY <1>00, <1>1, <2>1, SshSessionAssumption
    <2>3. n \in Int
      BY <1>000, <2>2
    <2> QED BY <1>3, <2>2, <2>3, BytesIs
  <1>9. ASSUME Both'
        PROVE  /\ (SideOK("client") /\ SideOK("server") /\ AppOK /\ MsgsOK)'
               /\ (\E B : Joint(B) /\ B + Calls(msgs) <= Ops)'
    <2>1. Both /\ Running(s)'
      BY <1>1, <1>7, <1>9, BothBefore
    <2>2. /\ SideOK("client") /\ SideOK("server") /\ AppOK /\ MsgsOK
          /\ \E B : Joint(B) /\ B + Calls(msgs) <= Ops
      BY <2>1 DEF SshInv
    <2>3. PICK B : Joint(B) /\ B + Calls(msgs) <= Ops
      BY <2>2
    <2>4. PICK k : k = EndIteration(e0, due) /\ k.fault = "none" /\ Moved(s, k, rest)
      BY <1>7, <2>1
    <2>5. SideOK(s) /\ SideOK(Peer(s))
      BY <1>1, <2>2, SidesOK
    <2>6. Mid(ep[s], ep[Peer(s)], InFlight(s), InFlight(Peer(s)), B)
      BY <1>1, <2>3, <2>5, JointMid
    <2>7. PICK e : e = ep[s]
      OBVIOUS
    <2>8. PICK o : o = ep[Peer(s)]
      OBVIOUS
    <2>9. PICK b : b = InFlight(s)
      OBVIOUS
    <2>10. PICK y : y = Plain(rest)
      OBVIOUS
    <2>11. IsSeq(rest) /\ Flow(y)
      BY <1>4, <2>5, <2>10 DEF SideOK
    <2>12. PICK c : c = e.pending_reads \o y
      OBVIOUS
    <2>13. InFlight(Peer(s)) = c
      BY <1>1, <1>4, <2>7, <2>10, <2>12, FlightIs
    <2>14. Mid(e, o, b, c, B) /\ Shape(e) /\ e.role = s /\ e.state # "None"
      BY <1>1, <2>5, <2>6, <2>7, <2>8, <2>9, <2>13 DEF SideOK
    <2>15. e0.fault = "none" /\ e0 = ServerOp(e, op, ch, buf)
      BY <1>5, <2>4, <2>7, FaultFree
    <2>16. Good(e, e0, o, b, c, B)
      BY <1>8, <2>14, <2>15, GoodServe
    <2>17. Led(e, e0, o, b, y, B)
      BY <2>12, <2>14, <2>16, LedGood
    <2>18. Led(e0, e0, o, b, y, B) /\ e0.role = s
      BY <2>14, <2>17 DEF Led
    <2>19. Led(e0, e0, ep[Peer(s)], InFlight(s), y, B)
      BY <2>8, <2>9, <2>18
    <2>20. SideOK(s)' /\ SideOK(Peer(s))' /\ Joint(B)'
      BY <1>1, <2>4, <2>5, <2>10, <2>11, <2>18, <2>19, Turn
    <2>21. (SideOK("client") /\ SideOK("server"))'
      BY <1>1, <2>20, SidesOK
    <2>22. AppOK' /\ Ops' = Ops
      BY <1>1, <2>2, AppSame
    <2>23. MsgsOK' /\ Calls(msgs)' = Calls(msgs)
      BY <1>1, <2>2 DEF MsgsOK, Calls
    <2>24. Joint(B)' /\ (B + Calls(msgs) <= Ops)'
      BY <2>3, <2>20, <2>22, <2>23
    <2> QED BY <2>21, <2>22, <2>23, <2>24
  <1> QED BY <1>1, <1>7, <1>9 DEF SshInv

\* A session ends.
LEMMA EndKeeps ==
    ASSUME SshInv, ServerTimeout \/ ClientDropped \/ \E s \in Sides : EndOfStream(s)
    PROVE  SshInv'
  <1>1. plan \in Plans /\ srvApp \in Nat /\ DOMAIN ep = Sides /\ DOMAIN wire = Sides
    BY DEF SshInv
  <1>2. CASE ServerTimeout
    <2>1. /\ plan' = plan /\ srvApp' = srvApp /\ wire' = wire
          /\ ep' = [ep EXCEPT !["server"] = [@ EXCEPT !.fault = "closed"]]
      BY <1>2 DEF ServerTimeout
    <2>2. DOMAIN ep' = Sides /\ ep'["client"] = ep["client"]
      BY <1>1, <2>1
    <2>3. ~(Both')
      <3>1. CASE Both
        <4>1. EndOK(ep["server"])
          BY <3>1 DEF SshInv, SideOK
        <4>2. PICK e : e = ep["server"]
          OBVIOUS
        <4>3. DOMAIN e = Fields
          BY <4>1, <4>2 DEF EndOK
        <4>4. ep'["server"] = [e EXCEPT !.fault = "closed"]
          BY <1>1, <2>1, <4>2 DEF Sides
        <4>5. ep'["server"].fault = "closed"
          BY <4>3, <4>4 DEF Fields
        <4> QED BY <4>5 DEF Both, Running
      <3>2. CASE ~Both
        <4>1. ~Running("client")
          BY <1>2, <3>2 DEF Both, ServerTimeout
        <4> QED BY <2>2, <4>1 DEF Both, Running
      <3> QED BY <3>1, <3>2
    <2> QED BY <1>1, <2>1, <2>2, <2>3 DEF SshInv
  <1>3. CASE \E s \in Sides : EndOfStream(s)
    <2>1. PICK s \in Sides : EndOfStream(s)
      BY <1>3
    <2>2. /\ plan' = plan /\ srvApp' = srvApp /\ wire' = wire /\ ~Running(Peer(s))
          /\ ep' = [ep EXCEPT ![s] = [@ EXCEPT !.fault = "closed"]]
      BY <2>1 DEF EndOfStream
    <2>3. Peer(s) \in Sides /\ Peer(s) # s
      BY PeerIs
    <2>4. DOMAIN ep' = Sides /\ ep'[Peer(s)] = ep[Peer(s)]
      BY <1>1, <2>2, <2>3
    <2>5. ~(Running(Peer(s))')
      BY <2>2, <2>4 DEF Running
    <2>6. CASE Peer(s) = "client"
      BY <1>1, <2>2, <2>4, <2>5, <2>6 DEF SshInv, Both
    <2>7. CASE Peer(s) = "server"
      BY <1>1, <2>2, <2>4, <2>5, <2>7 DEF SshInv, Both
    <2> QED BY <2>3, <2>6, <2>7 DEF Sides
  <1>4. CASE ClientDropped
    <2>1. /\ plan' = plan /\ srvApp' = srvApp /\ wire' = wire
          /\ ep' = [ep EXCEPT !["client"] = [@ EXCEPT !.disconnected = TRUE]]
      BY <1>4 DEF ClientDropped
    <2>2. DOMAIN ep' = Sides /\ ep'["server"] = ep["server"]
      BY <1>1, <2>1
    <2>3. ~(Both')
      <3>1. CASE Both
        <4>1. EndOK(ep["client"])
          BY <3>1 DEF SshInv, SideOK
        <4>2. PICK e : e = ep["client"]
          OBVIOUS
        <4>3. DOMAIN e = Fields
          BY <4>1, <4>2 DEF EndOK
        <4>4. ep'["client"] = [e EXCEPT !.disconnected = TRUE]
          BY <1>1, <2>1, <4>2 DEF Sides
        <4>5. ep'["client"].disconnected = TRUE
          BY <4>3, <4>4 DEF Fields
        <4> QED BY <4>5 DEF Both, Running
      <3>2. CASE ~Both
        <4>1. ~Running("server")
          BY <1>4, <3>2 DEF Both, ClientDropped
        <4> QED BY <2>2, <4>1 DEF Both, Running
      <3> QED BY <3>1, <3>2
    <2> QED BY <1>1, <2>1, <2>2, <2>3 DEF SshInv
  <1> QED BY <1>2, <1>3, <1>4

------------------------------------------------------------------------------
(* Steps of the client's application *)

\* The least of a set of numbers.
LEMMA MinIs ==
    ASSUME NEW S, S \subseteq Nat, S # {}
    PROVE  Min(S) \in S
  <1>1. PICK n \in S : \A m \in S : ~(m < n)
    BY LeastNat
  <1>2. \A m \in S : n <= m
    BY <1>1
  <1> QED BY <1>1, <1>2 DEF Min

\* The least of three.
LEMMA MinOf ==
    ASSUME NEW i \in Int, NEW j \in Int, NEW k \in Int
    PROVE  Min({i, j, k}) \in Int
  <1>1. \E x \in {i, j, k} : \A y \in {i, j, k} : x <= y
    <2>1. CASE i <= j /\ i <= k
      BY <2>1
    <2>2. CASE j <= i /\ j <= k
      BY <2>2
    <2>3. CASE k <= i /\ k <= j
      BY <2>3
    <2> QED BY <2>1, <2>2, <2>3
  <1>2. Min({i, j, k}) \in {i, j, k}
    BY <1>1 DEF Min
  <1> QED BY <1>2

\* The length of a script, and the operation that the application is at.
LEMMA ScriptIs ==
    ASSUME plan \in Plans
    PROVE  /\ Len(plan.client) \in Nat /\ IdSpace \in Nat /\ Len(plan.client) + 1 < IdSpace
           /\ \A i \in 1..Len(plan.client) : plan.client[i].op = "send" => plan.client[i].n \in Nat
  BY SshSessionAssumption, SshConnectionAssumption

\* The operations begun, as a number.
LEMMA OpsIs ==
    ASSUME AppOK
    PROVE  Ops \in Nat /\ Ops = app.pc + (IF app.phase = "run" THEN 0 ELSE 1) /\ app.pc \in Nat
  BY DEF AppOK, AppIs, Ops

\* A step of the application keeps the invariant if it sends no more calls
\* than it begins operations.
LEMMA AppKeeps ==
    ASSUME SshInv, UNCHANGED <<plan, ep, wire, srvApp>>,
           Both => /\ AppOK'
                   /\ \/ msgs' = msgs /\ Ops <= Ops'
                      \/ \E m : msgs' = Append(msgs, m) /\ MsgOK(m) /\ Call(m) + Ops <= Ops'
    PROVE  SshInv'
  <1>1. /\ plan \in Plans /\ srvApp \in Nat /\ DOMAIN ep = Sides /\ DOMAIN wire = Sides
        /\ plan' = plan /\ ep' = ep /\ wire' = wire /\ srvApp' = srvApp
    BY DEF SshInv
  <1>2. ASSUME Both'
        PROVE  /\ (SideOK("client") /\ SideOK("server") /\ AppOK /\ MsgsOK)'
               /\ (\E B : Joint(B) /\ B + Calls(msgs) <= Ops)'
    <2>1. Both
      BY <1>1, <1>2 DEF Both, Running
    <2>2. /\ SideOK("client") /\ SideOK("server") /\ AppOK /\ MsgsOK
          /\ \E B : Joint(B) /\ B + Calls(msgs) <= Ops
      BY <2>1 DEF SshInv
    <2>3. PICK B : Joint(B) /\ B + Calls(msgs) <= Ops
      BY <2>2
    <2>4. (SideOK("client") /\ SideOK("server"))'
      BY <1>1, <2>2 DEF SideOK
    <2>5. Joint(B)'
      BY <1>1, <2>3 DEF Joint, InFlight, Phase
    <2>6. B \in Nat
      BY <2>3 DEF Joint, World
    <2>7. Ops \in Nat /\ Ops' \in Nat
      BY <2>1, <2>2, OpsIs DEF AppOK, AppIs, Ops
    <2>8. IsSeq(msgs) /\ \A i \in DOMAIN msgs : MsgOK(msgs[i])
      BY <2>2 DEF MsgsOK
    <2>9. CASE msgs' = msgs /\ Ops <= Ops'
      <3>1. MsgsOK' /\ Calls(msgs)' = Calls(msgs)
        BY <2>2, <2>9 DEF MsgsOK, Calls
      <3>2. Calls(msgs) \in Nat
        BY <2>8, CallsCat
      <3>3. (B + Calls(msgs) <= Ops)'
        BY <2>3, <2>6, <2>7, <2>9, <3>1, <3>2
      <3> QED BY <2>1, <2>4, <2>5, <3>1, <3>3
    <2>10. CASE \E m : msgs' = Append(msgs, m) /\ MsgOK(m) /\ Call(m) + Ops <= Ops'
      <3>1. PICK m : msgs' = Append(msgs, m) /\ MsgOK(m) /\ Call(m) + Ops <= Ops'
        BY <2>10
      <3>2. PICK q : q = Append(msgs, m)
        OBVIOUS
      <3>3. /\ IsSeq(q) /\ Calls(msgs) \in Nat /\ Call(m) \in {0, 1} /\ Calls(q) = Calls(msgs) + Call(m)
            /\ \A i \in DOMAIN q : q[i] = m \/ (i \in DOMAIN msgs /\ q[i] = msgs[i])
        BY <2>8, <3>2, CallsSent
      <3>4. \A i \in DOMAIN q : MsgOK(q[i])
        BY <2>8, <3>1, <3>3
      <3>5. MsgsOK' /\ Calls(msgs)' = Calls(q)
        BY <3>1, <3>2, <3>3, <3>4 DEF MsgsOK, Calls
      <3>6. (B + Calls(msgs) <= Ops)'
        BY <2>3, <2>6, <2>7, <3>1, <3>3, <3>5
      <3> QED BY <2>1, <2>4, <2>5, <3>5, <3>6
    <2> QED BY <2>1, <2>9, <2>10
  <1> QED BY <1>1, <1>2 DEF SshInv

\* The application takes an event.
LEMMA TakeIs ==
    ASSUME NEW a, AppIs(a), NEW ch, Take(ch, a), plan' = plan
    PROVE  AppOK' /\ app'.pc = a.pc /\ app'.phase = a.phase
  <1>1. PICK v : v = [a.seen EXCEPT ![ch] = Min(Unseen(ch))]
    OBVIOUS
  <1>2. app' = [a EXCEPT !.seen = v]
    BY <1>1 DEF Take
  <1>3. DOMAIN a = {"pc", "phase", "open", "done", "taken", "window", "seen"}
    BY DEF AppIs
  <1>4. /\ DOMAIN app' = DOMAIN a /\ app'.pc = a.pc /\ app'.phase = a.phase /\ app'.open = a.open
        /\ app'.done = a.done /\ app'.window = a.window
    BY <1>2, <1>3
  <1> QED BY <1>4 DEF AppOK, AppIs

\* The next event of a channel is one of the session's.
LEMMA NextIs ==
    ASSUME SshInv, Both, NEW ch, Unseen(ch) # {}
    PROVE  EventOK(NextEvent(ch))
  <1>1. EventsOK(ep.client.events)
    BY DEF SshInv, SideOK, EndOK
  <1>2. IsSeq(ep.client.events) /\ \A i \in DOMAIN ep.client.events : EventOK(ep.client.events[i].event)
    BY <1>1 DEF EventsOK
  <1>3. Len(ep.client.events) \in Nat /\ DOMAIN ep.client.events = 1..Len(ep.client.events)
    BY <1>2, SeqFacts
  <1>4. Unseen(ch) \subseteq DOMAIN ep.client.events
    BY DEF Unseen
  <1>5. Unseen(ch) \subseteq Nat
    BY <1>3, <1>4
  <1>6. Min(Unseen(ch)) \in Unseen(ch)
    BY <1>5, MinIs
  <1> QED BY <1>2, <1>4, <1>6 DEF NextEvent

------------------------------------------------------------------------------
(* Authentication and the opening of channels *)

\* The fields of the application's state.
AppFields == {"pc", "phase", "open", "done", "taken", "window", "seen"}

\* The application goes on with the script.
LEMMA AppMoves ==
    ASSUME AppOK, plan \in Plans, NEW a, DOMAIN a = AppFields, a.pc \in Nat, app.pc <= a.pc, a.pc <= Len(plan.client) + 1,
           a.phase # "run" => a.pc <= Len(plan.client), a.done \in Int,
           a.open = app.open \/ \E ch \in 0..IdSpace - 1 : a.open = Append(app.open, ch),
           a.window = app.window \/ \E ch, w \in Int : a.window = [app.window EXCEPT ![ch] = w]
    PROVE  AppIs(a)
  <1>1. /\ DOMAIN app = AppFields /\ app.pc \in Nat \ {0}
        /\ IsSeq(app.open) /\ (\A i \in DOMAIN app.open : app.open[i] \in 0..IdSpace - 1)
        /\ app.window \in [0..IdSpace - 1 -> Int]
    BY DEF AppOK, AppIs, AppFields
  <1>2. a.pc \in Nat \ {0}
    BY <1>1
  <1>3. IsSeq(a.open) /\ \A i \in DOMAIN a.open : a.open[i] \in 0..IdSpace - 1
    <2>1. CASE a.open = app.open
      BY <1>1, <2>1
    <2>2. CASE \E ch \in 0..IdSpace - 1 : a.open = Append(app.open, ch)
      <3>1. PICK ch \in 0..IdSpace - 1 : a.open = Append(app.open, ch)
        BY <2>2
      <3>2. PICK q : q = app.open
        OBVIOUS
      <3>3. IsSeq(q)
        BY <1>1, <3>2
      <3>4. /\ IsSeq(Append(q, ch))
            /\ \A i \in DOMAIN Append(q, ch) :
                  Append(q, ch)[i] = ch \/ (i \in DOMAIN q /\ Append(q, ch)[i] = q[i])
        BY <3>3, CallsSent
      <3> QED BY <1>1, <3>1, <3>2, <3>4
    <2> QED BY <2>1, <2>2
  <1>4. a.window \in [0..IdSpace - 1 -> Int]
    <2>1. CASE a.window = app.window
      BY <1>1, <2>1
    <2>2. CASE \E ch, w \in Int : a.window = [app.window EXCEPT ![ch] = w]
      <3>1. PICK ch \in Int, w \in Int : a.window = [app.window EXCEPT ![ch] = w]
        BY <2>2
      <3> QED BY <1>1, <3>1
    <2> QED BY <2>1, <2>2
  <1> QED BY <1>2, <1>3, <1>4 DEF AppIs, AppFields

\* What is known when the application takes a step.
LEMMA AppKnown ==
    ASSUME SshInv, Both
    PROVE  /\ AppOK /\ plan \in Plans /\ Len(plan.client) \in Nat /\ DOMAIN app = AppFields
           /\ app.pc \in Nat /\ app.pc <= Len(plan.client) + 1 /\ app.done \in Int
           /\ (app.phase # "run" => app.pc <= Len(plan.client))
           /\ ep.client.last_channel_id \in 0..IdSpace - 1
           /\ app.window \in [0..IdSpace - 1 -> Int] /\ 0 \in 0..IdSpace - 1
           /\ OpChannel \in 0..IdSpace - 1 /\ app.window[OpChannel] \in Int
  <1>1. AppOK /\ plan \in Plans
    BY DEF SshInv
  <1>2. Len(plan.client) \in Nat /\ IdSpace \in Nat /\ 0 < IdSpace
    BY <1>1, ScriptIs
  <1>3. PICK B : Joint(B)
    BY DEF SshInv
  <1>4. ep.client.last_channel_id \in Nat /\ B \in Nat /\ B < IdSpace /\ ep.client.last_channel_id <= B
    BY <1>3 DEF Joint, World, Agreed, Table
  <1>5. ep.client.last_channel_id \in 0..IdSpace - 1 /\ 0 \in 0..IdSpace - 1
    BY <1>2, <1>4
  <1>6. OpChannel \in 0..IdSpace - 1
    BY <1>1, <1>5 DEF OpChannel, AppOK, AppIs
  <1> QED BY <1>1, <1>2, <1>5, <1>6 DEF AppOK, AppIs, AppFields

\* Authentication and the request for a channel.
LEMMA AskKeeps ==
    ASSUME SshInv, Authenticate \/ OpenChannel
    PROVE  SshInv'
  <1>1. UNCHANGED <<plan, ep, wire, srvApp>> /\ plan' = plan
    BY DEF Authenticate, OpenChannel
  <1>2. ASSUME Both PROVE AppOK' /\ \E m : msgs' = Append(msgs, m) /\ MsgOK(m) /\ Call(m) + Ops <= Ops'
    <2>1. /\ AppOK /\ plan \in Plans /\ Len(plan.client) \in Nat /\ DOMAIN app = AppFields
          /\ app.pc \in Nat /\ app.pc <= Len(plan.client) + 1 /\ app.done \in Int
      BY <1>2, AppKnown
    <2>2. PICK ph \in {"auth", "open"} : app' = [app EXCEPT !.phase = ph] /\ app.pc <= Len(plan.client) /\ app.phase = "run"
      BY DEF Authenticate, OpenChannel, HasOp
    <2>3. PICK a : a = [app EXCEPT !.phase = ph]
      OBVIOUS
    <2>4. /\ DOMAIN a = AppFields /\ a.pc = app.pc /\ a.phase = ph /\ a.done = app.done
          /\ a.open = app.open /\ a.window = app.window /\ app' = a
      BY <2>1, <2>2, <2>3 DEF AppFields
    <2>5. AppIs(a)
      BY <2>1, <2>2, <2>4, AppMoves
    <2>6. AppOK'
      BY <1>1, <2>4, <2>5 DEF AppOK, AppIs
    <2>7. Ops = app.pc /\ Ops' = app.pc + 1
      BY <2>1, <2>2, <2>4 DEF Ops
    <2>8. \E m : msgs' = Append(msgs, m) /\ MsgOK(m)
      BY DEF Authenticate, OpenChannel, Send, MsgOK
    <2>9. PICK m : msgs' = Append(msgs, m) /\ MsgOK(m)
      BY <2>8
    <2>10. Call(m) \in {0, 1}
      BY DEF Call
    <2>11. Call(m) + Ops <= Ops'
      BY <2>1, <2>7, <2>10
    <2> QED BY <2>6, <2>9, <2>11
  <1> QED BY <1>1, <1>2, AppKeeps

\* The reply to a request to authenticate.
LEMMA AuthReplyKeeps ==
    ASSUME SshInv, AuthReply
    PROVE  SshInv'
  <1>1. UNCHANGED <<plan, ep, wire, srvApp>> /\ plan' = plan /\ msgs' = msgs /\ app.phase = "auth"
    BY DEF AuthReply
  <1>2. ASSUME Both PROVE AppOK' /\ Ops <= Ops'
    <2>1. /\ AppOK /\ plan \in Plans /\ Len(plan.client) \in Nat /\ DOMAIN app = AppFields
          /\ app.pc \in Nat /\ app.pc <= Len(plan.client) /\ app.done \in Int
      BY <1>1, <1>2, AppKnown
    <2>2. PICK L : L = Len(plan.client)
      OBVIOUS
    <2>3. \E pc \in app.pc + 1..L + 1 : Take(0, [app EXCEPT !.phase = "run", !.pc = pc])
      <3>1. PICK later : later = {i \in app.pc + 1..L : plan.client[i].op # "auth"}
        OBVIOUS
      <3>2. PICK a : a = [app EXCEPT !.phase = "run"]
        OBVIOUS
      <3>3. IF NextEvent(0).t = "AuthSuccess"
            THEN Take(0, [a EXCEPT !.pc = IF later = {} THEN L + 1 ELSE Min(later)])
            ELSE Take(0, IF app.pc < L /\ plan.client[app.pc + 1].op = "auth"
                         THEN [a EXCEPT !.pc = @ + 1] ELSE GiveUp(a))
        BY <2>2, <3>1, <3>2 DEF AuthReply
      <3>4. \A pc : [a EXCEPT !.pc = pc] = [app EXCEPT !.phase = "run", !.pc = pc]
        BY <3>2
      <3>5. a.pc = app.pc /\ a.phase = "run" /\ DOMAIN a = AppFields
        BY <2>1, <3>2 DEF AppFields
      <3>6. CASE NextEvent(0).t = "AuthSuccess"
        <4>1. PICK pc : pc = IF later = {} THEN L + 1 ELSE Min(later)
          OBVIOUS
        <4>2. pc \in app.pc + 1..L + 1
          <5>1. CASE later = {}
            BY <2>1, <2>2, <4>1, <5>1
          <5>2. CASE later # {}
            <6>1. later \subseteq Nat
              BY <2>1, <2>2, <3>1
            <6>2. Min(later) \in later
              BY <5>2, <6>1, MinIs
            <6>3. pc \in app.pc + 1..L
              BY <3>1, <4>1, <5>2, <6>2
            <6> QED BY <2>1, <2>2, <6>3
          <5> QED BY <5>1, <5>2
        <4>3. Take(0, [a EXCEPT !.pc = pc])
          BY <3>3, <3>6, <4>1
        <4> QED BY <3>4, <4>2, <4>3
      <3>7. CASE NextEvent(0).t # "AuthSuccess" /\ app.pc < L /\ plan.client[app.pc + 1].op = "auth"
        <4>1. Take(0, [a EXCEPT !.pc = @ + 1])
          BY <3>3, <3>7
        <4>2. [a EXCEPT !.pc = @ + 1] = [app EXCEPT !.phase = "run", !.pc = app.pc + 1]
          BY <3>2, <3>5
        <4>3. app.pc + 1 \in app.pc + 1..L + 1
          BY <2>1, <2>2
        <4> QED BY <4>1, <4>2, <4>3
      <3>8. CASE NextEvent(0).t # "AuthSuccess" /\ ~(app.pc < L /\ plan.client[app.pc + 1].op = "auth")
        <4>1. Take(0, GiveUp(a))
          BY <3>3, <3>8
        <4>2. GiveUp(a) = [app EXCEPT !.phase = "run", !.pc = L + 1]
          BY <2>1, <2>2, <3>2 DEF GiveUp, AppFields
        <4>3. L + 1 \in app.pc + 1..L + 1
          BY <2>1, <2>2
        <4> QED BY <4>1, <4>2, <4>3
      <3> QED BY <3>6, <3>7, <3>8
    <2>4. PICK pc \in app.pc + 1..L + 1 : Take(0, [app EXCEPT !.phase = "run", !.pc = pc])
      BY <2>3
    <2>5. PICK a : a = [app EXCEPT !.phase = "run", !.pc = pc]
      OBVIOUS
    <2>6. /\ DOMAIN a = AppFields /\ a.pc = pc /\ a.phase = "run" /\ a.done = app.done
          /\ a.open = app.open /\ a.window = app.window
      BY <2>1, <2>5 DEF AppFields
    <2>7. pc \in Nat /\ app.pc <= pc /\ pc <= Len(plan.client) + 1 /\ app.pc + 1 <= pc
      BY <2>1, <2>2
    <2>8. AppIs(a)
      BY <2>1, <2>6, <2>7, AppMoves
    <2>9. AppOK' /\ app'.pc = a.pc /\ app'.phase = a.phase
      BY <1>1, <2>4, <2>5, <2>8, TakeIs
    <2>10. Ops = app.pc + 1 /\ Ops' = pc
      BY <1>1, <2>1, <2>6, <2>7, <2>9 DEF Ops
    <2> QED BY <2>7, <2>9, <2>10
  <1> QED BY <1>1, <1>2, AppKeeps

------------------------------------------------------------------------------
(* The application waits *)

\* Operations begun in a state of the application.
OpsIn(a) == a.pc + (IF a.phase = "run" THEN 0 ELSE 1)

\* The application takes an event, or stays, and goes on.
LEMMA EventKeeps ==
    ASSUME SshInv, UNCHANGED <<plan, ep, wire, srvApp, msgs>>,
           Both => \E a : /\ app' = a \/ \E ch : Take(ch, a)
                          /\ AppIs(a) /\ Ops <= OpsIn(a)
    PROVE  SshInv'
  <1>1. UNCHANGED <<plan, ep, wire, srvApp>> /\ plan' = plan /\ msgs' = msgs
    OBVIOUS
  <1>2. ASSUME Both PROVE AppOK' /\ Ops <= Ops'
    <2>1. PICK a : (app' = a \/ \E ch : Take(ch, a)) /\ AppIs(a) /\ Ops <= OpsIn(a)
      BY <1>2
    <2>2. CASE app' = a
      BY <1>1, <2>1, <2>2 DEF AppOK, AppIs, Ops, OpsIn
    <2>3. CASE \E ch : Take(ch, a)
      <3>1. PICK ch : Take(ch, a)
        BY <2>3
      <3>2. AppOK' /\ app'.pc = a.pc /\ app'.phase = a.phase
        BY <1>1, <2>1, <3>1, TakeIs
      <3> QED BY <2>1, <3>2 DEF Ops, OpsIn
    <2> QED BY <2>1, <2>2, <2>3
  <1> QED BY <1>1, <1>2, AppKeeps

\* The answer to the request for a channel.
LEMMA ConfirmKeeps ==
    ASSUME SshInv, wait_channel_confirmation
    PROVE  SshInv'
  <1>1. UNCHANGED <<plan, ep, wire, srvApp, msgs>> /\ app.phase = "open"
    BY DEF wait_channel_confirmation
  <1>2. ASSUME Both PROVE \E a : (app' = a \/ \E ch : Take(ch, a)) /\ AppIs(a) /\ Ops <= OpsIn(a)
    <2>1. /\ AppOK /\ plan \in Plans /\ Len(plan.client) \in Nat /\ DOMAIN app = AppFields
          /\ app.pc \in Nat /\ app.pc <= Len(plan.client) /\ app.done \in Int
          /\ ep.client.last_channel_id \in 0..IdSpace - 1 /\ 0 \in 0..IdSpace - 1
          /\ app.window \in [0..IdSpace - 1 -> Int]
      BY <1>1, <1>2, AppKnown
    <2>2. PICK ch : ch = ep.client.last_channel_id
      OBVIOUS
    <2>3. PICK ev : ev = NextEvent(ch)
      OBVIOUS
    <2>4. EventOK(ev)
      <3>1. Unseen(ch) # {}
        BY <2>2 DEF wait_channel_confirmation
      <3> QED BY <1>2, <2>3, <3>1, NextIs
    <2>5. PICK b : b = [app EXCEPT !.phase = "run", !.pc = @ + 1]
      OBVIOUS
    <2>6. (CASE ev.t = "Open" -> Take(ch, [b EXCEPT !.open = Append(@, ch), !.window[ch] = ev.window])
             [] ev.t = "Closed" -> Take(ch, [b EXCEPT !.open = Append(@, 0)])
             [] OTHER -> Take(ch, app))
      BY <2>2, <2>3, <2>5 DEF wait_channel_confirmation
    <2>7. /\ DOMAIN b = AppFields /\ b.pc = app.pc + 1 /\ b.phase = "run" /\ b.done = app.done
          /\ b.open = app.open /\ b.window = app.window
      BY <2>1, <2>5 DEF AppFields
    <2>8. Ops = app.pc + 1 /\ app.pc + 1 \in Nat /\ app.pc <= app.pc + 1 /\ app.pc + 1 <= Len(plan.client) + 1
      BY <1>1, <2>1 DEF Ops
    <2>9. CASE ev.t = "Open"
      <3>1. PICK v : v = [app.window EXCEPT ![ch] = ev.window]
        OBVIOUS
      <3>2. PICK a : a = [b EXCEPT !.open = Append(app.open, ch), !.window = v]
        OBVIOUS
      <3>3. Take(ch, a)
        <4>1. Take(ch, [b EXCEPT !.open = Append(@, ch), !.window[ch] = ev.window])
          BY <2>6, <2>9
        <4>2. [b EXCEPT !.open = Append(@, ch), !.window[ch] = ev.window] = a
          BY <2>7, <3>1, <3>2
        <4> QED BY <4>1, <4>2
      <3>4. /\ DOMAIN a = AppFields /\ a.pc = app.pc + 1 /\ a.phase = "run" /\ a.done = app.done
            /\ a.open = Append(app.open, ch) /\ a.window = v
        BY <2>7, <3>2 DEF AppFields
      <3>5. ev.window \in Int /\ ch \in Int /\ ch \in 0..IdSpace - 1
        BY <2>1, <2>2, <2>4, <2>9 DEF EventOK
      <3>6. \E k, w \in Int : a.window = [app.window EXCEPT ![k] = w]
        BY <3>1, <3>4, <3>5
      <3>7. AppIs(a)
        BY <2>1, <2>8, <3>4, <3>5, <3>6, AppMoves
      <3>8. Ops <= OpsIn(a)
        BY <2>8, <3>4 DEF OpsIn
      <3> QED BY <3>3, <3>7, <3>8
    <2>10. CASE ev.t = "Closed"
      <3>1. PICK a : a = [b EXCEPT !.open = Append(app.open, 0)]
        OBVIOUS
      <3>2. Take(ch, a)
        <4>1. ev.t # "Open"
          BY <2>10
        <4>2. Take(ch, [b EXCEPT !.open = Append(@, 0)])
          BY <2>6, <2>10, <4>1
        <4>3. [b EXCEPT !.open = Append(@, 0)] = a
          BY <2>7, <3>1
        <4> QED BY <4>2, <4>3
      <3>3. /\ DOMAIN a = AppFields /\ a.pc = app.pc + 1 /\ a.phase = "run" /\ a.done = app.done
            /\ a.open = Append(app.open, 0) /\ a.window = app.window
        BY <2>7, <3>1 DEF AppFields
      <3>4. AppIs(a)
        BY <2>1, <2>8, <3>3, AppMoves
      <3>5. Ops <= OpsIn(a)
        BY <2>8, <3>3 DEF OpsIn
      <3> QED BY <3>2, <3>4, <3>5
    <2>11. CASE ev.t # "Open" /\ ev.t # "Closed"
      <3>1. Take(ch, app)
        BY <2>6, <2>11
      <3>2. AppIs(app) /\ Ops <= OpsIn(app)
        BY <1>1, <2>1, <2>8 DEF AppOK, Ops, OpsIn
      <3> QED BY <3>1, <3>2
    <2> QED BY <2>9, <2>10, <2>11
  <1> QED BY <1>1, <1>2, EventKeeps

\* The wait for the window.
LEMMA BlockedKeeps ==
    ASSUME SshInv, send_data_blocked
    PROVE  SshInv'
  <1>1. /\ UNCHANGED <<plan, ep, wire, srvApp, msgs>> /\ app.phase = "run"
        /\ app.pc <= Len(plan.client)
    BY DEF send_data_blocked, HasOp
  <1>2. ASSUME Both PROVE \E a : (app' = a \/ \E ch : Take(ch, a)) /\ AppIs(a) /\ Ops <= OpsIn(a)
    <2>1. /\ AppOK /\ plan \in Plans /\ Len(plan.client) \in Nat /\ DOMAIN app = AppFields
          /\ app.pc \in Nat /\ app.done \in Int /\ app.pc <= Len(plan.client) + 1
          /\ OpChannel \in 0..IdSpace - 1 /\ app.window \in [0..IdSpace - 1 -> Int]
      BY <1>2, AppKnown
    <2>2. PICK ch : ch = OpChannel
      OBVIOUS
    <2>3. PICK ev : ev = NextEvent(ch)
      OBVIOUS
    <2>4. EventOK(ev)
      <3>1. Unseen(ch) # {}
        BY <2>2 DEF send_data_blocked
      <3> QED BY <1>2, <2>3, <3>1, NextIs
    <2>5. (CASE ev.t = "WindowAdjusted" -> Take(ch, [app EXCEPT !.window[ch] = ev.new_size])
             [] ev.t = "Data" -> Take(ch, [app EXCEPT !.taken = @ \o TakenBytes(ch, ev.data, FALSE)])
             [] OTHER -> Take(ch, app))
      BY <2>2, <2>3 DEF send_data_blocked
    <2>6. Ops = app.pc
      BY <1>1, <2>1 DEF Ops
    <2>7. CASE ev.t = "WindowAdjusted"
      <3>1. PICK v : v = [app.window EXCEPT ![ch] = ev.new_size]
        OBVIOUS
      <3>2. PICK a : a = [app EXCEPT !.window = v]
        OBVIOUS
      <3>3. Take(ch, a)
        BY <2>5, <2>7, <3>1, <3>2
      <3>4. /\ DOMAIN a = AppFields /\ a.pc = app.pc /\ a.phase = "run" /\ a.done = app.done
            /\ a.open = app.open /\ a.window = v
        BY <1>1, <2>1, <3>2 DEF AppFields
      <3>5. ev.new_size \in Int /\ ch \in Int
        BY <2>1, <2>2, <2>4, <2>7 DEF EventOK
      <3>6. \E k, w \in Int : a.window = [app.window EXCEPT ![k] = w]
        BY <3>1, <3>4, <3>5
      <3>60. a.pc \in Nat /\ app.pc <= a.pc /\ a.pc <= Len(plan.client) + 1 /\ a.done \in Int /\ a.phase = "run"
        BY <2>1, <3>4
      <3>7. AppIs(a)
        BY <2>1, <3>4, <3>6, <3>60, AppMoves
      <3>8. Ops <= OpsIn(a)
        BY <2>1, <2>6, <3>4 DEF OpsIn
      <3> QED BY <3>3, <3>7, <3>8
    <2>9. CASE ev.t = "Data"
      <3>1. PICK a : a = [app EXCEPT !.taken = @ \o TakenBytes(ch, ev.data, FALSE)]
        OBVIOUS
      <3>2. Take(ch, a)
        <4>1. ev.t # "WindowAdjusted"
          BY <2>9
        <4> QED BY <2>5, <2>9, <3>1, <4>1
      <3>3. /\ DOMAIN a = AppFields /\ a.pc = app.pc /\ a.phase = "run" /\ a.done = app.done
            /\ a.open = app.open /\ a.window = app.window
        BY <1>1, <2>1, <3>1 DEF AppFields
      <3>4. AppIs(a)
        BY <1>1, <2>1, <3>3, AppMoves
      <3>5. Ops <= OpsIn(a)
        BY <2>1, <2>6, <3>3 DEF OpsIn
      <3> QED BY <3>2, <3>4, <3>5
    <2>10. CASE ev.t \notin {"WindowAdjusted", "Data"}
      <3>1. Take(ch, app)
        BY <2>5, <2>10
      <3>2. AppIs(app) /\ Ops <= OpsIn(app)
        BY <1>1, <2>1, <2>6 DEF AppOK, Ops, OpsIn
      <3> QED BY <3>1, <3>2
    <2> QED BY <2>7, <2>9, <2>10
  <1> QED BY <1>1, <1>2, EventKeeps

\* The wait for a message.
LEMMA WaitKeeps ==
    ASSUME SshInv, wait
    PROVE  SshInv'
  <1>1. /\ UNCHANGED <<plan, ep, wire, srvApp, msgs>> /\ app.phase = "run"
        /\ app.pc <= Len(plan.client)
    BY DEF wait, HasOp
  <1>2. ASSUME Both PROVE \E a : (app' = a \/ \E ch : Take(ch, a)) /\ AppIs(a) /\ Ops <= OpsIn(a)
    <2>1. /\ AppOK /\ plan \in Plans /\ Len(plan.client) \in Nat /\ DOMAIN app = AppFields
          /\ app.pc \in Nat /\ app.done \in Int /\ app.pc <= Len(plan.client) + 1
          /\ OpChannel \in 0..IdSpace - 1 /\ app.window \in [0..IdSpace - 1 -> Int]
      BY <1>2, AppKnown
    <2>2. PICK ch : ch = OpChannel
      OBVIOUS
    <2>3. PICK ev : ev = NextEvent(ch)
      OBVIOUS
    <2>4. EventOK(ev)
      <3>1. Unseen(ch) # {}
        BY <2>2 DEF wait
      <3> QED BY <1>2, <2>3, <3>1, NextIs
    <2>5. PICK b : b = [app EXCEPT !.pc = @ + 1]
      OBVIOUS
    <2>6. (CASE ev.t = "WindowAdjusted" -> Take(ch, [b EXCEPT !.window[ch] = @ + ev.new_size])
             [] ev.t = "Closed" -> app' = b
             [] ev.t = "Data" -> Take(ch, [b EXCEPT !.taken = @ \o TakenBytes(ch, ev.data, TRUE)])
             [] OTHER -> Take(ch, b))
      BY <2>2, <2>3, <2>5 DEF wait
    <2>7. Ops = app.pc
      BY <1>1, <2>1 DEF Ops
    <2>8. /\ DOMAIN b = AppFields /\ b.pc = app.pc + 1 /\ b.phase = "run" /\ b.done = app.done
          /\ b.open = app.open /\ b.window = app.window
      BY <1>1, <2>1, <2>5 DEF AppFields
    <2>9. app.pc + 1 \in Nat /\ app.pc <= app.pc + 1 /\ app.pc + 1 <= Len(plan.client) + 1
      BY <1>1, <2>1
    <2>10. AppIs(b) /\ Ops <= OpsIn(b)
      <3>1. AppIs(b)
        BY <2>1, <2>8, <2>9, AppMoves
      <3>2. Ops <= OpsIn(b)
        BY <2>1, <2>7, <2>8 DEF OpsIn
      <3> QED BY <3>1, <3>2
    <2>11. CASE ev.t = "WindowAdjusted"
      <3>0. PICK w : w = app.window[ch] + ev.new_size
        OBVIOUS
      <3>1. PICK v : v = [app.window EXCEPT ![ch] = w]
        OBVIOUS
      <3>2. PICK a : a = [b EXCEPT !.window = v]
        OBVIOUS
      <3>3. Take(ch, a)
        <4>1. Take(ch, [b EXCEPT !.window[ch] = @ + ev.new_size])
          BY <2>6, <2>11
        <4>2. [b EXCEPT !.window[ch] = @ + ev.new_size] = a
          BY <2>1, <2>2, <2>8, <3>0, <3>1, <3>2
        <4> QED BY <4>1, <4>2
      <3>4. /\ DOMAIN a = AppFields /\ a.pc = app.pc + 1 /\ a.phase = "run" /\ a.done = app.done
            /\ a.open = app.open /\ a.window = v
        BY <2>8, <3>2 DEF AppFields
      <3>5. w \in Int /\ ch \in Int
        BY <2>1, <2>2, <2>4, <2>11, <3>0 DEF EventOK
      <3>6. \E k, x \in Int : a.window = [app.window EXCEPT ![k] = x]
        BY <3>1, <3>4, <3>5
      <3>7. AppIs(a)
        BY <2>1, <2>9, <3>4, <3>6, AppMoves
      <3>8. Ops <= OpsIn(a)
        BY <2>1, <2>7, <3>4 DEF OpsIn
      <3> QED BY <3>3, <3>7, <3>8
    <2>12. CASE ev.t = "Closed"
      <3>1. ev.t # "WindowAdjusted"
        BY <2>12
      <3> QED BY <2>6, <2>10, <2>12, <3>1
    <2>13. CASE ev.t = "Data"
      <3>1. PICK a : a = [b EXCEPT !.taken = @ \o TakenBytes(ch, ev.data, TRUE)]
        OBVIOUS
      <3>2. Take(ch, a)
        <4>1. ev.t # "WindowAdjusted" /\ ev.t # "Closed"
          BY <2>13
        <4> QED BY <2>6, <2>13, <3>1, <4>1
      <3>3. /\ DOMAIN a = AppFields /\ a.pc = app.pc + 1 /\ a.phase = "run" /\ a.done = app.done
            /\ a.open = app.open /\ a.window = app.window
        BY <2>8, <3>1 DEF AppFields
      <3>4. AppIs(a)
        BY <2>1, <2>9, <3>3, AppMoves
      <3>5. Ops <= OpsIn(a)
        BY <2>1, <2>7, <3>3 DEF OpsIn
      <3> QED BY <3>2, <3>4, <3>5
    <2>14. CASE ev.t \notin {"WindowAdjusted", "Closed", "Data"}
      BY <2>6, <2>10, <2>14
    <2> QED BY <2>11, <2>12, <2>13, <2>14
  <1> QED BY <1>1, <1>2, EventKeeps

\* An operation that the application skips.
LEMMA SkipKeeps ==
    ASSUME SshInv, Skip
    PROVE  SshInv'
  <1>1. UNCHANGED <<plan, ep, wire, srvApp, msgs>>
    BY DEF Skip
  <1>2. ASSUME Both PROVE \E a : (app' = a \/ \E ch : Take(ch, a)) /\ AppIs(a) /\ Ops <= OpsIn(a)
    <2>1. /\ AppOK /\ plan \in Plans /\ Len(plan.client) \in Nat /\ DOMAIN app = AppFields
          /\ app.pc \in Nat /\ app.done \in Int
      BY <1>2, AppKnown
    <2>2. PICK a : a = [app EXCEPT !.pc = @ + 1]
      OBVIOUS
    <2>3. app' = a /\ app.pc <= Len(plan.client) /\ app.phase = "run"
      BY <1>2, <2>2 DEF Skip, Both
    <2>4. /\ DOMAIN a = AppFields /\ a.pc = app.pc + 1 /\ a.phase = "run" /\ a.done = app.done
          /\ a.open = app.open /\ a.window = app.window
      BY <2>1, <2>2, <2>3 DEF AppFields
    <2>5. app.pc + 1 \in Nat /\ app.pc <= app.pc + 1 /\ app.pc + 1 <= Len(plan.client) + 1
      BY <2>1, <2>3
    <2>6. AppIs(a)
      BY <2>1, <2>4, <2>5, AppMoves
    <2>7. Ops <= OpsIn(a)
      BY <2>1, <2>3, <2>4 DEF Ops, OpsIn
    <2> QED BY <2>3, <2>6, <2>7
  <1> QED BY <1>1, <1>2, EventKeeps

------------------------------------------------------------------------------
(* The application sends; the theorem *)

\* Data is sent as far as the window goes.
LEMMA SendKeeps ==
    ASSUME SshInv, send_data
    PROVE  SshInv'
  <1>1. /\ UNCHANGED <<plan, ep, wire, srvApp>> /\ app.phase = "run" /\ plan' = plan
        /\ app.pc <= Len(plan.client) /\ Op.op = "send"
    BY DEF send_data, HasOp
  <1>2. ASSUME Both PROVE AppOK' /\ \E m : msgs' = Append(msgs, m) /\ MsgOK(m) /\ Call(m) + Ops <= Ops'
    <2>1. /\ AppOK /\ plan \in Plans /\ Len(plan.client) \in Nat /\ DOMAIN app = AppFields
          /\ app.pc \in Nat /\ app.done \in Int /\ app.pc <= Len(plan.client) + 1
          /\ OpChannel \in 0..IdSpace - 1 /\ app.window \in [0..IdSpace - 1 -> Int]
      BY <1>2, AppKnown
    <2>2. PICK ch : ch = OpChannel
      OBVIOUS
    <2>3. PICK left : left = Op.n - app.done
      OBVIOUS
    <2>4. PICK n : n = Min({left, app.window[ch], MaxPacketSize})
      OBVIOUS
    <2>5. n \in Int /\ ch \in Int /\ app.window[ch] \in Int
      <3>1. app.pc \in 1..Len(plan.client)
        BY <1>1, <2>1 DEF AppOK, AppIs
      <3>2. Op.n \in Nat
        BY <1>1, <2>1, <3>1, ScriptIs DEF Op
      <3>3. left \in Int /\ app.window[ch] \in Int /\ MaxPacketSize \in Int /\ ch \in Int
        BY <2>1, <2>2, <2>3, <3>2, SshConnectionAssumption
      <3> QED BY <2>4, <3>3, MinOf
    <2>6. Ops = app.pc
      BY <1>1, <2>1 DEF Ops
    <2>7. /\ Send([t |-> "Data", ch |-> ch, data |-> Bytes("client", n)])
          /\ app' = IF n = 0 THEN [app EXCEPT !.pc = @ + 1, !.done = 0]
                    ELSE [app EXCEPT !.window[ch] = @ - n, !.done = @ + n]
      BY <2>2, <2>3, <2>4 DEF send_data
    <2>71. PICK m : msgs' = Append(msgs, m) /\ MsgOK(m) /\ Call(m) = 0
      <3>1. PICK x : x = Bytes("client", n)
        OBVIOUS
      <3>2. IsSeq(x)
        BY <2>5, <3>1, BytesIs
      <3>3. PICK m : m = [t |-> "Data", ch |-> ch, data |-> x]
        OBVIOUS
      <3>4. msgs' = Append(msgs, m)
        BY <2>7, <3>1, <3>3 DEF Send
      <3>5. m.t = "Data" /\ m.data = x
        BY <3>3
      <3>6. MsgOK(m) /\ Call(m) = 0
        BY <3>2, <3>5 DEF MsgOK, Call
      <3> QED BY <3>4, <3>6
    <2>8. CASE n = 0
      <3>1. PICK a : a = [app EXCEPT !.pc = @ + 1, !.done = 0]
        OBVIOUS
      <3>2. app' = a
        BY <2>7, <2>8, <3>1
      <3>3. /\ DOMAIN a = AppFields /\ a.pc = app.pc + 1 /\ a.phase = app.phase /\ a.done = 0
            /\ a.open = app.open /\ a.window = app.window
        BY <2>1, <3>1 DEF AppFields
      <3>4. /\ a.pc \in Nat /\ app.pc <= a.pc /\ a.pc <= Len(plan.client) + 1 /\ a.done \in Int
            /\ a.phase = "run"
        BY <1>1, <2>1, <3>3
      <3>5. AppIs(a)
        BY <2>1, <3>3, <3>4, AppMoves
      <3>6. AppOK' /\ Ops' = app.pc + 1
        BY <1>1, <2>1, <3>2, <3>3, <3>5 DEF AppOK, AppIs, Ops
      <3>7. Call(m) + Ops <= Ops'
        BY <2>1, <2>6, <2>71, <3>6
      <3> QED BY <2>71, <3>6, <3>7
    <2>9. CASE n # 0
      <3>1. PICK v : v = [app.window EXCEPT ![ch] = app.window[ch] - n]
        OBVIOUS
      <3>2. PICK a : a = [app EXCEPT !.window = v, !.done = app.done + n]
        OBVIOUS
      <3>3. app' = a
        <4>1. app' = [app EXCEPT !.window[ch] = @ - n, !.done = @ + n]
          BY <2>7, <2>9
        <4>2. [app EXCEPT !.window[ch] = @ - n, !.done = @ + n] = a
          BY <2>1, <2>2, <3>1, <3>2 DEF AppFields
        <4> QED BY <4>1, <4>2
      <3>4. /\ DOMAIN a = AppFields /\ a.pc = app.pc /\ a.phase = app.phase /\ a.done = app.done + n
            /\ a.open = app.open /\ a.window = v
        BY <2>1, <3>2 DEF AppFields
      <3>5. /\ a.pc \in Nat /\ app.pc <= a.pc /\ a.pc <= Len(plan.client) + 1 /\ a.done \in Int
            /\ a.phase = "run"
        BY <1>1, <2>1, <2>5, <3>4
      <3>6. \E k, w \in Int : a.window = [app.window EXCEPT ![k] = w]
        <4>1. PICK w : w = app.window[ch] - n
          OBVIOUS
        <4>2. w \in Int /\ a.window = [app.window EXCEPT ![ch] = w]
          BY <2>5, <3>1, <3>4, <4>1
        <4> QED BY <2>5, <4>2
      <3>7. AppIs(a)
        BY <2>1, <3>4, <3>5, <3>6, AppMoves
      <3>8. AppOK' /\ Ops' = app.pc
        BY <1>1, <2>1, <3>3, <3>4, <3>7 DEF AppOK, AppIs, Ops
      <3>9. Call(m) + Ops <= Ops'
        BY <2>1, <2>6, <2>71, <3>8
      <3> QED BY <2>71, <3>8, <3>9
    <2> QED BY <2>8, <2>9
  <1> QED BY <1>1, <1>2, AppKeeps

\* The channel is closed while the application waits for the window.
LEMMA ClosedKeeps ==
    ASSUME SshInv, send_data_closed
    PROVE  SshInv'
  <1>1. /\ UNCHANGED <<plan, ep, wire, srvApp>> /\ app.phase = "run" /\ plan' = plan
        /\ app.pc <= Len(plan.client)
    BY DEF send_data_closed, HasOp
  <1>2. ASSUME Both PROVE AppOK' /\ \E m : msgs' = Append(msgs, m) /\ MsgOK(m) /\ Call(m) + Ops <= Ops'
    <2>1. /\ AppOK /\ plan \in Plans /\ Len(plan.client) \in Nat /\ DOMAIN app = AppFields
          /\ app.pc \in Nat /\ app.done \in Int
      BY <1>2, AppKnown
    <2>2. PICK a : a = [app EXCEPT !.pc = @ + 1, !.done = 0]
      OBVIOUS
    <2>3. app' = a
      BY <2>2 DEF send_data_closed
    <2>4. /\ DOMAIN a = AppFields /\ a.pc = app.pc + 1 /\ a.phase = app.phase /\ a.done = 0
          /\ a.open = app.open /\ a.window = app.window
      BY <2>1, <2>2 DEF AppFields
    <2>5. /\ a.pc \in Nat /\ app.pc <= a.pc /\ a.pc <= Len(plan.client) + 1 /\ a.phase = "run"
          /\ a.done \in Int
      BY <1>1, <2>1, <2>4
    <2>6. AppIs(a)
      BY <2>1, <2>4, <2>5, AppMoves
    <2>7. AppOK' /\ Ops = app.pc /\ Ops' = app.pc + 1
      BY <1>1, <2>1, <2>3, <2>4, <2>6 DEF AppOK, AppIs, Ops
    <2>8. PICK x : x = <<>> /\ IsSeq(x)
      BY FlowNone DEF Flow
    <2>9. PICK m : m = [t |-> "Data", ch |-> OpChannel, data |-> x]
      OBVIOUS
    <2>10. msgs' = Append(msgs, m)
      BY <2>8, <2>9 DEF send_data_closed, Send
    <2>11. m.t = "Data" /\ m.data = x
      BY <2>9
    <2>12. MsgOK(m) /\ Call(m) = 0
      BY <2>8, <2>11 DEF MsgOK, Call
    <2>13. Call(m) + Ops <= Ops'
      BY <2>1, <2>7, <2>12
    <2> QED BY <2>7, <2>10, <2>12, <2>13
  <1> QED BY <1>1, <1>2, AppKeeps

\* A request, the end of the data, or the end of the session.
LEMMA SimpleKeeps ==
    ASSUME SshInv, Simple
    PROVE  SshInv'
  <1>1. /\ UNCHANGED <<plan, ep, wire, srvApp>> /\ app.phase = "run" /\ plan' = plan
        /\ app.pc <= Len(plan.client) /\ Op.op \in {"request", "eof", "global", "disconnect"}
    BY DEF Simple, HasOp
  <1>2. ASSUME Both PROVE AppOK' /\ \E m : msgs' = Append(msgs, m) /\ MsgOK(m) /\ Call(m) + Ops <= Ops'
    <2>1. /\ AppOK /\ plan \in Plans /\ Len(plan.client) \in Nat /\ DOMAIN app = AppFields
          /\ app.pc \in Nat /\ app.done \in Int
      BY <1>2, AppKnown
    <2>2. PICK a : a = [app EXCEPT !.pc = @ + 1]
      OBVIOUS
    <2>3. app' = a
      BY <2>2 DEF Simple
    <2>4. /\ DOMAIN a = AppFields /\ a.pc = app.pc + 1 /\ a.phase = app.phase /\ a.done = app.done
          /\ a.open = app.open /\ a.window = app.window
      BY <2>1, <2>2 DEF AppFields
    <2>5. /\ a.pc \in Nat /\ app.pc <= a.pc /\ a.pc <= Len(plan.client) + 1 /\ a.phase = "run"
      BY <1>1, <2>1, <2>4
    <2>6. AppIs(a)
      BY <2>1, <2>4, <2>5, AppMoves
    <2>7. AppOK' /\ Ops = app.pc /\ Ops' = app.pc + 1
      BY <1>1, <2>1, <2>3, <2>4, <2>6 DEF AppOK, AppIs, Ops
    <2>8. PICK m : m = CASE Op.op = "request" -> [t |-> "Request", ch |-> OpChannel, req |-> Op.req,
                                                  want_reply |-> Op.want_reply]
                         [] Op.op = "eof" -> [t |-> "Eof", ch |-> OpChannel]
                         [] Op.op = "global" -> [t |-> "Global", req |-> Op.req]
                         [] Op.op = "disconnect" -> [t |-> "Disconnect"]
      OBVIOUS
    <2>9. msgs' = Append(msgs, m)
      BY <2>8 DEF Simple, Send
    <2>10. m.t \in {"Request", "Eof", "Global", "Disconnect"}
      BY <1>1, <2>8
    <2>11. MsgOK(m) /\ Call(m) \in {0, 1}
      BY <2>10 DEF MsgOK, Call
    <2>12. Call(m) + Ops <= Ops'
      BY <2>1, <2>7, <2>11
    <2> QED BY <2>7, <2>9, <2>11, <2>12
  <1> QED BY <1>1, <1>2, AppKeeps

\* Nothing changes.
LEMMA StutterKeeps ==
    ASSUME SshInv, UNCHANGED vars
    PROVE  SshInv'
  <1>1. /\ UNCHANGED <<plan, ep, wire, srvApp, msgs>> /\ app' = app
    BY DEF vars
  <1>2. ASSUME Both PROVE \E a : (app' = a \/ \E ch : Take(ch, a)) /\ AppIs(a) /\ Ops <= OpsIn(a)
    <2>1. AppIs(app) /\ Ops \in Nat
      BY <1>2, OpsIs DEF SshInv, AppOK
    <2>2. Ops <= OpsIn(app)
      BY <2>1 DEF Ops, OpsIn
    <2> QED BY <1>1, <2>1, <2>2
  <1> QED BY <1>1, <1>2, EventKeeps

\* Every step keeps the invariant.
LEMMA SshStep == SshInv /\ [Next]_vars => SshInv'
  <1> SUFFICES ASSUME SshInv, [Next]_vars PROVE SshInv'
    OBVIOUS
  <1>1. ASSUME NEW s \in Sides, Read(s) PROVE SshInv'
    BY <1>1, ReadKeeps
  <1>2. ASSUME NEW s \in Sides, EndOfStream(s) PROVE SshInv'
    BY <1>2, EndKeeps
  <1>3. CASE ClientTakesMsg
    BY <1>3, TakeKeeps
  <1>4. CASE ServerTakesMsg
    BY <1>4, ServerKeeps
  <1>5. CASE ServerTimeout
    BY <1>5, EndKeeps
  <1>50. CASE ClientDropped
    BY <1>50, EndKeeps
  <1>6. CASE Application
    <2>1. CASE Authenticate \/ OpenChannel
      BY <2>1, AskKeeps
    <2>2. CASE AuthReply
      BY <2>2, AuthReplyKeeps
    <2>3. CASE wait_channel_confirmation
      BY <2>3, ConfirmKeeps
    <2>4. CASE send_data
      BY <2>4, SendKeeps
    <2>5. CASE send_data_blocked
      BY <2>5, BlockedKeeps
    <2>50. CASE send_data_closed
      BY <2>50, ClosedKeeps
    <2>6. CASE wait
      BY <2>6, WaitKeeps
    <2>7. CASE Simple
      BY <2>7, SimpleKeeps
    <2>8. CASE Skip
      BY <2>8, SkipKeeps
    <2> QED BY <1>6, <2>1, <2>2, <2>3, <2>4, <2>5, <2>50, <2>6, <2>7, <2>8 DEF Application
  <1>7. CASE UNCHANGED vars
    BY <1>7, StutterKeeps
  <1> QED BY <1>1, <1>2, <1>3, <1>4, <1>5, <1>50, <1>6, <1>7 DEF Next

\* Both ends of every SSH channel agree on both windows, whatever the
\* applications do and whenever keys are exchanged: what the sender may
\* still send, the bytes on their way and the credit on its way back add
\* up to what the receiver is ready to take.
THEOREM WindowsKept == Spec => []WindowsAgree
  BY SshStart, SshStep, WindowsFollow, PTL DEF Spec

\* What is on its way to a channel fits into the window of its receiver.
WindowsSuffice ==
    Both => \A q \in Pairs :
        /\ DataFor(q[2], InFlight("client")) <= ep.server.channels[q[2]].sender_window_size
        /\ DataFor(q[1], InFlight("server")) <= ep.client.channels[q[1]].sender_window_size

\* No end ever sends more than the other is ready to take, so that
\* adjust_window_size never meets the extra data that it leaves out of its
\* account.
THEOREM WindowsNeverOverrun == Spec => []WindowsSuffice
  <1>1. SshInv => WindowsSuffice
    <2> SUFFICES ASSUME SshInv, Both, NEW q \in Pairs
                 PROVE  /\ DataFor(q[2], InFlight("client")) <= ep.server.channels[q[2]].sender_window_size
                        /\ DataFor(q[1], InFlight("server")) <= ep.client.channels[q[1]].sender_window_size
      BY DEF WindowsSuffice
    <2>1. PICK B : Joint(B)
      BY DEF SshInv
    <2>2. PICK CT : CT = ep.client.channels
      OBVIOUS
    <2>3. PICK ST : ST = ep.server.channels
      OBVIOUS
    <2>4. PICK cs : cs = InFlight("client")
      OBVIOUS
    <2>5. PICK sc : sc = InFlight("server")
      OBVIOUS
    <2>6. /\ Account(CT, ST, cs, sc) /\ Account(ST, CT, sc, cs) /\ Flow(cs) /\ Flow(sc)
          /\ Linked(CT, ep.client.last_channel_id, ST, ep.server.last_channel_id)
          /\ Table(CT, ep.client.last_channel_id) /\ Table(ST, ep.server.last_channel_id)
      BY <2>1, <2>2, <2>3, <2>4, <2>5 DEF Joint, World, Agreed
    <2>7. PICK c : c = q[1]
      OBVIOUS
    <2>8. PICK d : d = q[2]
      OBVIOUS
    <2>9. c \in DOMAIN CT /\ d \in DOMAIN ST /\ CT[c].confirmed /\ CT[c].recipient_channel = d
      BY <2>2, <2>3, <2>7, <2>8 DEF Pairs
    <2>10. ST[d].confirmed /\ ST[d].recipient_channel = c
      BY <2>6, <2>9 DEF Linked
    <2>11. CT[c].recipient_window_size + DataFor(d, cs) + CreditFor(c, sc) = ST[d].sender_window_size
      BY <2>6, <2>9 DEF Account
    <2>12. ST[d].recipient_window_size + DataFor(c, sc) + CreditFor(d, cs) = CT[c].sender_window_size
      BY <2>6, <2>9, <2>10 DEF Account
    <2>13. CT[c].recipient_window_size \in Nat /\ ST[d].recipient_window_size \in Nat
      BY <2>6, <2>9 DEF Table
    <2>14. /\ DataFor(d, cs) \in Nat /\ CreditFor(d, cs) \in Nat
           /\ DataFor(c, sc) \in Nat /\ CreditFor(c, sc) \in Nat
      BY <2>6, FlowSums
    <2>15. DataFor(d, cs) <= ST[d].sender_window_size /\ DataFor(c, sc) <= CT[c].sender_window_size
      BY <2>11, <2>12, <2>13, <2>14
    <2> QED BY <2>2, <2>3, <2>4, <2>5, <2>7, <2>8, <2>15
  <1> QED BY <1>1, SshStart, SshStep, PTL DEF Spec

\* How far the ends are in a key exchange and which of its packets are on
\* their way fit together, and an end that is in none can start one.
KeysInStep ==
    Both => /\ Exchanging(Phase(ep.client), Phase(ep.server), InFlight("client"), InFlight("server"))
            /\ ExchangeIsKept

\* Key exchanges stay in step for every plan, also when both ends start one at
\* the same time, or one starts while the other is about to end the last.
THEOREM KeyExchangesInStep == Spec => []KeysInStep
  <1>1. SshInv => KeysInStep
    <2> SUFFICES ASSUME SshInv, Both PROVE KeysInStep
      BY DEF KeysInStep
    <2>1. Exchanging(Phase(ep.client), Phase(ep.server), InFlight("client"), InFlight("server"))
      BY DEF SshInv, Joint, World
    <2>2. ASSUME NEW s \in Sides, ep[s].state # "None" PROVE ep[s].exchange <=> ep[s].rekey = "None"
      <3>1. Shape(ep[s])
        BY DEF SshInv, SideOK, Sides
      <3> QED BY <2>2, <3>1 DEF Shape
    <2> QED BY <2>1, <2>2 DEF KeysInStep, ExchangeIsKept
  <1> QED BY <1>1, SshStart, SshStep, PTL DEF Spec

\* Two channels that one of the ends takes for a pair are taken for one by
\* the other end as well.
ChannelsPointBack ==
    Both => /\ \A q \in Pairs : /\ ep.server.channels[q[2]].confirmed
                                /\ ep.server.channels[q[2]].recipient_channel = q[1]
            /\ \A q, r \in Pairs : q[1] = r[1] <=> q[2] = r[2]

\* No two channels of an end lead to one channel of the other, whatever is
\* refused, closed and opened again: numbers are not used twice.
THEOREM ChannelsPaired == Spec => []ChannelsPointBack
  <1>1. SshInv => ChannelsPointBack
    <2> SUFFICES ASSUME SshInv, Both PROVE ChannelsPointBack
      BY DEF ChannelsPointBack
    <2>1. Linked(ep.client.channels, ep.client.last_channel_id, ep.server.channels, ep.server.last_channel_id)
      BY DEF SshInv, Joint, World, Agreed
    <2>2. ASSUME NEW q \in Pairs
          PROVE  /\ ep.server.channels[q[2]].confirmed
                 /\ ep.server.channels[q[2]].recipient_channel = q[1]
                 /\ ep.client.channels[q[1]].recipient_channel = q[2]
      BY <2>1, <2>2 DEF Linked, Pairs
    <2> QED BY <2>2 DEF ChannelsPointBack
  <1> QED BY <1>1, SshStart, SshStep, PTL DEF Spec

------------------------------------------------------------------------------
(* The streams of a PUT *)

\* The point in create of a process that holds the listener.
Holding == {"connect", "accept", "close"}

FactoryTypeOK ==
    /\ create \in [Fuzzers -> Holding \cup {"bind", "panic"}]
    /\ listener \in SUBSET Fuzzers
    /\ backlog \in Seq(Fuzzers)
    /\ pairs \in [Fuzzers -> Seq([fuzz : Fuzzers, put : Fuzzers])]

\* The name is bound by the one process that is between bind and drop.
OneListener ==
    /\ \A f \in Fuzzers : f \in listener <=> create[f] \in Holding
    /\ \A f, g \in listener : f = g

\* What waits at the listener is the stream of the process that holds it,
\* from its connect to its accept.
BacklogIsOwn ==
    \/ backlog = <<>> /\ \A f \in Fuzzers : create[f] # "accept"
    \/ \E f \in Fuzzers : backlog = <<f>> /\ create[f] = "accept"

FactoryInv == FactoryTypeOK /\ OneListener /\ BacklogIsOwn /\ StreamsArePaired

\* At the beginning nobody holds the name.
LEMMA FactoryInitInv == FactoryInit => FactoryInv
  BY DEF FactoryInit, FactoryInv, FactoryTypeOK, OneListener, BacklogIsOwn, StreamsArePaired, Holding

\* Each step of create keeps the listener and its backlog with one process.
LEMMA FactoryStepInv == FactoryInv /\ [FactoryNext]_factoryVars => FactoryInv'
<1> SUFFICES ASSUME FactoryInv, [FactoryNext]_factoryVars PROVE FactoryInv'
  OBVIOUS
<1> USE DEF FactoryInv, FactoryTypeOK, OneListener, BacklogIsOwn, Holding
<1>1. CASE UNCHANGED factoryVars
  BY <1>1 DEF factoryVars, StreamsArePaired
<1>2. ASSUME NEW f \in Fuzzers, bind_addr(f) PROVE FactoryInv'
  BY <1>2, ZenonT(30) DEF bind_addr, StreamsArePaired
<1>3. ASSUME NEW f \in Fuzzers, connect_addr(f) PROVE FactoryInv'
  <2>1. backlog = <<>> /\ listener = {f}
    BY <1>3 DEF connect_addr
  <2>2. backlog' = <<f>>
    BY <1>3, <2>1 DEF connect_addr
  <2> QED
    BY <1>3, <2>1, <2>2 DEF connect_addr, StreamsArePaired
<1>4. ASSUME NEW f \in Fuzzers, incoming(f) PROVE FactoryInv'
  <2>1. backlog = <<f>> /\ listener = {f}
    BY <1>4 DEF incoming
  <2>2. Head(backlog) = f /\ Tail(backlog) = <<>>
    BY <2>1
  <2> DEFINE pair == [fuzz |-> f, put |-> f]
  <2>3. /\ pairs' = [pairs EXCEPT ![f] = Append(@, pair)]
        /\ backlog' = <<>> /\ create' = [create EXCEPT ![f] = "close"] /\ listener' = listener
    BY <1>4, <2>1, <2>2 DEF incoming
  <2>4. FactoryTypeOK' /\ OneListener' /\ BacklogIsOwn'
    BY <2>1, <2>3
  <2>5. ASSUME NEW g \in Fuzzers, NEW i \in DOMAIN pairs'[g]
        PROVE pairs'[g][i].put = pairs'[g][i].fuzz
    <3>1. CASE g # f
      BY <2>3, <2>5, <3>1 DEF StreamsArePaired
    <3>2. CASE g = f
      <4>1. pairs[f] \in Seq([fuzz : Fuzzers, put : Fuzzers]) /\ pairs'[g] = Append(pairs[f], pair)
        BY <2>3, <3>2
      <4>2. i \in 1..Len(pairs[f]) + 1
        BY <4>1, <2>5
      <4>3. pairs'[g][i] = pair \/ (i \in DOMAIN pairs[f] /\ pairs'[g][i] = pairs[f][i])
        BY <4>1, <4>2
      <4> QED
        BY <4>3 DEF StreamsArePaired
    <3> QED
      BY <3>1, <3>2
  <2> QED
    BY <2>4, <2>5 DEF StreamsArePaired
<1>5. ASSUME NEW f \in Fuzzers, drop_listener(f) PROVE FactoryInv'
  BY <1>5 DEF drop_listener, StreamsArePaired
<1> QED
  BY <1>1, <1>2, <1>3, <1>4, <1>5 DEF FactoryNext, FactoryStep

\* One process at a time is between bind and drop.
LEMMA FactoryInvariant == FactorySpec => []FactoryInv
  BY FactoryInitInv, FactoryStepInv, PTL DEF FactorySpec

\* LibSSLFactory::create: whatever the interleaving of the processes on the
\* one socket name, the two streams of a PUT belong to one process.
THEOREM PairedStreams == FactorySpec => []StreamsArePaired
  BY FactoryInvariant, PTL DEF FactoryInv

\* The unwrap of listener.incoming().next() never meets the WouldBlock of an
\* empty backlog, although the listener does not block: the stream that the
\* process connected before waits there, and it is the only one.
AcceptFindsStream == \A f \in Fuzzers : create[f] = "accept" => backlog = <<f>>

\* The only panic of create is the one of a bind to a name in use.
THEOREM AcceptNeverPanics ==
    FactorySpec => []AcceptFindsStream /\ [][\A f \in Fuzzers : incoming(f) => create'[f] = "close"]_factoryVars
<1>1. FactoryInv => AcceptFindsStream
  BY DEF FactoryInv, FactoryTypeOK, OneListener, BacklogIsOwn, AcceptFindsStream, Holding
<1>2. FactoryInv /\ [FactoryNext]_factoryVars
        => [\A f \in Fuzzers : incoming(f) => create'[f] = "close"]_factoryVars
  <2> SUFFICES ASSUME FactoryInv, NEW f \in Fuzzers, incoming(f) PROVE create'[f] = "close"
    OBVIOUS
  <2>1. backlog = <<f>>
    BY <1>1 DEF AcceptFindsStream, incoming
  <2>2. create' = [create EXCEPT ![f] = "close"]
    BY <2>1 DEF incoming
  <2> QED
    BY <2>2 DEF FactoryInv, FactoryTypeOK
<1> QED
  BY <1>1, <1>2, FactoryInvariant, PTL DEF FactorySpec
==============================================================================
