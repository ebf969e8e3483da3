---------------------------- MODULE MCSshSession ----------------------------
(***************************************************************************)
(* Small instances of SshSession: windows of two packets, packets of as    *)
(* much data as a header is long, and scripts for the two applications.    *)
(***************************************************************************)
EXTENDS SshSession

Auth(m) == [op |-> "auth", method |-> m]
Open(t) == [op |-> "open", type |-> t]
SendOp(i, n) == [op |-> "send", i |-> i, n |-> n]
WaitOp(i) == [op |-> "wait", i |-> i]
Request(i, r, w) == [op |-> "request", i |-> i, req |-> r, want_reply |-> w]

Plan(c, s, accepted, rc, rs, zlib, timeout) ==
    [client |-> c, server |-> s, methods |-> {"password", "publickey"}, accepted |-> accepted,
     rekeys |-> [client |-> rc, server |-> rs], zlib |-> zlib, timeout |-> timeout]

Data(n) == [op |-> "data", ch |-> 2, n |-> n]

\* A re-exchange by the client at any time, with more data than a window.
Upload == Plan(<<Auth("password"), Open("session"), SendOp(1, 30)>>, <<>>,
               {"password"}, 1, 0, FALSE, FALSE)

\* Re-exchanges by both sides while the server sends more than two windows.
Download == Plan(<<Auth("publickey"), Open("session"), WaitOp(1), WaitOp(1)>>,
                 <<Data(45)>>, {"publickey"}, 1, 1, FALSE, FALSE)

\* Data in both directions, a refused channel, a channel that the server
\* opens, requests and the end, with compression.
Talk == Plan(<<Auth("password"), Auth("publickey"), Open("unknown"),
               [op |-> "global", req |-> "tcpip-forward"], Open("session"), SendOp(1, 5),
               Request(2, "shell", TRUE), Request(2, "other", TRUE), SendOp(2, 25),
               [op |-> "eof", i |-> 2], [op |-> "disconnect"]>>,
             <<[op |-> "success", ch |-> 3], [Data(15) EXCEPT !.ch = 3],
               [op |-> "extended_data", ch |-> 3, n |-> 5],
               [op |-> "exit_status", ch |-> 3], [op |-> "eof", ch |-> 3]>>,
             {"publickey"}, 0, 0, TRUE, FALSE)

\* No method is left, and a server that may time out.
Rejected == Plan(<<Auth("password"), Auth("password")>>, <<>>, {}, 1, 0, FALSE, TRUE)

\* A channel that the server closes.
Closing == Plan(<<Auth("password"), Open("x11"), WaitOp(1), WaitOp(1)>>,
                <<Data(10), [op |-> "close", ch |-> 2]>>, {"password"}, 0, 1, FALSE, FALSE)

\* More packets than the limit on queued reads admits, which a re-exchange of
\* the client may meet.
Chatter == Plan(<<Auth("password"), Open("session")>>, [i \in 1..5 |-> Data(1)],
                {"password"}, 1, 0, FALSE, FALSE)

\* Client data queued by a server that has started a re-exchange.
Queued == Plan(<<Auth("password"), Open("session"), SendOp(1, 15)>>, <<>>,
               {"password"}, 0, 1, FALSE, FALSE)

PlansValue == {Upload, Download, Talk, Rejected, Closing, Chatter, Queued}

QueuedValue == {Queued}
=============================================================================
