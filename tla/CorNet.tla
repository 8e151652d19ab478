------------------------------- MODULE CorNet --------------------------------
(***************************************************************************)
(* The sockets of coroutines: a client connects and writes a message in    *)
(* two calls, a server listens, accepts and reads it in one call.  Over    *)
(* UDP there is no connection: both use sockets from the builder.          *)
(*                                                                         *)
(* write() and read() loop over write_some() and read_some(), which start  *)
(* an Asio operation and yield; a TCP call gives up after a timeout.  The  *)
(* size that a call returns is a variable of its frame that only the       *)
(* operation's handler writes.  A wait ends with the operation or with the *)
(* timeout, as TimedWait says, or fails at once when no timer is left;     *)
(* when it times out is left open.  The handler of an operation that the   *)
(* timeout has canceled runs late; all it can do to a later call on the    *)
(* closed socket is what happens to that anyway: the call fails.           *)
(*                                                                         *)
(* The transport is Asio and the kernel.  TCP keeps the order of bytes;    *)
(* UDP may lose, double and reorder datagrams.  A byte is its position in  *)
(* the message.  Both programs close their sockets when they are done.     *)
(*                                                                         *)
(* A definition named Slip... is a likely mistake in the definition that   *)
(* follows it; no behaviour of the module uses it.                         *)
(***************************************************************************)
EXTENDS Integers, Sequences

CONSTANTS
    Part,           \* the bytes of one write()
    Room            \* the bytes that are under way in a TCP connection at most

ASSUME PartAssumption == Part \in Nat \ {0} /\ Room \in Nat \ {0}

Total == 2 * Part
Sides == {"client", "server"}
Peer  == [client |-> "server", server |-> "client"]

\* What an int that nobody wrote may hold: nothing, a plausible size, too much.
Junk == -1 .. Total + 1

VARIABLES
    kind,           \* "tcp" or "udp"
    link,           \* the connection: "none", "backlog" (to be accepted) or "up"
    listening,      \* the acceptor is open
    pc,             \* where each program is
    open,           \* its socket is open
    op,             \* the operation it waits for: "none", "pending" or "ended"
    size,           \* wrote_size, read_size or ret, as the operation's handler left it
    base,           \* the bytes of its calls that have returned true
    remain,         \* remain_data_sz
    timedOut,       \* a wait of its current call has timed out
    wire,           \* the bytes under way, or the datagrams
    sent,           \* the bytes that the transport has accepted, in order
    buffer          \* the server's buffer: a byte, or 0

connVars == <<kind, link, listening>>
callVars == <<base, remain, timedOut>>
dataVars == <<wire, sent, buffer>>
vars == <<connVars, pc, open, op, size, callVars, dataVars>>

TypeOK ==
    /\ kind \in {"tcp", "udp"}
    /\ link \in {"none", "backlog", "up"}
    /\ listening \in BOOLEAN
    /\ pc \in [Sides -> {"begin", "builder", "opening", "call", "loop", "some", "advance",
                         "done", "failed", "null"}]
    /\ open \in [Sides -> BOOLEAN]
    /\ op \in [Sides -> {"none", "pending", "ended"}]
    /\ size \in [Sides -> Junk]
    /\ base \in [Sides -> 0 .. Total]
    /\ remain \in [Sides -> 0 .. Total]
    /\ timedOut \in [Sides -> BOOLEAN]
    /\ sent \in Seq(1 .. Total) /\ Len(sent) <= Total
    /\ buffer \in [1 .. Total -> 0 .. Total]
    /\ kind = "tcp" => wire \in Seq(1 .. Total) /\ Len(wire) <= Room
    /\ kind = "udp" => wire \subseteq Seq(1 .. Total)

Init ==
    /\ kind \in {"tcp", "udp"}
    /\ link = "none" /\ listening = FALSE
    /\ pc = [s \in Sides |-> IF kind = "tcp" THEN "begin" ELSE "call"]
    /\ open = [s \in Sides |-> kind = "udp"]
    /\ op = [s \in Sides |-> "none"]
    /\ size = [s \in Sides |-> 0]
    /\ base = [s \in Sides |-> 0]
    /\ remain = [s \in Sides |-> 0]
    /\ timedOut = [s \in Sides |-> FALSE]
    /\ wire = IF kind = "tcp" THEN <<>> ELSE {}
    /\ sent = <<>>
    /\ buffer = [i \in 1 .. Total |-> 0]

At(s, l) == pc[s] = l
Goto(s, l) == pc' = [pc EXCEPT ![s] = l]

\* The program ends, and closes its socket.
Leave(s, l) == Goto(s, l) /\ open' = [open EXCEPT ![s] = FALSE]

\* An operation's handler runs and stores what it was told.
Handle(s, n) ==
    /\ op[s] = "pending"
    /\ op' = [op EXCEPT ![s] = "ended"]
    /\ size' = [size EXCEPT ![s] = n]

-----------------------------------------------------------------------------
(* cor_tcp_socket_builder                                                  *)

\* listen(): on an error the acceptor is closed.
Listen ==
    /\ At("server", "begin")
    /\ \/ listening' = TRUE /\ Goto("server", "builder")
       \/ Goto("server", "null") /\ UNCHANGED listening
    /\ UNCHANGED <<kind, link, open, op, size, callVars, dataVars>>

\* accept() and connect() start their operation; accept() has no timeout.
StartOpening(s) ==
    /\ At(s, IF s = "server" THEN "builder" ELSE "begin")
    /\ op' = [op EXCEPT ![s] = "pending"]
    /\ Goto(s, "opening")
    /\ UNCHANGED <<connVars, open, size, callVars, dataVars>>

ConnectHandler ==
    /\ At("client", "opening")
    /\ \/ listening /\ Handle("client", 0) /\ link' = "backlog"
       \/ Handle("client", -1) /\ UNCHANGED link
    /\ UNCHANGED <<kind, listening, pc, open, callVars, dataVars>>

AcceptHandler ==
    /\ At("server", "opening")
    /\ \/ link = "backlog" /\ Handle("server", 0) /\ link' = "up"
       \/ Handle("server", -1) /\ UNCHANGED link
    /\ UNCHANGED <<kind, listening, pc, open, callVars, dataVars>>

\* The wait is over: a socket, or null.
Opened(s) ==
    /\ At(s, "opening") /\ op[s] = "ended"
    /\ op' = [op EXCEPT ![s] = "none"]
    /\ \/ /\ size[s] = 0
          /\ open' = [open EXCEPT ![s] = TRUE]
          /\ Goto(s, "call")
       \/ /\ size[s] < 0
          /\ Goto(s, "null")
          /\ UNCHANGED open
    /\ UNCHANGED <<connVars, size, callVars, dataVars>>

\* connect() fails at once, when the pool has no timer.
OpeningFails ==
    /\ At("client", "begin")
    /\ Goto("client", "null")
    /\ UNCHANGED <<connVars, open, op, size, callVars, dataVars>>

\* connect() times out: ret is 1, which is not below 0, and the caller gets a
\* socket that may connect later.  The client is not followed any further.
ConnectTimeout ==
    /\ At("client", "opening")
    /\ timedOut' = [timedOut EXCEPT !["client"] = TRUE]
    /\ op' = [op EXCEPT !["client"] = "none"]
    /\ Goto("client", "done")
    /\ UNCHANGED <<connVars, open, size, base, remain, dataVars>>

-----------------------------------------------------------------------------
(* write() and read()                                                      *)

Amount(s) == IF s = "client" THEN Part ELSE Total

Call(s) ==
    /\ At(s, "call")
    /\ remain' = [remain EXCEPT ![s] = Amount(s)]
    /\ timedOut' = [timedOut EXCEPT ![s] = FALSE]
    /\ Goto(s, "loop")
    /\ UNCHANGED <<connVars, open, op, size, base, dataVars>>

\* write_some() or read_some() starts its operation and waits.
StartSome(s) ==
    /\ At(s, "loop") /\ open[s]
    /\ op' = [op EXCEPT ![s] = "pending"]
    /\ Goto(s, "some")
    /\ UNCHANGED <<connVars, open, size, callVars, dataVars>>

\* It fails at once, when the pool has no timer or the socket is closed.
SomeFails(s) ==
    /\ At(s, "loop") /\ kind = "tcp"
    /\ size' = [size EXCEPT ![s] = -1]
    /\ Goto(s, "advance")
    /\ UNCHANGED <<connVars, open, op, callVars, dataVars>>

\* Slip: every round of the loop starts at the beginning of the buffer.
SlipOffset(s) == base[s]

\* Where the next byte of a call is in the message.
Offset(s) == base[s] + Amount(s) - remain[s]
Next1(s, n) == [i \in 1 .. n |-> Offset(s) + i]

\* async_write_some: TCP accepts some of the bytes, async_send_to all of them.
WriteHandler ==
    /\ At("client", "some")
    /\ \E n \in 1 .. remain["client"] :
        /\ \/ kind = "tcp" /\ Len(wire) + n <= Room /\ wire' = wire \o Next1("client", n)
           \/ kind = "udp" /\ n = remain["client"] /\ wire' = wire \cup {Next1("client", n)}
        /\ Handle("client", n)
        /\ sent' = sent \o Next1("client", n)
    /\ UNCHANGED <<connVars, pc, open, callVars, buffer>>

\* The bytes go to the buffer, at the place that the loop has reached.
Store(bytes) ==
    buffer' = [i \in 1 .. Total |->
        LET k == i - Offset("server") IN IF k \in DOMAIN bytes THEN bytes[k] ELSE buffer[i]]

\* async_read_some: some of the bytes that have come ...
ReadHandler ==
    /\ At("server", "some") /\ kind = "tcp"
    /\ \E n \in 1 .. remain["server"] :
        /\ n <= Len(wire)
        /\ Handle("server", n)
        /\ Store(SubSeq(wire, 1, n))
        /\ wire' = SubSeq(wire, n + 1, Len(wire))
    /\ UNCHANGED <<connVars, pc, open, callVars, sent>>

\* ... or the end of the stream, which read_some takes for 0 bytes.
EndOfStream ==
    /\ At("server", "some") /\ kind = "tcp"
    /\ wire = <<>> /\ ~open["client"]
    /\ Handle("server", 0)
    /\ UNCHANGED <<connVars, pc, open, callVars, dataVars>>

\* async_receive_from: one datagram, cut to what there is room for.
ReceiveHandler ==
    /\ At("server", "some") /\ kind = "udp"
    /\ \E d \in wire :
        LET n == IF Len(d) < remain["server"] THEN Len(d) ELSE remain["server"] IN
        /\ Handle("server", n)
        /\ Store(SubSeq(d, 1, n))
        /\ wire' \in {wire, wire \ {d}}
    /\ UNCHANGED <<connVars, pc, open, callVars, sent>>

\* A datagram is lost.
Lose ==
    /\ kind = "udp"
    /\ \E d \in wire : wire' = wire \ {d}
    /\ UNCHANGED <<connVars, pc, open, op, size, callVars, sent, buffer>>

\* An operation fails: the network, or a peer that is gone.
ErrorHandler(s) ==
    /\ At(s, "some")
    /\ Handle(s, -1)
    /\ UNCHANGED <<connVars, pc, open, callVars, dataVars>>

\* The wait ends with the operation.
SomeEnds(s) ==
    /\ At(s, "some") /\ op[s] = "ended"
    /\ op' = [op EXCEPT ![s] = "none"]
    /\ Goto(s, "advance")
    /\ UNCHANGED <<connVars, open, size, callVars, dataVars>>

\* Slip: the timeout does not close the socket.
SlipSomeTimeout(s) ==
    /\ At(s, "some") /\ kind = "tcp"
    /\ timedOut' = [timedOut EXCEPT ![s] = TRUE]
    /\ \/ op[s] = "ended" /\ UNCHANGED size
       \/ op[s] = "pending" /\ \E n \in Junk : size' = [size EXCEPT ![s] = n]
    /\ op' = [op EXCEPT ![s] = "none"]
    /\ Goto(s, "advance")
    /\ UNCHANGED <<connVars, open, base, remain, dataVars>>

\* The wait ends with the timeout, which closes the socket.  cor_yield returns
\* 1, which is not below 0: the call returns the size, and unless the handler
\* has run as well nobody wrote it.
SomeTimeout(s) ==
    /\ At(s, "some") /\ kind = "tcp"
    /\ timedOut' = [timedOut EXCEPT ![s] = TRUE]
    /\ \/ op[s] = "ended" /\ UNCHANGED size
       \/ op[s] = "pending" /\ \E n \in Junk : size' = [size EXCEPT ![s] = n]
    /\ op' = [op EXCEPT ![s] = "none"]
    /\ open' = [open EXCEPT ![s] = FALSE]
    /\ Goto(s, "advance")
    /\ UNCHANGED <<connVars, base, remain, dataVars>>

\* Slip: a size above what remains is taken off all the same.
SlipAdvance(s) ==
    /\ At(s, "advance")
    /\ \/ /\ size[s] < 0
          /\ Leave(s, "failed")
          /\ UNCHANGED remain
       \/ /\ size[s] >= 0
          /\ remain' = [remain EXCEPT ![s] = @ - size[s]]
          /\ Leave(s, IF remain'[s] > 0 THEN "loop" ELSE "done")
    /\ UNCHANGED <<connVars, op, size, base, timedOut, dataVars>>

\* The loop: an error, more than was asked for, or a step on.  After the last
\* byte the call returns true.
Advance(s) ==
    /\ At(s, "advance")
    /\ \/ /\ size[s] < 0 \/ size[s] > remain[s]
          /\ Leave(s, "failed")
          /\ UNCHANGED <<base, remain>>
       \/ /\ size[s] \in 0 .. remain[s] - 1
          /\ remain' = [remain EXCEPT ![s] = @ - size[s]]
          /\ Goto(s, "loop")
          /\ UNCHANGED <<base, open>>
       \/ /\ size[s] = remain[s]
          /\ remain' = [remain EXCEPT ![s] = 0]
          /\ base' = [base EXCEPT ![s] = @ + Amount(s)]
          /\ IF base'[s] = Total THEN Leave(s, "done") ELSE Goto(s, "call") /\ UNCHANGED open
    /\ UNCHANGED <<connVars, op, size, timedOut, dataVars>>

-----------------------------------------------------------------------------
Open(s) == StartOpening(s) \/ Opened(s)
Some(s) == StartSome(s) \/ SomeFails(s) \/ SomeEnds(s)
Loop(s) == Call(s) \/ Some(s) \/ Advance(s)
Client  == Open("client") \/ OpeningFails \/ Loop("client")
Server  == Listen \/ Open("server") \/ Loop("server")

Network ==
    \/ ConnectHandler \/ AcceptHandler \/ WriteHandler \/ ReadHandler \/ EndOfStream
    \/ ReceiveHandler \/ Lose
    \/ \E s \in Sides : ErrorHandler(s)

Timeouts == ConnectTimeout \/ \E s \in Sides : SomeTimeout(s)

Next == Client \/ Server \/ Network \/ Timeouts

Spec == Init /\ [][Next]_vars

\* The coroutines run; nothing is assumed of the network, and no timeout need come.
FairSpec == Spec /\ WF_vars(Client) /\ WF_vars(Server)

-----------------------------------------------------------------------------
(* Properties.                                                             *)

\* A call of this side returned true, or a socket, just now.
Succeeded(s) == pc[s] = "done" \/ (pc[s] = "call" /\ base[s] > 0)

\* What success is: the transport has all bytes up to this call once and in
\* order; the server has the whole message.  Datagrams may come in any order,
\* more than once or not at all, but the buffer is full.
Achieved(s) ==
    IF s = "client"
    THEN sent = [i \in 1 .. base[s] |-> i] /\ base[s] > 0
    ELSE \A i \in 1 .. Total : IF kind = "tcp" THEN buffer[i] = i ELSE buffer[i] # 0

\* A call that returns true without a timeout has done what it says, however
\* the transport cut the bytes.
TrueMeansDone == \A s \in Sides : Succeeded(s) /\ ~timedOut[s] => Achieved(s)

\* ret: 0, ok; 1 timeout: a call that timed out does not report success.
TimeoutIsNoSuccess == \A s \in Sides : Succeeded(s) => Achieved(s)

\* Whatever times out, the two loops never skip, double or exchange a byte of a
\* TCP stream: what is in the buffer is where it was in the message.
NoGaps == kind = "tcp" => \A i \in 1 .. Total : buffer[i] \in {0, i}

InCall(s) == pc[s] \in {"loop", "some", "advance"}

\* A TCP call ends, whatever the network does, if timeouts come (TimedYield shows
\* that they do for first waits only): a wait that has timed out closes the socket,
\* which ends the loop whatever size the call returned.  A read may also go on for
\* ever because it finds the end of the stream again and again.
CallsEnd ==
    \/ kind # "tcp"
    \/ \E s \in Sides : ~WF_vars(SomeTimeout(s))
    \/ /\ InCall("client") ~> ~InCall("client")
       /\ \/ InCall("server") ~> ~InCall("server")
          \/ []<><<EndOfStream>>_vars
=============================================================================
