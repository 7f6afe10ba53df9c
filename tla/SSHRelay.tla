------------------------------ MODULE SSHRelay ------------------------------
(***************************************************************************)
(* An SSH session from the client to the VM: the SSH server of ssh-proxy   *)
(* (internal/server), its relay over a mux stream (tunnelhandler), and the *)
(* relay of the compute-agent (muxclient/handler.go).  Each connection     *)
(* opens at most one direct-tcpip channel; what its ticket depends on is   *)
(* modelled in UserAccess.                                                 *)
(*                                                                         *)
(* A copy loop ends when the side it reads from ends; when only the side   *)
(* it writes to is closed it may sit in its read.  Closing an SSH channel  *)
(* sends CLOSE and no more: its reader waits for the client's answer or    *)
(* the end of the transport, and so does a writer out of window.  Deadlines*)
(* and timers may fire at any time.                                        *)
(***************************************************************************)
EXTENDS Integers, FiniteSets

CONSTANTS
    Clients,             \* SSH connections, each made once
    Silent,              \* those that need not read on, nor answer CLOSE
    MaxConcurrentConns

ASSUME SSHRelayAssumption ==
    IsFiniteSet(Clients) /\ Silent \subseteq Clients /\ MaxConcurrentConns \in Nat

VARIABLES
    stop,     \* the context of ssh-proxy is cancelled
    serve,    \* Serve: "accept", "conns" and "channels" (its two waits), "returned"
    slots,    \* connSlots in use
    conn,     \* handleConn of each connection
    link,     \* the TCP connection of each client is up
    chan,     \* handleDirectTCPIP of the channel of each connection
    ssh,      \* the channel: "open", "eof" (client sent EOF), "closing" (only
              \* ssh-proxy sent CLOSE) or "closed"
    stream,   \* the mux stream: "none", "open" or "closed"
    relay,    \* handleStream at the agent
    vm,       \* the connection to the VM: "none", "open" or "closed"
    copies    \* copy loops that run, of the four of a session

serverVars == <<stop, serve, slots, conn, link>>
relayVars == <<chan, ssh, stream, relay, vm, copies>>
sshVars == <<serverVars, relayVars>>

-----------------------------------------------------------------------------
(* State *)

Copies == {"proxy up", "proxy down", "agent up", "agent down"}

RelayTypeOK ==
    /\ stop \in BOOLEAN /\ serve \in {"accept", "conns", "channels", "returned"}
    /\ slots \in 0..MaxConcurrentConns
    /\ conn \in [Clients -> {"new", "handshake", "serving", "returned", "dropped"}]
    /\ link \in [Clients -> BOOLEAN]
    /\ chan \in [Clients -> {"none", "opened", "ticket", "header", "relay", "drain", "done"}]
    /\ ssh \in [Clients -> {"open", "eof", "closing", "closed"}]
    /\ stream \in [Clients -> {"none", "open", "closed"}]
    /\ relay \in [Clients -> {"none", "header", "relay", "drain", "done"}]
    /\ vm \in [Clients -> {"none", "open", "closed"}]
    /\ copies \in [Clients -> SUBSET Copies]

RelayInit ==
    /\ stop = FALSE /\ serve = "accept" /\ slots = 0
    /\ conn = [c \in Clients |-> "new"]
    /\ link = [c \in Clients |-> FALSE]
    /\ chan = [c \in Clients |-> "none"] /\ ssh = [c \in Clients |-> "closed"]
    /\ stream = [c \in Clients |-> "none"]
    /\ relay = [c \in Clients |-> "none"]
    /\ vm = [c \in Clients |-> "none"]
    /\ copies = [c \in Clients |-> {}]

Set(f, c, value) == [f EXCEPT ![c] = value]

InFlight(c) == conn[c] \in {"handshake", "serving"}

\* handleDirectTCPIP of this channel has not returned: it counts in channelWG.
Handling(c) == chan[c] \notin {"none", "done"}

-----------------------------------------------------------------------------
(* The SSH server *)

\* Serve accepts, until lis.Close takes effect; a connection over the cap is
\* closed at once.
AcceptConn(c) ==
    /\ serve = "accept" /\ conn[c] = "new"
    /\ IF slots < MaxConcurrentConns
       THEN /\ slots' = slots + 1
            /\ conn' = Set(conn, c, "handshake") /\ link' = Set(link, c, TRUE)
       ELSE conn' = Set(conn, c, "dropped") /\ UNCHANGED <<slots, link>>
    /\ UNCHANGED <<stop, serve, relayVars>>

\* The handshake is done; the idle timer starts.
Handshake(c) ==
    /\ conn[c] = "handshake" /\ link[c]
    /\ conn' = Set(conn, c, "serving")
    /\ UNCHANGED <<stop, serve, slots, link, relayVars>>

\* No deadline on the handshake: a transport that went silent is waited for.
ConnReturns_NoDeadline(c) ==
    /\ conn[c] = "serving" /\ ~link[c]
    /\ conn' = Set(conn, c, "returned")
    /\ slots' = slots - 1
    /\ UNCHANGED <<stop, serve, link, relayVars>>

\* handleConn returns when its transport is gone, and gives its slot back.
ConnReturns(c) ==
    /\ InFlight(c) /\ ~link[c]
    /\ conn' = Set(conn, c, "returned")
    /\ slots' = slots - 1
    /\ UNCHANGED <<stop, serve, link, relayVars>>

\* The transport ends: the client leaves, the network fails, or the handshake
\* deadline passes.  The channel of the connection goes with it.
LinkDown(c) ==
    /\ link[c]
    /\ link' = Set(link, c, FALSE) /\ ssh' = Set(ssh, c, "closed")
    /\ UNCHANGED <<stop, serve, slots, conn, chan, stream,
                   relay, vm, copies>>

\* The idle timer, stopped by the first channel, fires: sshConn.Close().
IdleTimeout(c) == conn[c] = "serving" /\ chan[c] = "none" /\ LinkDown(c)

\* The client opens a direct-tcpip channel and a handler starts; other channel
\* types are rejected.
OpenChannel(c) ==
    /\ conn[c] = "serving" /\ link[c] /\ chan[c] = "none"
    /\ chan' = Set(chan, c, "opened") /\ ssh' = Set(ssh, c, "open")
    /\ UNCHANGED <<stop, serve, slots, conn, link, stream, relay, vm,
                   copies>>

\* SIGTERM: the context ends and with it the listener.
Stop ==
    /\ ~stop /\ stop' = TRUE
    /\ UNCHANGED <<serve, slots, conn, link, relayVars>>

\* Returning after the connections, without the channels.
ServeReturns_NoChannelWait ==
    /\ \/ serve = "accept" /\ stop /\ serve' = "conns"
       \/ serve = "conns" /\ (\A c \in Clients : ~InFlight(c)) /\ serve' = "returned"
    /\ UNCHANGED <<stop, slots, conn, link, relayVars>>

\* Accept fails: wg.Wait for the connections, channelWG.Wait for the channels.
ServeReturns ==
    /\ \/ serve = "accept" /\ stop /\ serve' = "conns"
       \/ serve = "conns" /\ (\A c \in Clients : ~InFlight(c)) /\ serve' = "channels"
       \/ serve = "channels" /\ (\A c \in Clients : ~Handling(c)) /\ serve' = "returned"
    /\ UNCHANGED <<stop, slots, conn, link, relayVars>>

-----------------------------------------------------------------------------
(* The relay of ssh-proxy *)

\* A target in the zone, on port 22: the ticket is asked for.
handleDirectTCPIP(c) ==
    /\ chan[c] = "opened"
    /\ chan' = Set(chan, c, "ticket")
    /\ UNCHANGED <<serverVars, ssh, stream, relay, vm, copies>>

\* The ticket is there and has not expired: OpenStream on the session of the
\* node, whether or not the client is still there or the context done.
OpenStream(c) ==
    /\ chan[c] = "ticket"
    /\ stream' = Set(stream, c, "open") /\ chan' = Set(chan, c, "header")
    /\ UNCHANGED <<serverVars, ssh, relay, vm, copies>>

\* ch.Close(), which the reader does not notice.
CloseChannel(at) == IF at = "open" THEN "closing" ELSE at

\* Rejected target, no ticket or an expired one, no session of the node, error,
\* timeout, or a context that is done: the channel is closed, and nobody waits
\* for the client's answer.
GiveUp(c) ==
    /\ chan[c] \in {"opened", "ticket"}
    /\ chan' = Set(chan, c, "done") /\ ssh' = Set(ssh, c, "closed")
    /\ UNCHANGED <<serverVars, stream, relay, vm, copies>>

\* The header is written; both copy loops start, and the agent has a stream.
WriteHeader(c) ==
    /\ chan[c] = "header" /\ stream[c] = "open"
    /\ chan' = Set(chan, c, "relay") /\ relay' = Set(relay, c, "header")
    /\ copies' = [copies EXCEPT ![c] = @ \cup {"proxy up", "proxy down"}]
    /\ UNCHANGED <<serverVars, ssh, stream, vm>>

\* Write error or its deadline.
WriteHeaderFails(c) ==
    /\ chan[c] = "header"
    /\ chan' = Set(chan, c, "done")
    /\ stream' = Set(stream, c, "closed") /\ ssh' = Set(ssh, c, "closed")
    /\ UNCHANGED <<serverVars, relay, vm, copies>>

\* io.Copy(stream, ch) ends when the client has sent EOF or CLOSE or its link
\* is down, or on a write to a closed stream; then it closes the stream.
ProxyUpEnds(c) ==
    /\ "proxy up" \in copies[c] /\ (ssh[c] \in {"eof", "closed"} \/ stream[c] = "closed")
    /\ copies' = [copies EXCEPT ![c] = @ \ {"proxy up"}]
    /\ stream' = Set(stream, c, "closed")
    /\ UNCHANGED <<serverVars, chan, ssh, relay, vm>>

\* io.Copy(ch, stream) ends on EOF of the stream, or on a write to a closed
\* channel.
ProxyDownEnds(c) ==
    /\ "proxy down" \in copies[c] /\ (stream[c] = "closed" \/ ssh[c] \in {"closing", "closed"})
    /\ copies' = [copies EXCEPT ![c] = @ \ {"proxy down"}]
    /\ UNCHANGED <<serverVars, chan, ssh, stream, relay, vm>>

\* Waiting for both copy loops before closing either side.
RelayReturns_WaitsForBoth(c) ==
    /\ chan[c] = "relay" /\ {"proxy up", "proxy down"} \cap copies[c] = {}
    /\ chan' = Set(chan, c, "done")
    /\ stream' = Set(stream, c, "closed") /\ ssh' = Set(ssh, c, "closed")
    /\ UNCHANGED <<serverVars, relay, vm, copies>>

\* <-done; closeBoth(); <-done
RelayReturns(c) ==
    LET left == {"proxy up", "proxy down"} \cap copies[c] IN
    /\ \/ /\ chan[c] = "relay" /\ Cardinality(left) < 2
          /\ chan' = Set(chan, c, "drain")
          /\ stream' = Set(stream, c, "closed") /\ ssh' = Set(ssh, c, CloseChannel(ssh[c]))
       \/ /\ chan[c] = "drain" /\ left = {}
          /\ chan' = Set(chan, c, "done") /\ ssh' = Set(ssh, c, "closed")
          /\ UNCHANGED stream
    /\ UNCHANGED <<serverVars, relay, vm, copies>>

\* The context of ssh-proxy ends: the watcher of OpenStream closes the stream,
\* the one of Relay closes both sides.
ContextDone(c) ==
    /\ stop
    /\ stream[c] = "open" \/ (chan[c] = "relay" /\ ssh[c] = "open")
    /\ stream' = Set(stream, c, "closed")
    /\ ssh' = IF chan[c] = "relay" THEN Set(ssh, c, CloseChannel(ssh[c])) ELSE ssh
    /\ UNCHANGED <<serverVars, chan, relay, vm, copies>>

ClientEOF(c) ==
    /\ ssh[c] = "open"
    /\ ssh' = Set(ssh, c, "eof")
    /\ UNCHANGED <<serverVars, chan, stream, relay, vm, copies>>

\* The client closes the channel, or answers that ssh-proxy closed it.
ClientCloses(c) ==
    /\ ssh[c] # "closed"
    /\ ssh' = Set(ssh, c, "closed")
    /\ UNCHANGED <<serverVars, chan, stream, relay, vm, copies>>

\* The mux session fails or is replaced: its streams end.
StreamBreaks(c) ==
    /\ stream[c] = "open"
    /\ stream' = Set(stream, c, "closed")
    /\ UNCHANGED <<serverVars, chan, ssh, relay, vm, copies>>

-----------------------------------------------------------------------------
(* The relay of the compute-agent *)

\* handleStream reads the header and dials the VM.
DialVM(c) ==
    /\ relay[c] = "header"
    /\ relay' = Set(relay, c, "relay") /\ vm' = Set(vm, c, "open")
    /\ copies' = [copies EXCEPT ![c] = @ \cup {"agent up", "agent down"}]
    /\ UNCHANGED <<serverVars, chan, ssh, stream>>

\* Bad header, its deadline, an expired ticket, or nobody answers the dial.
StreamRefused(c) ==
    /\ relay[c] = "header"
    /\ relay' = Set(relay, c, "done") /\ stream' = Set(stream, c, "closed")
    /\ UNCHANGED <<serverVars, chan, ssh, vm, copies>>

\* io.Copy(vm, stream) ends on EOF of the stream, or on a write to a closed
\* connection.
AgentUpEnds(c) ==
    /\ "agent up" \in copies[c] /\ (stream[c] = "closed" \/ vm[c] = "closed")
    /\ copies' = [copies EXCEPT ![c] = @ \ {"agent up"}]
    /\ UNCHANGED <<serverVars, chan, ssh, stream, relay, vm>>

\* io.Copy(stream, vm) ends on EOF of the VM, or on a write to a closed
\* stream; then it closes the stream.
AgentDownEnds(c) ==
    /\ "agent down" \in copies[c] /\ (vm[c] = "closed" \/ stream[c] = "closed")
    /\ copies' = [copies EXCEPT ![c] = @ \ {"agent down"}]
    /\ stream' = Set(stream, c, "closed")
    /\ UNCHANGED <<serverVars, chan, ssh, relay, vm>>

\* <-done; closeBoth(); <-done
relayBytes(c) ==
    LET left == {"agent up", "agent down"} \cap copies[c] IN
    /\ \/ /\ relay[c] = "relay" /\ Cardinality(left) < 2
          /\ relay' = Set(relay, c, "drain")
          /\ stream' = Set(stream, c, "closed") /\ vm' = Set(vm, c, "closed")
       \/ /\ relay[c] = "drain" /\ left = {}
          /\ relay' = Set(relay, c, "done") /\ UNCHANGED <<stream, vm>>
    /\ UNCHANGED <<serverVars, chan, ssh, copies>>

\* The bound on a whole session, or the agent's context: closeBoth().
AgentCloses(c) ==
    /\ relay[c] = "relay"
    /\ stream' = Set(stream, c, "closed") /\ vm' = Set(vm, c, "closed")
    /\ UNCHANGED <<serverVars, chan, ssh, relay, copies>>

VMCloses(c) ==
    /\ vm[c] = "open"
    /\ vm' = Set(vm, c, "closed")
    /\ UNCHANGED <<serverVars, chan, ssh, stream, relay, copies>>

-----------------------------------------------------------------------------
(* Specification *)

\* Steps the programs take by themselves.
ServerStep(c) == Handshake(c) \/ ConnReturns(c) \/ IdleTimeout(c)
ProxyStep(c) ==
    \/ handleDirectTCPIP(c) \/ OpenStream(c) \/ GiveUp(c) \/ WriteHeader(c)
    \/ WriteHeaderFails(c) \/ RelayReturns(c)
StreamStep(c) == DialVM(c) \/ StreamRefused(c) \/ relayBytes(c)

RelayNext ==
    \/ \E c \in Clients :
          \/ AcceptConn(c) \/ ServerStep(c) \/ LinkDown(c) \/ OpenChannel(c)
          \/ ProxyStep(c) \/ StreamStep(c)
          \/ ProxyUpEnds(c) \/ ProxyDownEnds(c) \/ AgentUpEnds(c) \/ AgentDownEnds(c)
          \/ ContextDone(c) \/ ClientEOF(c) \/ ClientCloses(c) \/ StreamBreaks(c) \/ AgentCloses(c) \/ VMCloses(c)
    \/ Stop \/ ServeReturns

RelaySpec == RelayInit /\ [][RelayNext]_sshVars

\* Goroutines run, calls with a timeout return, and a copy loop notices the
\* end of the side it reads from, the agent's session bound being what ends a
\* write to a stream or a VM that nobody reads.
Works(c) ==
    \/ ConnReturns(c) \/ ProxyStep(c) \/ StreamStep(c) \/ ContextDone(c)
    \/ ssh[c] \in {"eof", "closed"} /\ ProxyUpEnds(c)
    \/ ssh[c] = "closed" /\ stream[c] = "closed" /\ ProxyDownEnds(c)
    \/ stream[c] = "closed" /\ AgentUpEnds(c)
    \/ vm[c] = "closed" /\ AgentDownEnds(c)

\* What a client that is not silent adds: it reads what ssh-proxy writes, and
\* answers CLOSE.
Answers(c) ==
    \/ stream[c] = "closed" /\ ProxyDownEnds(c)
    \/ ssh[c] = "closing" /\ ClientCloses(c)

Progress(c) == Works(c) \/ (c \notin Silent /\ Answers(c))

Fairness == WF_sshVars(ServeReturns) /\ \A c \in Clients : WF_sshVars(Progress(c))

FairRelaySpec == RelaySpec /\ Fairness

-----------------------------------------------------------------------------
(* Properties *)

\* "Wait for in-flight direct-tcpip relays too" (Serve): once it returned, no
\* connection and no relay of ssh-proxy is left, although channels keep coming
\* until their connection ends.
DrainIsComplete ==
    serve = "returned" =>
        \A c \in Clients : ~InFlight(c) /\ ~Handling(c)
                         /\ copies[c] \cap {"proxy up", "proxy down"} = {}

\* One of the sides of the session has ended, or ssh-proxy stops it.
Over(c) == \/ ssh[c] \in {"eof", "closed"} \/ stream[c] = "closed" \/ vm[c] = "closed"
           \/ stop /\ Handling(c)

\* The relay of the agent, and of ssh-proxy, has returned with its copy loops.
AgentIsDown(c) == relay[c] \in {"none", "done"} /\ copies[c] \cap {"agent up", "agent down"} = {}
ProxyIsDown(c) == ~Handling(c) /\ copies[c] \cap {"proxy up", "proxy down"} = {}

\* Nothing is left that need not wait for the client: a silent one keeps the
\* second <-done of ssh-proxy waiting until it closes the channel or is gone.
IsDown(c) == AgentIsDown(c) /\ (ProxyIsDown(c) \/ (c \in Silent /\ ssh[c] # "closed"))

\* "Bidirectional copy with deterministic teardown" (Relay, relayBytes):
\* whichever of client, link, stream, VM, agent or the context of ssh-proxy
\* ends first, the copy loops of the agent end and its relay returns, whatever
\* the client does; those of ssh-proxy do when the client answers, closes the
\* channel or loses its link.  A connection is made once and what ended stays
\* so: a session that is never torn down would be so in every later state.
RelayTornDown == []<>(\A c \in Clients : Over(c) => IsDown(c))

\* After SIGTERM Serve returns once the clients have gone, the one accepted
\* before the listener closed included: it waits for their connections, which
\* no context closes, and then for every channel.
ShutdownDrains ==
    (stop /\ \A c \in Clients : ~link[c]) ~> (serve = "returned" \/ \E c \in Clients : link[c])
=============================================================================
