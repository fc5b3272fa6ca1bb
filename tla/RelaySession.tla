---------------------------- MODULE RelaySession ----------------------------
(***************************************************************************)
(* One session of the graphical relay: the multiplexer of a remote Window  *)
(* (crates/splinterm-graphical-relay/client.rs), the relay process at the  *)
(* other end of the SSH transport (crates/splinterm-relay/lib.rs), and the *)
(* wires between them.  Each logical channel carries one connection of the *)
(* Window to the daemon.                                                   *)
(*                                                                         *)
(* Channel numbers are the session's channel identities.  Data frames are  *)
(* numbered per channel and direction.  A wire includes the frame that is  *)
(* being written to it.  The buffers of an application's duplex stream and *)
(* of a daemon's socket hold nothing: the application reads what the pump  *)
(* writes, the relay what the daemon writes.  A channel's two pump tasks   *)
(* at the client are implicit: one runs while the channel has a route or   *)
(* undelivered data, the other is outgoing.  The handshake is left out,    *)
(* and the client's handling of HalfClose, which the relay never sends.    *)
(***************************************************************************)
EXTENDS FairQueue

CONSTANTS Slots,           \* MAX_LOGICAL_CHANNELS
          ControlFrames,   \* CONTROL_QUEUE_FRAMES, of either side
          CommandFrames,   \* CHANNEL_QUEUE_FRAMES of the relay
          IncomingFrames,  \* MAX_INCOMING_CHANNEL_QUEUED_BYTES / MAX_DATA_BYTES
          WireFrames,      \* frames in transit in one direction
          Up, Down,        \* data frames each application, and daemon, may send
          May,             \* what each application and daemon may do besides
          Upsets           \* which of the events that end a session may happen

ASSUME RelayAssumption ==
  /\ Channel = 1 .. Cardinality(Channel)
  /\ {Slots, ControlFrames, CommandFrames, IncomingFrames, WireFrames} \subseteq Nat \ {0}
  /\ Up \in [Channel -> Nat] /\ Down \in [Channel -> Nat]
  /\ May \in [Channel -> SUBSET {"shut", "drop", "eof"}]

VARIABLES app,       \* the Window's use of each channel
          client,    \* ClientState
          incoming,  \* the client's received data frames, per channel
          outgoing,  \* run_outgoing_channel, per channel
          clientq,   \* the client's fair queue
          up, down,  \* the wires
          relay,     \* the relay's coordinator
          channels,  \* the relay's channels
          commands,  \* the relay's received commands, per channel
          relayq,    \* the relay's fair queue
          daemon     \* the daemon's end of each channel

clientVars == <<app, client, incoming, outgoing, clientq>>
relayVars == <<relay, channels, commands, relayq, daemon>>
vars == <<clientVars, up, down, relayVars>>

Frame(kind, c) == [kind |-> kind, channel |-> c, data |-> 0]
DataFrame(f) == [kind |-> "data", channel |-> f.channel, data |-> f.data]
EndOfStream == Frame("eof", 0)

Init ==
  /\ app = [c \in Channel |-> [at |-> "none", sent |-> 0, got |-> <<>>]]
  /\ client = [failure |-> "none", last |-> 0, locally_closed_through |-> 0,
               routes |-> [c \in Channel |-> "none"], control |-> <<>>]
  /\ incoming = [c \in Channel |-> <<>>]
  /\ outgoing = [c \in Channel |-> "none"]
  /\ clientq = EmptyQueue /\ relayq = EmptyQueue
  /\ up = <<>> /\ down = <<>>
  /\ relay = [at |-> "serving", error |-> "none", blamed |-> 0, last |-> 0, control |-> <<>>]
  /\ channels = [c \in Channel |-> [at |-> "none", cancelled |-> FALSE]]
  /\ commands = [c \in Channel |-> <<>>]
  /\ daemon = [c \in Channel |-> [sent |-> 0, got |-> <<>>, half |-> FALSE, eof |-> FALSE]]

-----------------------------------------------------------------------------
(* The client's state, each piece behind its own mutex *)

Failed == client.failure # "none"

(* ClientState::fail: the first reason stays, every token is cancelled and *)
(* every route dropped.                                                    *)
Fail(reason) ==
  IF Failed THEN UNCHANGED <<client, incoming, outgoing, clientq>>
  ELSE /\ client' = [client EXCEPT !.failure = reason, !.control = <<>>,
                                   !.routes = [c \in Channel |-> "none"]]
       /\ clientq' = EmptyQueue
       /\ incoming' = [c \in Channel |-> <<>>]
       /\ outgoing' = [c \in Channel |-> "none"]

(* Route::drop: the channel's unsent data goes and its outgoing pump is    *)
(* cancelled; one that drains may still send its half-close.               *)
DropRoute(c) ==
  /\ clientq' = Discard(clientq, c)
  /\ outgoing' = [outgoing EXCEPT ![c] = IF @ = "drain" THEN @ ELSE "none"]

\* A control queue of either side.
Full(side) == Len(side.control) >= ControlFrames
Queued(side, f) == [side EXCEPT !.control = Append(@, f)]

-----------------------------------------------------------------------------
(* open_channel *)

\* The application or one of the two pumps keeps the channel's slot.
InUse(c) ==
  \/ app[c].at \notin {"none", "gone"}
  \/ client.routes[c] # "none" \/ incoming[c] # <<>> \/ outgoing[c] # "none"

(* Admission, identity, route and incoming pump.  Then the task asks the   *)
(* relay: another task's open may come between.                            *)
OpenAllocates(c) ==
  /\ ~Failed /\ c = client.last + 1
  /\ Cardinality({d \in Channel : InUse(d)}) < Slots
  /\ client' = [client EXCEPT !.last = c, !.routes[c] = "opening"]
  /\ app' = [app EXCEPT ![c].at = "allocated"]
  /\ UNCHANGED <<incoming, outgoing, clientq, up, down, relayVars>>

OpenAsks(c) ==
  /\ app[c].at = "allocated" /\ ~Failed /\ ~Full(client)
  /\ client' = Queued(client, Frame("open", c))
  /\ app' = [app EXCEPT ![c].at = "asking"]
  /\ UNCHANGED <<incoming, outgoing, clientq, up, down, relayVars>>

OpenReturns(c) ==
  /\ app[c].at = "acked"
  /\ app' = [app EXCEPT ![c].at = "open"]
  /\ outgoing' = [outgoing EXCEPT ![c] = IF client.routes[c] = "open" THEN "run" ELSE "none"]
  /\ UNCHANGED <<client, incoming, clientq, up, down, relayVars>>

\* The session failed first.
OpenFails(c) ==
  /\ app[c].at \in {"allocated", "asking"} /\ Failed
  /\ app' = [app EXCEPT ![c].at = "gone"]
  /\ UNCHANGED <<client, incoming, outgoing, clientq, up, down, relayVars>>

(* The caller's timeout drops the call: OpeningGuard. *)
OpenTimesOut(c) ==
  /\ "timeout" \in Upsets
  /\ app[c].at \in {"allocated", "asking", "acked"} /\ ~Failed
  /\ Fail("opening cancelled")
  /\ app' = [app EXCEPT ![c].at = "gone"]
  /\ UNCHANGED <<up, down, relayVars>>

-----------------------------------------------------------------------------
(* The application's end of a channel, and the two pumps *)

(* run_outgoing_channel reserves, reads and sends. *)
AppWrites(c) ==
  /\ outgoing[c] = "run" /\ CanReserve(clientq, c)
  /\ app[c].at = "open" /\ app[c].sent < Up[c]
  /\ app' = [app EXCEPT ![c].sent = @ + 1]
  /\ clientq' = Send(clientq, c, app[c].sent + 1)
  /\ UNCHANGED <<client, incoming, outgoing, up, down, relayVars>>

AppShuts(c) ==
  /\ "shut" \in May[c] /\ app[c].at = "open" /\ outgoing[c] = "run"
  /\ app' = [app EXCEPT ![c].at = "shut"]
  /\ UNCHANGED <<client, incoming, outgoing, clientq, up, down, relayVars>>

OutgoingEnds(c) ==
  /\ outgoing[c] = "run" /\ CanReserve(clientq, c) /\ app[c].at \in {"shut", "closing", "failing"}
  /\ outgoing' = [outgoing EXCEPT ![c] = "drain"]
  /\ UNCHANGED <<app, client, incoming, clientq, up, down, relayVars>>

(* drain, and then HalfClose.  A drain that sees its budget closed before  *)
(* it sees its cancellation goes on to it too.                             *)
HalfClose(c) ==
  /\ outgoing[c] = "drain" /\ ~Full(client)
  /\ Drained(clientq, c)
  /\ client' = Queued(client, Frame("half", c))
  /\ outgoing' = [outgoing EXCEPT ![c] = "none"]
  /\ UNCHANGED <<app, incoming, clientq, up, down, relayVars>>

DrainCancelled(c) ==
  /\ outgoing[c] = "drain" /\ client.routes[c] = "none"
  /\ outgoing' = [outgoing EXCEPT ![c] = "none"]
  /\ UNCHANGED <<app, client, incoming, clientq, up, down, relayVars>>

(* run_incoming_channel hands a frame to the application. *)
AppReads(c) ==
  /\ app[c].at \in {"open", "shut"} /\ incoming[c] # <<>>
  /\ app' = [app EXCEPT ![c].got = Append(@, Head(incoming[c]))]
  /\ incoming' = [incoming EXCEPT ![c] = Tail(@)]
  /\ UNCHANGED <<client, outgoing, clientq, up, down, relayVars>>

\* The route is gone and its queued frames are delivered.
AtEof(c) == app[c].at \in {"open", "shut"} /\ client.routes[c] = "none" /\ incoming[c] = <<>>

(* The application drops its stream, and the incoming pump fails to write  *)
(* before the guard is dropped too.                                        *)
IncomingFails(c) ==
  /\ "drop" \in May[c] /\ app[c].at \in {"open", "shut"} /\ incoming[c] # <<>>
  /\ app' = [app EXCEPT ![c].at = "failing"]
  /\ client' = IF Full(client) THEN client ELSE Queued(client, Frame("close", c))
  /\ incoming' = [incoming EXCEPT ![c] = <<>>]
  /\ UNCHANGED <<outgoing, clientq, up, down, relayVars>>

\* Mutant: a local close is not remembered.
RouteForgotten(c) == [client EXCEPT !.routes[c] = "none"]

\* close_channel, of a channel that still has its route or not.
RouteClosed(c) ==
  IF client.routes[c] = "none" THEN client
  ELSE [client EXCEPT !.routes[c] = "none",
                      !.locally_closed_through = IF c > @ THEN c ELSE @]

FailedPumpCloses(c) ==
  /\ app[c].at = "failing"
  /\ app' = [app EXCEPT ![c].at = "closing"]
  /\ client' = RouteClosed(c)
  /\ incoming' = [incoming EXCEPT ![c] = <<>>]
  /\ DropRoute(c)
  /\ UNCHANGED <<up, down, relayVars>>

(* ChannelGuard::drop *)
GuardDrops(c) ==
  /\ \/ "drop" \in May[c] /\ app[c].at \in {"open", "shut"}
     \/ app[c].at \in {"failing", "closing"}
  /\ app' = [app EXCEPT ![c].at = "gone"]
  /\ IF Full(client) \/ Failed
       THEN Fail("control queue")
       ELSE /\ client' = Queued(RouteClosed(c), Frame("close", c))
            /\ incoming' = [incoming EXCEPT ![c] = <<>>]
            /\ DropRoute(c)
  /\ UNCHANGED <<up, down, relayVars>>

\* ClientHandle::drop: every channel has been dropped before it.
ClientDropped ==
  /\ ~Failed /\ \A c \in Channel : app[c].at \in {"none", "gone"}
  /\ Fail("client dropped")
  /\ UNCHANGED <<app, up, down, relayVars>>

-----------------------------------------------------------------------------
(* The client's writer and reader tasks *)

ClientWritesControl ==
  /\ ~Failed /\ client.control # <<>>
  /\ Len(up) < WireFrames
  /\ up' = Append(up, Head(client.control))
  /\ client' = [client EXCEPT !.control = Tail(@)]
  /\ UNCHANGED <<app, incoming, outgoing, clientq, down, relayVars>>

ClientWritesData ==
  /\ ~Failed /\ client.control = <<>> /\ CanRecv(clientq)
  /\ Len(up) < WireFrames
  /\ up' = Append(up, DataFrame(NextFrame(clientq)))
  /\ clientq' = Recv(clientq)
  /\ UNCHANGED <<app, client, incoming, outgoing, down, relayVars>>

Ended(wire) == wire # <<>> /\ wire[Len(wire)] = EndOfStream

\* The cancelled tasks drop the transport.
ClientHangsUp ==
  /\ Failed /\ relay.at = "serving" /\ ~Ended(up)
  /\ up' = Append(up, EndOfStream) /\ down' = <<>>
  /\ UNCHANGED <<clientVars, relayVars>>

\* The SSH transport dies, with what it carried.
TransportLost ==
  /\ "transport" \in Upsets /\ relay.at = "serving" /\ ~Failed
  /\ up' = <<EndOfStream>> /\ down' = <<EndOfStream>>
  /\ UNCHANGED <<clientVars, relayVars>>

(* dispatch_frame, of the next frame f. *)
Receives(kind) == ~Failed /\ down # <<>> /\ Head(down).kind = kind /\ down' = Tail(down)

ReceiveOpened ==
  /\ Receives("opened")
  /\ LET c == Head(down).channel IN
     IF client.routes[c] = "opening"
       THEN /\ client' = [client EXCEPT !.routes[c] = "open"]
            /\ app' = [app EXCEPT ![c].at = "acked"]
            /\ UNCHANGED <<incoming, outgoing, clientq>>
       ELSE Fail("protocol") /\ UNCHANGED app
  /\ UNCHANGED <<up, relayVars>>

ReceiveRejected ==
  /\ Receives("rejected")
  /\ LET c == Head(down).channel IN
     IF client.routes[c] = "opening"
       THEN /\ client' = [client EXCEPT !.routes[c] = "none"]
            /\ DropRoute(c)
            /\ app' = [app EXCEPT ![c].at = "gone"]
            /\ UNCHANGED incoming
       ELSE Fail("protocol") /\ UNCHANGED app
  /\ UNCHANGED <<up, relayVars>>

(* send_incoming_data: what crosses a local close is dropped. *)
ReceiveData ==
  /\ Receives("data")
  /\ LET c == Head(down).channel IN
     CASE client.routes[c] = "none" /\ c <= client.locally_closed_through ->
            UNCHANGED <<client, incoming, outgoing, clientq>>
       [] client.routes[c] = "open" /\ Len(incoming[c]) < IncomingFrames ->
            /\ incoming' = [incoming EXCEPT ![c] = Append(@, Head(down).data)]
            /\ UNCHANGED <<client, outgoing, clientq>>
       [] client.routes[c] = "open" /\ Len(incoming[c]) >= IncomingFrames ->
            Fail("overrun")
       [] OTHER -> Fail("protocol")
  /\ UNCHANGED <<app, up, relayVars>>

(* close_remote_channel: the channel's queued data stays with its pump. *)
ReceiveClose ==
  /\ Receives("close")
  /\ LET c == Head(down).channel IN
     IF client.routes[c] = "none"
       THEN /\ IF c <= client.last THEN UNCHANGED <<client, incoming, outgoing, clientq>>
                                   ELSE Fail("protocol")
            /\ UNCHANGED app
       ELSE /\ client' = [client EXCEPT !.routes[c] = "none"]
            /\ DropRoute(c)
            /\ app' = [app EXCEPT ![c].at = IF client.routes[c] = "opening" THEN "gone" ELSE @]
            /\ UNCHANGED incoming
  /\ UNCHANGED <<up, relayVars>>

ReceiveEnd ==
  /\ \/ Receives("error") /\ Fail("relay error")
     \/ Receives("eof") /\ Fail("transport")
  /\ UNCHANGED <<app, up, relayVars>>

-----------------------------------------------------------------------------
(* The relay's coordinator, run_graphical_streams_with_connector *)

(* Its loop ends: the error is reported if there is room, and every task   *)
(* is cancelled, which discards what it has queued.                        *)
Stop(error, c) ==
  /\ relay' = [IF error = "none" \/ Full(relay) THEN relay ELSE Queued(relay, Frame("error", 0))
                 EXCEPT !.at = "ending", !.error = error, !.blamed = c]
  /\ channels' = [d \in Channel |-> IF channels[d].at = "none" THEN channels[d]
                                    ELSE [at |-> "retired", cancelled |-> TRUE]]
  /\ commands' = [d \in Channel |-> <<>>]
  /\ relayq' = EmptyQueue

Takes(kind) ==
  /\ relay.at = "serving" /\ up # <<>> /\ Head(up).kind = kind
  /\ up' = Tail(up)

Active(c) == channels[c].at \in {"run", "drain", "finished"}

(* An open is refused at the limit or when the connector fails. *)
RelayOpens ==
  /\ Takes("open")
  /\ LET c == Head(up).channel IN
     \/ /\ c <= relay.last \/ Full(relay)
        /\ Stop(IF c <= relay.last THEN "ids" ELSE "control queue", c)
     \/ /\ c > relay.last /\ ~Full(relay)
        /\ Cardinality({d \in Channel : Active(d)}) >= Slots \/ "connector" \in Upsets
        /\ relay' = [Queued(relay, Frame("rejected", c)) EXCEPT !.last = c]
        /\ UNCHANGED <<channels, commands, relayq>>
     \/ /\ c > relay.last /\ ~Full(relay)
        /\ Cardinality({d \in Channel : Active(d)}) < Slots
        /\ relay' = [Queued(relay, Frame("opened", c)) EXCEPT !.last = c]
        /\ channels' = [channels EXCEPT ![c].at = "run"]
        /\ UNCHANGED <<commands, relayq>>
  /\ UNCHANGED <<clientVars, down, daemon>>

\* try_send to a channel's task, which holds its receiver while it pumps.
Command(c, command) ==
  IF channels[c].at = "run" /\ Len(commands[c]) < CommandFrames
    THEN /\ commands' = [commands EXCEPT ![c] = Append(@, command)]
         /\ UNCHANGED <<relay, channels, relayq>>
    ELSE Stop(IF channels[c].at = "run" THEN "overrun" ELSE "ended", c)

RelayData ==
  /\ Takes("data")
  /\ LET c == Head(up).channel IN
     IF Active(c) THEN Command(c, Head(up).data)
                  ELSE Stop("unknown", c)
  /\ UNCHANGED <<clientVars, down, daemon>>

\* HalfClose is command 0.
RelayHalfCloses ==
  /\ Takes("half")
  /\ LET c == Head(up).channel IN
     CASE Active(c) -> Command(c, 0)
       [] ~Active(c) /\ c > relay.last -> Stop("never issued", c)
       [] OTHER -> UNCHANGED <<relay, channels, commands, relayq>>
  /\ UNCHANGED <<clientVars, down, daemon>>

(* The command only hurries what the cancellation does. *)
RelayCloses ==
  /\ Takes("close")
  /\ LET c == Head(up).channel IN
     CASE Active(c) -> /\ channels' = [channels EXCEPT ![c].cancelled = TRUE]
                       /\ UNCHANGED <<relay, commands, relayq>>
       [] ~Active(c) /\ c > relay.last -> Stop("never issued", c)
       [] OTHER -> UNCHANGED <<relay, channels, commands, relayq>>
  /\ UNCHANGED <<clientVars, down, daemon>>

RelayInputEnds ==
  /\ Takes("eof") /\ Stop("none", 0)
  /\ UNCHANGED <<clientVars, down, daemon>>

\* ChannelFinished: the admission is given back.
RelayRetires(c) ==
  /\ relay.at = "serving" /\ channels[c].at = "finished"
  /\ channels' = [channels EXCEPT ![c].at = "retired"]
  /\ UNCHANGED <<clientVars, up, down, relay, commands, relayq, daemon>>

\* monitor_daemon_peer of any channel.
DaemonExits ==
  /\ "daemon" \in Upsets /\ relay.at = "serving"
  /\ \E c \in Channel : channels[c].at \in {"run", "drain"} /\ ~channels[c].cancelled
  /\ Stop("daemon exited", 0)
  /\ UNCHANGED <<clientVars, up, down, daemon>>

-----------------------------------------------------------------------------
(* run_graphical_channel: the relay runs on one thread, so a task sees its *)
(* cancellation before anything else.                                      *)

Pumping(c) == channels[c].at = "run" /\ ~channels[c].cancelled

\* The downstream pump reserves, reads and sends.
DaemonWrites(c) ==
  /\ Pumping(c) /\ CanReserve(relayq, c) /\ ~daemon[c].eof /\ daemon[c].sent < Down[c]
  /\ daemon' = [daemon EXCEPT ![c].sent = @ + 1]
  /\ relayq' = Send(relayq, c, daemon[c].sent + 1)
  /\ UNCHANGED <<clientVars, up, down, relay, channels, commands>>

DaemonCloses(c) ==
  /\ "eof" \in May[c] /\ Pumping(c) /\ ~daemon[c].eof
  /\ daemon' = [daemon EXCEPT ![c].eof = TRUE]
  /\ UNCHANGED <<clientVars, up, down, relay, channels, commands, relayq>>

(* Either pump ends both: the downstream one reads the end, the upstream   *)
(* one fails to write.                                                     *)
PumpsEnd(c) ==
  /\ Pumping(c) /\ daemon[c].eof
  /\ CanReserve(relayq, c) \/ commands[c] # <<>>
  /\ channels' = [channels EXCEPT ![c].at = "drain"]
  /\ commands' = [commands EXCEPT ![c] = <<>>]
  /\ UNCHANGED <<clientVars, up, down, relay, relayq, daemon>>

(* apply_channel_command, of data or of HalfClose. *)
UpstreamApplies(c) ==
  /\ Pumping(c) /\ commands[c] # <<>> /\ ~daemon[c].eof
  /\ IF daemon[c].half
       THEN Stop("after half-close", c) /\ UNCHANGED daemon
       ELSE /\ daemon' = IF Head(commands[c]) = 0
                           THEN [daemon EXCEPT ![c].half = TRUE]
                           ELSE [daemon EXCEPT ![c].got = Append(@, Head(commands[c]))]
            /\ commands' = [commands EXCEPT ![c] = Tail(@)]
            /\ UNCHANGED <<relay, channels, relayq>>
  /\ UNCHANGED <<clientVars, up, down>>

\* Mutant: the channel ends and nobody is told.
ChannelEndsSilently(c) ==
  /\ channels[c].at = "drain" /\ ~channels[c].cancelled
  /\ Drained(relayq, c)
  /\ channels' = [channels EXCEPT ![c].at = "finished", ![c].cancelled = TRUE]
  /\ UNCHANGED <<clientVars, up, down, relay, commands, relayq, daemon>>

\* Mutant: the channel is closed before its last data has been written.
ChannelClosesAtOnce(c) ==
  /\ channels[c].at = "drain" /\ ~channels[c].cancelled /\ ~Full(relay)
  /\ relay' = Queued(relay, Frame("close", c))
  /\ channels' = [channels EXCEPT ![c].at = "finished", ![c].cancelled = TRUE]
  /\ UNCHANGED <<clientVars, up, down, commands, relayq, daemon>>

\* drain, and then CloseChannel.
ChannelCloses(c) ==
  /\ channels[c].at = "drain" /\ ~channels[c].cancelled
  /\ Drained(relayq, c) /\ ~Full(relay)
  /\ relay' = Queued(relay, Frame("close", c))
  /\ channels' = [channels EXCEPT ![c].at = "finished", ![c].cancelled = TRUE]
  /\ UNCHANGED <<clientVars, up, down, commands, relayq, daemon>>

ChannelCancelled(c) ==
  /\ channels[c].at \in {"run", "drain"} /\ channels[c].cancelled
  /\ channels' = [channels EXCEPT ![c].at = "finished"]
  /\ commands' = [commands EXCEPT ![c] = <<>>]
  /\ relayq' = Discard(relayq, c)
  /\ UNCHANGED <<clientVars, up, down, relay, daemon>>

-----------------------------------------------------------------------------
(* The relay's writer, which goes on while the session ends *)

RelayWritesControl ==
  /\ relay.at # "over" /\ relay.control # <<>>
  /\ Len(down) < WireFrames /\ ~Ended(down) /\ ~Failed
  /\ down' = Append(down, Head(relay.control))
  /\ relay' = [relay EXCEPT !.control = Tail(@)]
  /\ UNCHANGED <<clientVars, up, channels, commands, relayq, daemon>>

RelayWritesData ==
  /\ relay.at # "over" /\ relay.control = <<>> /\ CanRecv(relayq)
  /\ Len(down) < WireFrames /\ ~Ended(down) /\ ~Failed
  /\ down' = Append(down, DataFrame(NextFrame(relayq)))
  /\ relayq' = Recv(relayq)
  /\ UNCHANGED <<clientVars, up, relay, channels, commands, daemon>>

\* Nobody reads any more.
RelayOutputFails ==
  /\ relay.at = "serving" /\ Failed /\ (relay.control # <<>> \/ CanRecv(relayq))
  /\ Stop("output", 0)
  /\ UNCHANGED <<clientVars, up, down, daemon>>

\* The writer is done, or is aborted 100 ms later; the process exits.
RelayExits ==
  /\ relay.at = "ending"
  /\ relay' = [relay EXCEPT !.at = "over", !.control = <<>>]
  /\ up' = <<>> /\ down' = IF Failed \/ Ended(down) THEN down ELSE Append(down, EndOfStream)
  /\ UNCHANGED <<clientVars, channels, commands, relayq, daemon>>

-----------------------------------------------------------------------------
(* An application or a daemon that has nothing left to do, and a session   *)
(* that is over.                                                           *)
SessionOver ==
  /\ Failed /\ relay.at = "over"
  /\ \A c \in Channel : app[c].at \in {"none", "gone"}
  /\ UNCHANGED vars

OpenStep(c) == OpenAllocates(c) \/ OpenAsks(c) \/ OpenReturns(c) \/ OpenFails(c) \/ OpenTimesOut(c)

AppStep(c) ==
  \/ AppWrites(c) \/ AppShuts(c) \/ OutgoingEnds(c) \/ HalfClose(c)
  \/ DrainCancelled(c) \/ AppReads(c)
  \/ IncomingFails(c) \/ FailedPumpCloses(c) \/ GuardDrops(c)

ClientStep ==
  \/ ClientDropped \/ ClientWritesControl \/ ClientWritesData
  \/ ClientHangsUp \/ ReceiveOpened \/ ReceiveRejected \/ ReceiveData \/ ReceiveClose
  \/ ReceiveEnd

RelayStep ==
  \/ RelayOpens \/ RelayData \/ RelayHalfCloses \/ RelayCloses \/ RelayInputEnds
  \/ DaemonExits \/ RelayWritesControl \/ RelayWritesData \/ RelayOutputFails \/ RelayExits

ChannelStep(c) ==
  \/ RelayRetires(c) \/ DaemonWrites(c) \/ DaemonCloses(c) \/ PumpsEnd(c)
  \/ UpstreamApplies(c) \/ ChannelCloses(c) \/ ChannelCancelled(c)

Next ==
  \/ \E c \in Channel : OpenStep(c) \/ AppStep(c) \/ ChannelStep(c)
  \/ ClientStep \/ RelayStep \/ TransportLost \/ SessionOver

Spec == Init /\ [][Next]_vars

(* The steps that are only a matter of scheduling: what both tokio         *)
(* runtimes poll, what the wires carry, a Window that reads its channels   *)
(* and a daemon that reads its connections.                                *)
Scheduled ==
  \/ \E c \in Channel :
       \/ OpenAsks(c) \/ OpenReturns(c) \/ OpenFails(c) \/ AppReads(c)
       \/ OutgoingEnds(c) \/ DrainCancelled(c) \/ HalfClose(c)
       \/ app[c].at \in {"failing", "closing"} /\ GuardDrops(c)
       \/ PumpsEnd(c) \/ UpstreamApplies(c)
       \/ ChannelCloses(c) \/ ChannelCancelled(c) \/ RelayRetires(c)
  \/ ClientWritesControl \/ ClientWritesData \/ ClientHangsUp
  \/ ReceiveOpened \/ ReceiveRejected \/ ReceiveData \/ ReceiveClose \/ ReceiveEnd
  \/ RelayOpens \/ RelayData \/ RelayHalfCloses \/ RelayCloses \/ RelayInputEnds
  \/ RelayWritesControl \/ RelayWritesData \/ RelayOutputFails \/ RelayExits

-----------------------------------------------------------------------------
(* Properties *)

\* The client never takes what the relay sends for a breach of the protocol.
RelayIsUnderstood == client.failure # "protocol"

\* The relay ends a session for what the client sent only over a channel whose
\* daemon or whose application had already ended it; or when two opens
\* overlapped, or a daemon fell behind by CommandFrames.
ClientIsUnderstood ==
  /\ relay.error \notin {"never issued", "after half-close"}
  /\ relay.error \in {"unknown", "ended"} =>
       daemon[relay.blamed].eof \/ app[relay.blamed].at \in {"closing", "failing", "gone"}
  /\ relay.error = "overrun" =>
       app[relay.blamed].sent + 1 - Len(daemon[relay.blamed].got) > CommandFrames

(* Neither side takes the other for a breach of the protocol, in whatever  *)
(* order opens, closes, half-closes and data cross (close_remote_channel,  *)
(* locally_closed_through, and the relay's retired channels).              *)
NeitherMisreads == RelayIsUnderstood /\ ClientIsUnderstood

UpTo(n) == [i \in 1 .. n |-> i]

\* What an application reads is a prefix of what its daemon wrote, and so the
\* other way; a session that lives ends a channel for its application only
\* after everything the relay read from the daemon.
OrderedEof ==
  \A c \in Channel :
    /\ app[c].got = UpTo(Len(app[c].got)) /\ Len(app[c].got) <= daemon[c].sent
    /\ daemon[c].got = UpTo(Len(daemon[c].got)) /\ Len(daemon[c].got) <= app[c].sent
    /\ AtEof(c) /\ ~Failed => Len(app[c].got) = daemon[c].sent

\* A daemon sees the end of its input only after all of it, and only from an
\* application that shut or dropped its channel.
HalfCloseIsLast ==
  \A c \in Channel : daemon[c].half =>
    \/ app[c].at = "shut" /\ Len(daemon[c].got) = app[c].sent
    \/ app[c].at \in {"closing", "failing", "gone"}

(* Each direction of a channel is in order and its end comes last, though  *)
(* control frames overtake data in both writers (drain before HalfClose    *)
(* and before Close).                                                      *)
StreamsInOrder == OrderedEof /\ HalfCloseIsLast

Served(q) ==
  /\ \A i, j \in DOMAIN q.ready : i # j => q.ready[i] # q.ready[j]
  /\ {q.ready[i] : i \in DOMAIN q.ready} = {c \in Channel : q.channels[c] # <<>>}

(* The writers' rounds hold each channel with queued data exactly once: no *)
(* channel is starved, and none is served when it has nothing.             *)
RoundsAreExact == Served(clientq) /\ Served(relayq)

(* When no task has a step left, nobody waits for anybody: every open has  *)
(* been answered, a channel the Window dropped has left the relay, a       *)
(* daemon's end of stream has reached the application and an application's *)
(* has reached the daemon after all its data, and neither side has         *)
(* outlived the other.                                                     *)
NothingIsStuck ==
  ~ ENABLED Scheduled =>
    /\ Failed <=> relay.at = "over"
    /\ \A c \in Channel :
         /\ app[c].at \notin {"allocated", "asking"}
         /\ app[c].at = "gone" => channels[c].at \in {"none", "retired"}
         /\ daemon[c].eof /\ app[c].at \in {"open", "shut"} /\ ~Failed => AtEof(c)
         /\ app[c].at = "shut" /\ ~Failed => daemon[c].half \/ daemon[c].eof

=============================================================================
