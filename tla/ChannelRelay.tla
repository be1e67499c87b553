----------------------------- MODULE ChannelRelay -----------------------------
(***************************************************************************)
(* The channels of a scrcpy session and the browsers that attach to them:  *)
(* SessionManager composed with ScrcpyChannel (scrcpy/session.py), the     *)
(* WebSocket endpoint session_channel (api/app.py) and the relays of       *)
(* websocket/channels.py.  A step of the session manager keeps its meaning *)
(* and takes along what it does to the channels; the relays run beside it, *)
(* and one that ends stops its session.                                    *)
(*                                                                         *)
(* A channel is opened once in the life of its session, so that <<s, c>>   *)
(* names the channel object and its connection.  Closing a writer and the  *)
(* return of its await are one step.  A session has at most two channels   *)
(* here: its media channels behave alike.                                  *)
(***************************************************************************)
EXTENDS SessionManager, Sequences

CONSTANTS ChannelOrder, \* options.ordered_channels()
          Browsers      \* pages; each opens a WebSocket per channel

ASSUME ChannelAssumption ==
    /\ ChannelOrder \in {<<"video">>, <<"audio">>, <<"control">>, <<"video", "audio">>,
                         <<"video", "control">>, <<"audio", "control">>}
    /\ "nobody" \notin Browsers

VARIABLES channels, \* names in session.channels
          connected, \* how many channels the start of a session has connected
          open,     \* <<s, c>>: the connection of channel c of s is open on the PC
          closing,  \* channels that each clean-up has listed and still has to close
          holder,   \* attached_client of each channel
          socket    \* the handler of each browser on each channel: "none", "open",
                    \* or "left" when the browser has gone and the handler runs on

channelVars == <<channels, connected, open, closing>>
relayVars == <<holder, socket>>
allVars == <<vars, channelVars, relayVars>>

Channels == {ChannelOrder[i] : i \in 1..Len(ChannelOrder)}
Nobody == "nobody"
Handlers(s, c) == {b \in Browsers : socket[s][c][b] # "none"}

RelayInit ==
    /\ Init
    /\ channels = [s \in Sessions |-> {}]
    /\ connected = [s \in Sessions |-> 0]
    /\ open = {}
    /\ closing = [s \in Sessions |-> [w \in Cleaners |-> {}]]
    /\ holder = [s \in Sessions |-> [c \in Channels |-> Nobody]]
    /\ socket = [s \in Sessions |-> [c \in Channels |-> [b \in Browsers |-> "none"]]]

-----------------------------------------------------------------------------
(* Steps of the session manager.                                            *)

(* A clean-up that begins lists the channels of that moment; one that is    *)
(* torn out of its task closes no more of them.                             *)
Listed ==
    closing' = [s \in Sessions |-> [w \in Cleaners |->
                  IF cleaning[s][w] = "idle" /\ cleaning'[s][w] = "forward" THEN channels[s]
                  ELSE IF cleaning'[s][w] = "idle" THEN {} ELSE closing[s][w]]]

Beside(Step) == Step /\ Listed /\ UNCHANGED <<channels, connected, open, relayVars>>

(* A channel is stored in the session when its connection is made, whatever *)
(* became of the session meanwhile.                                         *)
ChannelStored(s) ==
    LET c == ChannelOrder[connected[s] + 1] IN
    /\ channels' = [channels EXCEPT ![s] = @ \cup {c}]
    /\ connected' = [connected EXCEPT ![s] = @ + 1]
    /\ open' = open \cup {<<s, c>>}
    /\ UNCHANGED <<closing, relayVars>>

FirstConnected(s) ==
    /\ FirstChannelConnected(s)
    /\ starter'[s] = IF Len(ChannelOrder) > 1 THEN "others" ELSE "display"
    /\ ChannelStored(s)

OtherConnected(s) ==
    /\ OtherChannelsConnected(s)
    /\ ChannelStored(s)

(* _cleanup_session_resources closes what it listed, one await at a time,   *)
(* and then clears what there is.                                           *)
ChannelClosed(s, w) ==
    \E c \in closing[s][w] :
        /\ cleaning[s][w] = "forward"
        /\ open' = open \ {<<s, c>>}
        /\ closing' = [closing EXCEPT ![s][w] = @ \ {c}]
        /\ channels' = IF closing[s][w] = {c} THEN [channels EXCEPT ![s] = {}] ELSE channels
        /\ UNCHANGED <<vars, connected, relayVars>>

ForwardRemovedAfter(s, w) == closing[s][w] = {} /\ Beside(ForwardRemoved(s, w))

-----------------------------------------------------------------------------
(* The WebSocket endpoint and the relays.                                   *)

(* session_channel up to the relay: a running session, a channel it has,    *)
(* and nobody attached to it.  Any other request is refused, and changes    *)
(* nothing.                                                                 *)
Attaches(s, c, b) ==
    /\ process = "up"
    /\ s \in kept
    /\ state[s] = "running"
    /\ c \in channels[s]
    /\ holder[s][c] = Nobody
    /\ socket[s][c][b] = "none"        \* bound: a page opens a channel once at a time
    /\ socket' = [socket EXCEPT ![s][c][b] = "open"]
    /\ holder' = [holder EXCEPT ![s][c] = b]
    /\ UNCHANGED <<vars, channelVars>>

(* A page is closed or loses the network: all its WebSockets go at once.    *)
BrowserLeaves(b) ==
    /\ \E s \in Sessions, c \in Channels : socket[s][c][b] = "open"
    /\ socket' = [s \in Sessions |-> [c \in Channels |->
                    [socket[s][c] EXCEPT ![b] = IF @ = "open" THEN "left" ELSE @]]]
    /\ UNCHANGED <<vars, channelVars, holder>>

(* Mutant of Detaches: the relay of a channel ends alone.                   *)
DetachesAlone(s, c, b) ==
    /\ socket' = [socket EXCEPT ![s][c][b] = "none"]
    /\ holder' = [holder EXCEPT ![s][c] = IF @ = b THEN Nobody ELSE @]
    /\ UNCHANGED <<vars, channelVars>>

(* The end of session_channel: the channel is released, and an active       *)
(* session stopped.  One that was pruned is not found.                      *)
Detaches(s, c, b) ==
    /\ socket' = [socket EXCEPT ![s][c][b] = "none"]
    /\ holder' = [holder EXCEPT ![s][c] = IF @ = b THEN Nobody ELSE @]
    /\ IF s \in kept /\ state[s] \in Active
       THEN /\ ~CleanedBy(s, "client")     \* bound of SessionManager
            /\ BeginStop(s, "client")
            /\ UNCHANGED <<starter, resourceVars, watch, loopVars>>
       ELSE UNCHANGED vars
    /\ Listed
    /\ UNCHANGED <<channels, connected, open>>

(* Nothing more can be read from the channel: its connection was closed on  *)
(* the PC, or the server that held the other end is gone.                   *)
EndOfFile(s, c) == <<s, c>> \notin open \/ server[s] = "exited"

DeviceEnds(s, c, b) ==
    /\ socket[s][c][b] # "none"
    /\ EndOfFile(s, c)
    /\ Detaches(s, c, b)

(* relay_control_websocket waits for the browser as well as for the device: *)
(* it ends when the browser goes, or sends what it must not.                *)
BrowserEnds(s, b) ==
    /\ "control" \in Channels
    /\ socket[s]["control"][b] = "left"
    /\ Detaches(s, "control", b)
BrowserRefused(s, b) ==
    /\ "control" \in Channels
    /\ socket[s]["control"][b] = "open"
    /\ Detaches(s, "control", b)

(* relay_media_websocket only reads from the device: it notices that the    *)
(* browser has gone, or is unreachable, when it has something to send.      *)
SendFails(s, c, b) ==
    /\ c # "control"
    /\ socket[s][c][b] # "none"
    /\ ~EndOfFile(s, c)
    /\ Detaches(s, c, b)

-----------------------------------------------------------------------------
(* Close of SessionManager: the server has let its WebSockets end.          *)
Served == \A s \in Sessions, c \in Channels : Handlers(s, c) = {}

Starts(s) ==
    \/ Beside(ServerPushed(s))
    \/ Beside(ForwardCreated(s))
    \/ Beside(ServerSpawned(s))
    \/ FirstConnected(s)
    \/ OtherConnected(s)
    \/ Beside(SessionStarted(s))
    \/ Beside(StartFails(s))

Cleans(s, w) ==
    \/ ChannelClosed(s, w)
    \/ ForwardRemovedAfter(s, w)
    \/ Beside(ServerEnded(s, w))
    \/ Beside(LogDrained(s, w))
    \/ Beside(CleanedUp(s, w))

RelayStep(s, c, b) == DeviceEnds(s, c, b) \/ (c = "control" /\ BrowserEnds(s, b))

RelayNext ==
    /\ process # "down"
    /\ \/ \E s \in Sessions, p \in Serials : Beside(StartSession(s, p))
       \/ \E s \in Sessions : Starts(s)
       \/ \E s \in Sessions, w \in Cleaners : Cleans(s, w)
       \/ \E s \in Sessions : Beside(ClientStops(s))
       \/ \E s \in Sessions : Beside(WatchStep(s))
       \/ \E s \in Sessions : Beside(ServerExits(s))
       \/ \E p \in Serials : Beside(DeviceChanges(p))
       \/ Beside(LoopStep)
       \/ Served /\ Beside(Close)
       \/ \E s \in Sessions, c \in Channels, b \in Browsers :
              Attaches(s, c, b) \/ RelayStep(s, c, b) \/ SendFails(s, c, b)
       \/ \E s \in Sessions, b \in Browsers : BrowserRefused(s, b)
       \/ \E b \in Browsers : BrowserLeaves(b)

RelaySpec == RelayInit /\ [][RelayNext]_allVars

(* As in SessionManager; the event loop also runs a relay whose read or     *)
(* receive has returned.  Nothing makes an idle device send.                *)
RelayFairness ==
    /\ \A s \in Sessions :
          /\ WF_allVars(Up(Starts(s)))
          /\ WF_allVars(Up(Beside(WatchStep(s))))
          /\ \A w \in Cleaners : WF_allVars(Up(Cleans(s, w)))
          /\ \A c \in Channels, b \in Browsers : WF_allVars(Up(RelayStep(s, c, b)))
    /\ WF_allVars(Up(Beside(LoopStep)))

FairRelaySpec == RelaySpec /\ RelayFairness

-----------------------------------------------------------------------------
(* A page that had the control channel and goes gives back every channel it *)
(* was attached to, the media channels of an idle device too, which notice  *)
(* nothing themselves: the end of the control relay stops the session       *)
(* (relay_control_websocket, session_channel).                              *)
DepartedReleased ==
    \A s \in Sessions, c \in Channels, b \in Browsers :
        ("control" \in Channels /\ socket[s]["control"][b] = "left" /\ socket[s][c][b] = "left")
            ~> socket[s][c][b] # "left"

(* What a media relay owes without that: it does not hold, an idle device   *)
(* leaves the channel attached to the browser that has gone.                *)
LeaverReleased ==
    \A s \in Sessions, c \in Channels, b \in Browsers :
        socket[s][c][b] = "left" ~> socket[s][c][b] # "left"

(* A session that has ended, and that no coroutine works on any more, has   *)
(* no connection left.  It does not hold: clear() also drops a channel that *)
(* was connected while the others were being closed.                        *)
NoConnectionLost ==
    \A s \in kept : state[s] \in Terminal /\ Quiet(s) => \A c \in Channels : <<s, c>> \notin open

=============================================================================
