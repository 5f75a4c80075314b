------------------------------ MODULE CallSession ------------------------------
(***************************************************************************)
(* One call of the command line client (cmd/comms-cli/commands.go): dial   *)
(* and answer, the negotiation, the audio session and the hangup.          *)
(*                                                                         *)
(* The command is one goroutine that waits in selects on its context       *)
(* (Ctrl+C), on timers, on the peer connection and on the channels its     *)
(* WebSocket reader fills.  The HTTP client, the reader and the peer       *)
(* connection are not part of the repository: they are modelled by what    *)
(* the command expects of them.                                            *)
(***************************************************************************)

VARIABLES
  mode,        \* "dial" or "answer"
  named,       \* is the id of the call not empty?
  at,          \* where the command is
  ctx,         \* its context: "none" yet, "live" or "cancelled" by Ctrl+C
  ws,          \* its WebSocket: "none" yet, "up" or "down"
  call,        \* the call: "none" yet, "up", or "over" as the server knows it
  hangupCh,    \* has the reader put a hangup into router.hangupCh?
  media,       \* the peer connection: "new", "connected", "ended"
  audio,       \* the audio sender: "off", "on", "ended"
  samples,     \* is there a recording to send, rather than silence?
  posted,      \* has the hangup request been sent?
  told         \* has the hangup been sent to the bridge?

vars == <<mode, named, at, ctx, ws, call, hangupCh, media, audio, samples, posted, told>>
sent == <<posted, told>>

\* A dialled call has the id of the server's answer, as text; the id of an answered
\* call is what the peer has put into its message.
Init == /\ mode \in {"dial", "answer"}
        /\ named \in {mode = "dial", TRUE}
        /\ at = IF mode = "dial" THEN "post" ELSE "connect"
        /\ ctx = IF mode = "dial" THEN "none" ELSE "live"
        /\ ws = "none"
        /\ call = "none"
        /\ hangupCh = FALSE
        /\ media = "new"
        /\ audio = "off"
        /\ samples \in BOOLEAN
        /\ posted = FALSE /\ told = FALSE

\* The command returns; its deferred calls close the WebSocket.
Return == /\ at' = "done"
          /\ ws' = IF ws = "up" THEN "down" ELSE ws

(***************************************************************************)
(* The world outside.                                                      *)
(***************************************************************************)

\* Ctrl+C, once signal.NotifyContext is in place.
Interrupt == /\ ctx = "live"
             /\ at # "done"
             /\ ctx' = "cancelled"
             /\ UNCHANGED <<mode, named, at, ws, call, hangupCh, media, audio, samples, sent>>

\* Ctrl+C before that ends the process, whatever the server has made of the
\* request by then.
InterruptEarly == /\ ctx = "none"
                  /\ at = "post"
                  /\ at' = "done"
                  /\ call' \in {"none", "up"}
                  /\ UNCHANGED <<mode, named, ctx, ws, hangupCh, media, audio, samples, sent>>

\* A call comes in for the user who waits to answer.
IncomingCall == /\ mode = "answer"
                /\ at = "waiting" /\ ws = "up" /\ call = "none"
                /\ call' = "up"
                /\ UNCHANGED <<mode, named, at, ctx, ws, hangupCh, media, audio, samples, sent>>

\* The other side hangs up; the bridge tells the client if it can be reached.
RemoteHangup == /\ call = "up"
                /\ call' = "over"
                /\ hangupCh' = (hangupCh \/ (ws = "up" /\ ctx = "live"))
                /\ UNCHANGED <<mode, named, at, ctx, ws, media, audio, samples, sent>>

\* The network takes the WebSocket down.
Disconnect == /\ ws = "up"
              /\ ws' = "down"
              /\ UNCHANGED <<mode, named, at, ctx, call, hangupCh, media, audio, samples, sent>>

MediaConnects == /\ media = "new"
                 /\ at = "connecting"
                 /\ media' = "connected"
                 /\ UNCHANGED <<mode, named, at, ctx, ws, call, hangupCh, audio, samples, sent>>

MediaEnds == /\ media = "connected"
             /\ at # "done"
             /\ media' = "ended"
             /\ UNCHANGED <<mode, named, at, ctx, ws, call, hangupCh, audio, samples, sent>>

\* The sender is through with the recording, or its context is cancelled.
AudioEnds == /\ audio = "on"
             /\ samples \/ ctx = "cancelled"
             /\ audio' = "ended"
             /\ UNCHANGED <<mode, named, at, ctx, ws, call, hangupCh, media, samples, sent>>

(***************************************************************************)
(* cmdDial and cmdAnswer, up to the negotiation.                           *)
(***************************************************************************)

\* POST /api/v1/calls/outbound succeeds; then Ctrl+C is caught.
PostCall == /\ at = "post"
            /\ call' = "up"
            /\ ctx' = "live"
            /\ at' = "connect"
            /\ UNCHANGED <<mode, named, ws, hangupCh, media, audio, samples, sent>>

\* It fails, or its answer is lost.
PostFails == /\ at = "post"
             /\ call' \in {"none", "up"}
             /\ Return
             /\ UNCHANGED <<mode, named, ctx, hangupCh, media, audio, samples, sent>>

\* Mutant: answer without waiting for a call.
AlwaysSetUp == "setup"

Connected == IF mode = "dial" THEN "setup" ELSE "waiting"

Connect == /\ at = "connect"
           /\ ctx = "live"
           /\ ws' = "up"
           /\ at' = Connected
           /\ UNCHANGED <<mode, named, ctx, call, hangupCh, media, audio, samples, sent>>

\* The connection cannot be made, or Ctrl+C.
ConnectFails == /\ at = "connect"
                /\ Return
                /\ UNCHANGED <<mode, named, ctx, call, hangupCh, media, audio, samples, sent>>

\* The select of cmdAnswer.
Incoming == /\ at = "waiting"
            /\ call # "none"
            /\ at' = "setup"
            /\ UNCHANGED <<mode, named, ctx, ws, call, hangupCh, media, audio, samples, sent>>

\* Mutant: the select without its case for Ctrl+C.
WaitDeaf == FALSE

CancelWaiting == /\ at = "waiting"
                 /\ ctx = "cancelled"
                 /\ Return
                 /\ UNCHANGED <<mode, named, ctx, call, hangupCh, media, audio, samples, sent>>

\* Peer connection, audio source, offer and answer.
SetUp == /\ at = "setup"
         /\ ctx = "live" /\ ws = "up"
         /\ at' = "connecting"
         /\ UNCHANGED <<mode, named, ctx, ws, call, hangupCh, media, audio, samples, sent>>

\* One of them fails, or Ctrl+C reaches the exchange.
SetUpFails == /\ at = "setup"
              /\ Return
              /\ UNCHANGED <<mode, named, ctx, call, hangupCh, media, audio, samples, sent>>

(***************************************************************************)
(* runCallSession.                                                         *)
(***************************************************************************)

\* The first select: connected, 30 seconds have passed, or Ctrl+C.  It does not
\* look at router.hangupCh.  The channel of a connection that has ended since
\* stays closed.
MediaReady == /\ at = "connecting"
              /\ media # "new"
              /\ at' = "tracking"
              /\ UNCHANGED <<mode, named, ctx, ws, call, hangupCh, media, audio, samples, sent>>

GiveUpConnecting == /\ at = "connecting"
                    /\ Return
                    /\ UNCHANGED <<mode, named, ctx, call, hangupCh, media, audio, samples, sent>>

\* The second select: the remote track, or 10 seconds without one.  Either way
\* the audio sender starts.
StartAudio == /\ at = "tracking"
              /\ audio' = "on"
              /\ at' = "talking"
              /\ UNCHANGED <<mode, named, ctx, ws, call, hangupCh, media, samples, sent>>

CancelTracking == /\ at = "tracking"
                  /\ ctx = "cancelled"
                  /\ Return
                  /\ UNCHANGED <<mode, named, ctx, call, hangupCh, media, audio, samples, sent>>

\* Mutant: the select without its case for router.hangupCh.
EndedUnheard == ctx = "cancelled" \/ media = "ended" \/ audio = "ended"

\* What the third select waits for.
Ended == ctx = "cancelled" \/ media = "ended" \/ hangupCh \/ audio = "ended"

\* Mutant: a call that the other side has ended is not hung up.
UnlessHungUp == IF hangupCh THEN "signal" ELSE "hangup"

\* Every case of the third select leads to the hangup.
AfterTalk == "hangup"

\* The audio sender's context is cancelled whatever the case was.
EndTalk == /\ at = "talking"
           /\ Ended
           /\ at' = AfterTalk
           /\ audio' = "ended"
           /\ UNCHANGED <<mode, named, ctx, ws, call, hangupCh, media, samples, sent>>

\* POST /api/v1/calls/{id}/hangup for a call with an id, not under the command's
\* context; its outcome is ignored.
PostHangup == /\ at = "hangup"
              /\ posted' = named
              /\ call' \in {call} \cup {c \in {"over"} : named}
              /\ at' = "signal"
              /\ UNCHANGED <<mode, named, ctx, ws, hangupCh, media, audio, samples, told>>

\* A message can be written to the WebSocket, under the command's context.
CanSend == ws = "up" /\ ctx = "live"

SendHangup == /\ at = "signal"
              /\ told' = CanSend
              /\ Return
              /\ UNCHANGED <<mode, named, ctx, call, hangupCh, media, audio, samples, posted>>

(***************************************************************************)
(* The specification.                                                      *)
(***************************************************************************)
Opening    == PostCall \/ PostFails \/ Connect \/ ConnectFails
Answering  == Incoming \/ CancelWaiting
Session    == SetUp \/ SetUpFails \/ MediaReady \/ GiveUpConnecting \/ StartAudio
                \/ CancelTracking \/ EndTalk \/ PostHangup \/ SendHangup
Command    == Opening \/ Answering \/ Session
Outside    == Interrupt \/ InterruptEarly \/ IncomingCall \/ RemoteHangup \/ Disconnect
                \/ MediaConnects \/ MediaEnds \/ AudioEnds

Next == Command \/ Outside

Spec == Init /\ [][Next]_vars

\* The runtime runs the command when a case of its select is ready; timers fire,
\* requests and the negotiation end one way or another.
FairSpec == Spec /\ WF_vars(Command)

(***************************************************************************)
(* Properties.                                                             *)
(***************************************************************************)
Places == {"post", "connect", "waiting", "setup", "connecting", "tracking",
           "talking", "hangup", "signal", "done"}

\* Types; and from the setup on there is a call to hang up, though it may be over.
TypeInv == /\ at \in Places
           /\ named \in BOOLEAN
           /\ ctx \in {"none", "live", "cancelled"}
           /\ ws \in {"none", "up", "down"}
           /\ call \in {"none", "up", "over"}
           /\ media \in {"new", "connected", "ended"}
           /\ audio \in {"off", "on", "ended"}
           /\ at \in Places \ {"post", "connect", "waiting", "done"} => call # "none"

\* However a call ends once its audio has started - Ctrl+C, the peer connection,
\* a hangup from the other side, the end of the recording, several at once -
\* the server is asked to hang it up before the command returns (822).  A call a
\* peer has announced without an id cannot be (821).
TalkIsHungUp == at = "done" /\ audio # "off" /\ named => posted

\* A hangup that has reached the client ends the command, though it may come
\* while the command is still setting up and looks at other channels (808-817).
HangupIsNoticed == hangupCh ~> at = "done"

\* Ctrl+C ends the command wherever it is.
CtrlCEndsCommand == ctx = "cancelled" ~> at = "done"

===============================================================================
