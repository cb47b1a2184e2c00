------------------------------- MODULE Serve -------------------------------
(***************************************************************************)
(* One accepted connection from start to end (server_conn.go conn.serve):  *)
(* the handshake (module Handshake) and, once WithClient has returned      *)
(* without error, recvChunkStream and what follows (module ConnState).     *)
(* serve runs them in sequence on one goroutine: no step of the command    *)
(* loop happens before the handshake's result is taken, and nothing of    *)
(* the handshake happens after it.  The client of both is one client: it   *)
(* sends its first command only after C2.                                  *)
(***************************************************************************)
CONSTANTS ClientKinds, Kinds, MaxMsgs, MaxPackets, MaxInbox, MaxPlayMsgs

VARIABLES
    c2s, s2c, pClosed, sClosed, cli, kind, hs, s, res, ch, wc,
    handshakeErr, handshakeStatus,
    inbox, nsent, nplay, pc, clientType, connInfo, stream, late, sess,
    accepted, wbuf, wire, pool, gpc, parts, loaded, wrote, nf, expect, rxErr,
    npkts

HS == INSTANCE Handshake
CS == INSTANCE ConnState

hsVars == <<c2s, s2c, pClosed, sClosed, cli, kind, hs, s, res, ch, wc,
           handshakeErr, handshakeStatus>>
csVars == <<inbox, nsent, nplay, pc, clientType, connInfo, stream, late, sess,
           accepted, wbuf, wire, pool, gpc, parts, loaded, wrote, nf, expect,
           rxErr, npkts>>
vars == <<hsVars, csVars>>

\* serve goes on to recvChunkStream only when handshake() returned nil,
\* that is when WithClient returned nil.
Serving == wc = "serving"

\* A step of the handshake, before the connection serves.
HandshakeStep == HS!Next /\ UNCHANGED csVars

\* A step of the command loop and the player's goroutines, after it.
ConnStep(A) == Serving /\ A /\ UNCHANGED hsVars

Init == HS!Init /\ CS!Init

Next ==
    \/ HandshakeStep
    \/ ConnStep(CS!Next)

\* The fairness of each part, for its own steps: the handshake goroutine,
\* WithClient's select and the timer; the server's goroutines once serving.
Spec ==
    /\ Init /\ [][Next]_vars
    /\ WF_vars(HS!Goroutine /\ UNCHANGED csVars)
    /\ WF_vars(HS!HandshakeResult /\ UNCHANGED csVars)
    /\ WF_vars(HS!HandshakeTimeout /\ UNCHANGED csVars)
    /\ WF_vars(ConnStep(CS!ConnRecv)) /\ WF_vars(ConnStep(CS!RxRecv))
    /\ WF_vars(ConnStep(CS!MainErr))
    /\ \A g \in CS!Goroutines :
          /\ WF_vars(ConnStep(CS!WLoad(g))) /\ WF_vars(ConnStep(CS!WStore(g)))
          /\ WF_vars(ConnStep(CS!FlushStart(g)))
          /\ WF_vars(ConnStep(CS!Writev(g))) /\ WF_vars(ConnStep(CS!Consume(g)))

-----------------------------------------------------------------------------
(* Properties: those of the two parts, over whole connections.              *)

\* See Handshake: a client following the RTMP digest scheme never rejects
\* the server's S0S1S2.
ConformingClientAccepts == HS!ConformingClientAccepts

\* See Handshake: the handshake goroutine ends and serve leaves
\* WithClient's select, whatever the client does.
HandshakeGoroutineEnds == HS!HandshakeGoroutineEnds

\* See ConnState: the socket carries whole messages.
WireFramed == CS!WireFramed

\* Once the handshake has been taken, its goroutine and the client's
\* handshake bytes are done with: WithClient returns nil only after the
\* goroutine's result, which it sends after reading C2, and no step of
\* Handshake is enabled in a serving state.  Two serving states that
\* differ only in what the handshake left behind have the same futures.
ServeView == IF Serving THEN <<wc, csVars>> ELSE vars

=============================================================================
