----------------------------- MODULE Handshake -----------------------------
(***************************************************************************)
(* The RTMP handshake of one accepted connection (handshake_server.go and  *)
(* conn.handshake / conn.serve of server_conn.go).                         *)
(*                                                                         *)
(* conn.serve calls WithClient, which starts a goroutine running           *)
(* serverHandshke and selects between the goroutine's result on a channel  *)
(* of capacity 1 and a timer.  When WithClient returns an error, serve     *)
(* returns and its deferred Close closes the socket, which fails the       *)
(* goroutine's pending read.  The client is the environment: it sends      *)
(* C0C1, checks S0S1S2 the way an RTMP client does and answers with C2,    *)
(* or it stops, or it leaves.                                              *)
(*                                                                         *)
(* Data are abstracted to what the digest scheme tells apart: an HMAC is   *)
(* the symbolic term <<"hmac", key, data>>, so two digests are equal only  *)
(* when they were made with the same key over the same data.  Which of the *)
(* two offsets of C1 holds the digest stands for the offset bytes that     *)
(* complexHandshakeCalcDigestPos adds up.                                  *)
(***************************************************************************)
EXTENDS Integers, Sequences

CONSTANTS
    ClientKinds     \* the clients tried: a subset of the kinds of C1 below

VARIABLES
    c2s,        \* bytes from the client not yet read by the server: C0C1, C2
    s2c,        \* S0S1S2 as the client receives it, or NoS
    pClosed,    \* the client closed its end of the socket
    sClosed,    \* conn.serve's deferred Close has run
    cli,        \* the client: "init", "sent", "done" or "rejected"
    kind,       \* the kind of C1 the client sent
    hs,         \* the handshake goroutine: "readC0C1", "writeS", "readC2",
                \* "send" (ch <- serverHandshke(rw)) or "exited"
    s,          \* S0S1S2 as the goroutine built it
    res,        \* serverHandshke's result: "ok" or "err"
    ch,         \* the channel between the goroutine and WithClient
    wc,         \* conn.serve: "select" in WithClient, "serving" or "closed"
    handshakeErr, handshakeStatus

vars == <<c2s, s2c, pClosed, sClosed, cli, kind, hs, s, res, ch, wc,
          handshakeErr, handshakeStatus>>

NoS == [s0 |-> 0]

(* The keys of handshake_server.go are named by their variables. *)
complexHandshakeMakeDigest(key, src) == <<"hmac", key, src>>

(* C0C1 as the clients of each kind send it: the version byte c0, the    *)
(* version field of C1, the offset base whose position holds the digest  *)
(* (0: none) and the 32 bytes there.                                     *)
C0C1(k) ==
    CASE k = "simple"     -> [c0 |-> 3, ver |-> 0, at |-> 0, digest |-> "none"]
      [] k = "complex772" -> [c0 |-> 3, ver |-> 1, at |-> 772,
                  digest |-> complexHandshakeMakeDigest("hsClientPartialKey", "C1")]
      [] k = "complex8"   -> [c0 |-> 3, ver |-> 1, at |-> 8,
                  digest |-> complexHandshakeMakeDigest("hsClientPartialKey", "C1")]
      [] k = "nodigest"   -> [c0 |-> 3, ver |-> 1, at |-> 0, digest |-> "none"]
      [] k = "badversion" -> [c0 |-> 6, ver |-> 0, at |-> 0, digest |-> "none"]

(* The digest is found at base when the 32 bytes at the position the    *)
(* base gives are the HMAC, under key, of C1 without them.               *)
complexHandshakeFindDigest(p, key, base) ==
    IF p.at = base /\ p.digest = complexHandshakeMakeDigest(key, "C1")
    THEN base ELSE -1

(* Mutant: S2 keyed by the client's digest itself, not by its HMAC.     *)
ParseC1RawDigest(p, peerkey, key) ==
    LET pos == IF complexHandshakeFindDigest(p, peerkey, 772) # -1
               THEN 772 ELSE complexHandshakeFindDigest(p, peerkey, 8)
    IN IF pos = -1 THEN [ok |-> FALSE, digest |-> "none"]
       ELSE [ok |-> TRUE, digest |-> p.digest]

(* Base 772 first, then base 8; the result is the HMAC under key of the  *)
(* digest found.                                                         *)
complexHandshakeParseC1(p, peerkey, key) ==
    LET pos == IF complexHandshakeFindDigest(p, peerkey, 772) # -1
               THEN 772 ELSE complexHandshakeFindDigest(p, peerkey, 8)
    IN IF pos = -1 THEN [ok |-> FALSE, digest |-> "none"]
       ELSE [ok |-> TRUE, digest |-> complexHandshakeMakeDigest(key, p.digest)]

(* S1 with the server's digest at base 8; S2 random with its last 32     *)
(* bytes the HMAC of the rest under the key derived from C1's digest.    *)
complexHandshakeCreateS0S1(key) ==
    [at |-> 8, digest |-> complexHandshakeMakeDigest(key, "S1")]

complexHandshakeCreateS2(key) ==
    [digest |-> complexHandshakeMakeDigest(key, "S2")]

(* The plain path copies c2 into s1 before c2 is read: s1 keeps the zero *)
(* bytes of the fresh array.  s2 is a copy of c1.                        *)
PlainS1 == [at |-> 0, digest |-> "zeros"]

(* serverHandshke from the C0C1 read to the S0S1S2 built: the version    *)
(* check, then the complex path for a non-zero version field and the     *)
(* plain one otherwise.                                                  *)
BuildS(p) ==
    LET parsed == complexHandshakeParseC1(p, "hsClientPartialKey", "hsServerFullKey")
    IN CASE p.c0 # 3                 -> [ok |-> FALSE]
         [] p.ver # 0 /\ ~parsed.ok  -> [ok |-> FALSE]
         [] p.ver # 0                ->
               [ok |-> TRUE, s0 |-> 3,
                s1 |-> complexHandshakeCreateS0S1("hsServerPartialKey"),
                s2 |-> complexHandshakeCreateS2(parsed.digest)]
         [] OTHER                    ->
               [ok |-> TRUE, s0 |-> 3, s1 |-> PlainS1, s2 |-> [echo |-> p]]

(* What the client checks of S0S1S2, the way RTMP clients do: the        *)
(* version byte, and for a digest C1 the server's digest in S1 and the   *)
(* S2 digest keyed by the HMAC of its own C1 digest under the server's   *)
(* full key.  A plain client does not check S1 and S2.                   *)
ClientAccepts(k, r) ==
    /\ r.s0 = 3
    /\ k # "simple" =>
         /\ r.s1.at \in {8, 772}
         /\ r.s1.digest = complexHandshakeMakeDigest("hsServerPartialKey", "S1")
         /\ r.s2.digest = complexHandshakeMakeDigest(
               complexHandshakeMakeDigest("hsServerFullKey", C0C1(k).digest), "S2")

TypeOK ==
    /\ Len(c2s) <= 2 /\ kind \in ClientKinds \cup {"none"}
    /\ cli \in {"init", "sent", "done", "rejected"}
    /\ hs \in {"readC0C1", "writeS", "readC2", "send", "exited"}
    /\ res \in {"ok", "err", "none"}
    /\ wc \in {"select", "serving", "closed"}
    /\ Len(ch) <= 1 /\ handshakeStatus \in {0, 1}

-----------------------------------------------------------------------------
(* The client. *)

ClientSend ==
    /\ cli = "init" /\ ~pClosed
    /\ \E k \in ClientKinds :
         /\ kind' = k
         /\ c2s' = <<C0C1(k)>>
    /\ cli' = "sent"
    /\ UNCHANGED <<s2c, pClosed, sClosed, hs, s, res, ch, wc,
                   handshakeErr, handshakeStatus>>

(* The client answers an accepted S0S1S2 with C2, and closes otherwise. *)
ClientRecv ==
    /\ cli = "sent" /\ s2c # NoS /\ ~pClosed
    /\ IF ClientAccepts(kind, s2c)
       THEN /\ c2s' = Append(c2s, [c2 |-> TRUE])
            /\ cli' = "done"
            /\ UNCHANGED pClosed
       ELSE /\ cli' = "rejected"
            /\ pClosed' = TRUE
            /\ UNCHANGED c2s
    /\ UNCHANGED <<s2c, sClosed, kind, hs, s, res, ch, wc,
                   handshakeErr, handshakeStatus>>

ClientLeave ==
    /\ cli \in {"init", "sent"} /\ ~pClosed
    /\ pClosed' = TRUE
    /\ UNCHANGED <<c2s, s2c, sClosed, cli, kind, hs, s, res, ch, wc,
                   handshakeErr, handshakeStatus>>

-----------------------------------------------------------------------------
(* The handshake goroutine running serverHandshke. *)

(* io.ReadFull fails once serve has closed the socket, or when the       *)
(* client has closed it and no bytes are left.                           *)
ReadFails == sClosed \/ (c2s = <<>> /\ pClosed)
Fail == hs' = "send" /\ res' = "err"

ReadC0C1 ==
    /\ hs = "readC0C1"
    /\ \/ /\ ReadFails
          /\ Fail
          /\ UNCHANGED <<c2s, s>>
       \/ /\ ~sClosed /\ c2s # <<>>
          /\ c2s' = Tail(c2s)
          /\ LET b == BuildS(Head(c2s)) IN
               IF b.ok THEN hs' = "writeS" /\ s' = b /\ UNCHANGED res
                       ELSE Fail /\ UNCHANGED s
    /\ UNCHANGED <<s2c, pClosed, sClosed, cli, kind, ch, wc,
                   handshakeErr, handshakeStatus>>

(* rw.Write of S0S1S2.  Once the client has closed, the write may still  *)
(* succeed into the socket buffer, with the bytes lost.                  *)
WriteS ==
    /\ hs = "writeS"
    /\ \/ /\ sClosed \/ pClosed
          /\ Fail
          /\ UNCHANGED s2c
       \/ /\ ~sClosed
          /\ s2c' = IF pClosed THEN s2c ELSE [s0 |-> s.s0, s1 |-> s.s1, s2 |-> s.s2]
          /\ hs' = "readC2"
          /\ UNCHANGED res
    /\ UNCHANGED <<c2s, pClosed, sClosed, cli, kind, s, ch, wc,
                   handshakeErr, handshakeStatus>>

(* C2 is read and not checked. *)
ReadC2 ==
    /\ hs = "readC2"
    /\ \/ /\ ReadFails
          /\ Fail
          /\ UNCHANGED c2s
       \/ /\ ~sClosed /\ c2s # <<>>
          /\ c2s' = Tail(c2s)
          /\ hs' = "send" /\ res' = "ok"
    /\ UNCHANGED <<s2c, pClosed, sClosed, cli, kind, s, ch, wc,
                   handshakeErr, handshakeStatus>>

(* Mutant: an unbuffered channel. *)
ChanCapUnbuffered == 0

(* ch := make(chan error, 1) *)
ChanCap == 1

(* ch <- serverHandshke(rw): the send completes when the buffer has room, *)
(* or, unbuffered, when WithClient is waiting in its select.              *)
SendResult ==
    /\ hs = "send"
    /\ \/ Len(ch) < ChanCap
       \/ ChanCap = 0 /\ ch = <<>> /\ wc = "select"
    /\ ch' = Append(ch, res)
    /\ hs' = "exited"
    /\ UNCHANGED <<c2s, s2c, pClosed, sClosed, cli, kind, s, res, wc,
                   handshakeErr, handshakeStatus>>

-----------------------------------------------------------------------------
(* conn.serve and conn.handshake around WithClient's select. *)

(* The goroutine's result is taken; on an error serve returns and its    *)
(* deferred Connection.Close closes the socket.  On success              *)
(* handshakeStatus becomes 1 and serve goes on to recvChunkStream.       *)
HandshakeResult ==
    /\ wc = "select" /\ ch # <<>>
    /\ ch' = Tail(ch)
    /\ handshakeErr' = (Head(ch) # "ok")
    /\ IF Head(ch) = "ok"
       THEN wc' = "serving" /\ handshakeStatus' = 1 /\ UNCHANGED sClosed
       ELSE wc' = "closed" /\ sClosed' = TRUE /\ UNCHANGED handshakeStatus
    /\ UNCHANGED <<c2s, s2c, pClosed, cli, kind, hs, s, res>>

(* time.After(handshakeTimeout) wins the select: "handshake timeout",    *)
(* and serve closes the socket.                                          *)
HandshakeTimeout ==
    /\ wc = "select"
    /\ wc' = "closed" /\ sClosed' = TRUE /\ handshakeErr' = TRUE
    /\ UNCHANGED <<c2s, s2c, pClosed, cli, kind, hs, s, res, ch,
                   handshakeStatus>>

Init ==
    /\ c2s = <<>> /\ s2c = NoS
    /\ pClosed = FALSE /\ sClosed = FALSE
    /\ cli = "init" /\ kind = "none"
    /\ hs = "readC0C1" /\ s = NoS /\ res = "none"
    /\ ch = <<>> /\ wc = "select"
    /\ handshakeErr = FALSE /\ handshakeStatus = 0

Goroutine == ReadC0C1 \/ WriteS \/ ReadC2 \/ SendResult

Next ==
    \/ ClientSend \/ ClientRecv \/ ClientLeave
    \/ Goroutine
    \/ HandshakeResult \/ HandshakeTimeout

(* The goroutine and serve are scheduled; the timer fires.  The client   *)
(* may stop at any point.                                                *)
Spec == Init /\ [][Next]_vars
        /\ WF_vars(Goroutine)
        /\ WF_vars(HandshakeResult) /\ WF_vars(HandshakeTimeout)

-----------------------------------------------------------------------------
(* Properties. *)

(* A client that follows the RTMP digest scheme never rejects the         *)
(* server's S0S1S2: serverHandshke finds the client's digest at base 772  *)
(* or 8, keys S2 with its HMAC under the server's full key and puts its   *)
(* own digest in S1.                                                      *)
ConformingClientAccepts == cli # "rejected"

(* Whatever the client does (stop, leave, send garbage) and whichever    *)
(* case wins WithClient's select, the handshake goroutine ends and serve  *)
(* leaves the select: the channel's buffer takes the result nobody reads  *)
(* after a timeout, and serve's Close fails the read the goroutine is     *)
(* blocked in.                                                            *)
HandshakeGoroutineEnds == <>(hs = "exited" /\ wc # "select")

=============================================================================
