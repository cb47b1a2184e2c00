------------------------------ MODULE Broker ------------------------------
(***************************************************************************)
(* The session registry of one stream key (src/pkg/rtmp/server/broker.go,  *)
(* session.go, server_conn.go publishCycle/playCycle).  Publisher          *)
(* connections create or resume the key's session (createSession), and on  *)
(* disconnect clear its publisher and signal its offline channel           *)
(* (softDelSession).  Each session's checkOffline goroutine receives one    *)
(* offline signal and arms a 30 s timer that, if the publisher is still    *)
(* nil, closes every player and deletes the key (delSession).  Player      *)
(* connections look the key up and add themselves (addSessionPlayer).     *)
(*                                                                         *)
(* Keys do not interact, so one key is modelled; sessions are numbered in  *)
(* creation order.  Media fan-out is left to module Fanout.                *)
(***************************************************************************)
EXTENDS Integers, FiniteSets

CONSTANTS
    Pubs,         \* publisher connections (model values)
    Players,      \* player connections (model values)
    MaxSessions,  \* bound on the number of sessions created
    NoConn        \* model value: a nil publisher pointer

ASSUME MaxSessions \in Nat \ {0}

Sessions == 1..MaxSessions

VARIABLES
    entry,        \* sessionMap[streamKey]: a session, or 0 when absent
    total,        \* sessionTotal
    created,      \* number of sessions newSession has built
    sessPub,      \* [session -> publisher conn or NoConn]
    sessPlayers,  \* [session -> players in its players map]
    offline,      \* [session -> messages in the offline channel (cap 1)]
    wd,           \* [session -> checkOffline goroutine / timer state]
    cpc,          \* [publisher conn -> control point]
    ctarget,      \* [publisher conn -> session createSession or softDel loaded]
    pclosed,      \* [player -> its packet buffer was closed]
    ppc,          \* [player -> control point]
    psess         \* [player -> session addSessionPlayer loaded]

vars == <<entry, total, created, sessPub, sessPlayers, offline, wd, cpc,
          ctarget, pclosed, ppc, psess>>
sessVars == <<entry, total, created, sessPub, sessPlayers, offline, wd>>
pubVars == <<cpc, ctarget>>
playerVars == <<pclosed, ppc, psess>>

\* checkOffline states: "none" (not created), "waiting" (blocked on
\* <-s.offline), "armed" (time.AfterFunc pending), "cleanup" and "delete"
\* (inside the timer function), "done".
WdStates == {"none", "waiting", "armed", "cleanup", "delete", "done"}

TypeOK ==
    /\ entry \in 0..MaxSessions
    /\ total \in 0..MaxSessions
    /\ created \in 0..MaxSessions
    /\ sessPub \in [Sessions -> Pubs \cup {NoConn}]
    /\ sessPlayers \in [Sessions -> SUBSET Players]
    /\ offline \in [Sessions -> 0..1]
    /\ wd \in [Sessions -> WdStates]
    /\ cpc \in [Pubs -> {"idle", "adopt", "create", "publishing", "softdel",
                         "signal", "done"}]
    /\ ctarget \in [Pubs -> 0..MaxSessions]
    /\ pclosed \in [Players -> BOOLEAN]
    /\ ppc \in [Players -> {"idle", "admit", "playing", "gone"}]
    /\ psess \in [Players -> 0..MaxSessions]

Init ==
    /\ entry = 0
    /\ total = 0
    /\ created = 0
    /\ sessPub = [s \in Sessions |-> NoConn]
    /\ sessPlayers = [s \in Sessions |-> {}]
    /\ offline = [s \in Sessions |-> 0]
    /\ wd = [s \in Sessions |-> "none"]
    /\ cpc = [c \in Pubs |-> "idle"]
    /\ ctarget = [c \in Pubs |-> 0]
    /\ pclosed = [p \in Players |-> FALSE]
    /\ ppc = [p \in Players |-> "idle"]
    /\ psess = [p \in Players |-> 0]

-----------------------------------------------------------------------------
(* Publisher connection: publishCycle.                                      *)

\* createSession, first half: sessionMap.Load and, if the key is present,
\* the test of sess.publisher.  A session with a live publisher is refused
\* ("session exists"): publishCycle returns without soft-deleting.
CreateLoad(c) ==
    /\ cpc[c] = "idle"
    /\ cpc' = [cpc EXCEPT ![c] = CASE entry = 0                -> "create"
                                   [] sessPub[entry] = NoConn -> "adopt"
                                   [] OTHER                   -> "done"]
    /\ ctarget' = [ctarget EXCEPT ![c] = entry]
    /\ UNCHANGED <<sessVars, playerVars>>

\* Resume: sess.publisher = publisher (the nil test was the step before).
Adopt(c) ==
    /\ cpc[c] = "adopt"
    /\ sessPub' = [sessPub EXCEPT ![ctarget[c]] = c]
    /\ cpc' = [cpc EXCEPT ![c] = "publishing"]
    /\ UNCHANGED <<entry, total, created, sessPlayers, offline, wd, ctarget,
                   playerVars>>

\* newSession (which starts the checkOffline goroutine), then
\* sessionMap.Store and atomic.AddInt32(&sessionTotal, 1).
Create(c) ==
    /\ cpc[c] = "create"
    /\ created < MaxSessions
    /\ LET s == created + 1 IN
       /\ created' = s
       /\ sessPub' = [sessPub EXCEPT ![s] = c]
       /\ wd' = [wd EXCEPT ![s] = "waiting"]
       /\ entry' = s
       /\ total' = total + 1
       /\ ctarget' = [ctarget EXCEPT ![c] = s]
    /\ cpc' = [cpc EXCEPT ![c] = "publishing"]
    /\ UNCHANGED <<sessPlayers, offline, playerVars>>

\* The publisher's socket fails or closes: the publish loop returns.
Disconnect(c) ==
    /\ cpc[c] = "publishing"
    /\ cpc' = [cpc EXCEPT ![c] = "softdel"]
    /\ UNCHANGED <<sessVars, ctarget, playerVars>>

\* Deferred softDelSession(streamKey): Load the key (an error if absent),
\* set that session's publisher to nil.
SoftDel(c) ==
    /\ cpc[c] = "softdel"
    /\ IF entry = 0
       THEN /\ cpc' = [cpc EXCEPT ![c] = "done"]
            /\ UNCHANGED <<sessPub, ctarget>>
       ELSE /\ sessPub' = [sessPub EXCEPT ![entry] = NoConn]
            /\ ctarget' = [ctarget EXCEPT ![c] = entry]
            /\ cpc' = [cpc EXCEPT ![c] = "signal"]
    /\ UNCHANGED <<entry, total, created, sessPlayers, offline, wd, playerVars>>

\* newSession: s.offline = make(chan bool, 1).
OfflineCap == 1

\* The send on s.offline can complete: the buffer slot is free (a waiting
\* checkOffline takes the value from an empty buffer just the same).
OfflineSendable(s) == offline[s] < OfflineCap

\* sess.offline <- true: blocks until the send can complete.
Signal(c) ==
    /\ cpc[c] = "signal"
    /\ OfflineSendable(ctarget[c])
    /\ offline' = [offline EXCEPT ![ctarget[c]] = 1]
    /\ cpc' = [cpc EXCEPT ![c] = "done"]
    /\ UNCHANGED <<entry, total, created, sessPub, sessPlayers, wd, ctarget,
                   playerVars>>

-----------------------------------------------------------------------------
(* Session s: checkOffline and its timer function.                          *)

\* <-s.offline, then time.AfterFunc(30s, ...); the goroutine then ends.
Watch(s) ==
    /\ wd[s] = "waiting"
    /\ offline[s] = 1
    /\ offline' = [offline EXCEPT ![s] = 0]
    /\ wd' = [wd EXCEPT ![s] = "armed"]
    /\ UNCHANGED <<entry, total, created, sessPub, sessPlayers, pubVars,
                   playerVars>>

\* The timer fires: if s.publisher != nil the session came back: return.
TimerFire(s) ==
    /\ wd[s] = "armed"
    /\ wd' = [wd EXCEPT ![s] = IF sessPub[s] # NoConn THEN "done" ELSE "cleanup"]
    /\ UNCHANGED <<entry, total, created, sessPub, sessPlayers, offline,
                   pubVars, playerVars>>

\* players.Range: delPlayer closes each player's buffer and removes it.
TimerCleanup(s) ==
    /\ wd[s] = "cleanup"
    /\ pclosed' = [p \in Players |-> pclosed[p] \/ p \in sessPlayers[s]]
    /\ sessPlayers' = [sessPlayers EXCEPT ![s] = {}]
    /\ wd' = [wd EXCEPT ![s] = "delete"]
    /\ UNCHANGED <<entry, total, created, sessPub, offline, pubVars, ppc, psess>>

\* broker.delSession(s.streamKey): Delete the key, whatever it maps to now,
\* and decrement sessionTotal.
TimerDelete(s) ==
    /\ wd[s] = "delete"
    /\ entry' = 0
    /\ total' = total - 1
    /\ wd' = [wd EXCEPT ![s] = "done"]
    /\ UNCHANGED <<created, sessPub, sessPlayers, offline, pubVars, playerVars>>

-----------------------------------------------------------------------------
(* Player connection: playCycle.                                            *)

\* addSessionPlayer: sessionMap.Load; a missing key is "session not exists"
\* and the connection ends.
AddLoad(p) ==
    /\ ppc[p] = "idle"
    /\ ppc' = [ppc EXCEPT ![p] = IF entry = 0 THEN "gone" ELSE "admit"]
    /\ psess' = [psess EXCEPT ![p] = entry]
    /\ UNCHANGED <<sessVars, pubVars, pclosed>>

\* newPlayer, then sess.addPlayer stores it in the loaded session.
AddStore(p) ==
    /\ ppc[p] = "admit"
    /\ sessPlayers' = [sessPlayers EXCEPT ![psess[p]] = @ \cup {p}]
    /\ ppc' = [ppc EXCEPT ![p] = "playing"]
    /\ UNCHANGED <<entry, total, created, sessPub, offline, wd, pubVars,
                   pclosed, psess>>

\* doPlaying returns (client error, or its buffer was closed): the deferred
\* delPlayer closes the buffer and removes the player.
Leave(p) ==
    /\ ppc[p] = "playing"
    /\ pclosed' = [pclosed EXCEPT ![p] = TRUE]
    /\ sessPlayers' = [sessPlayers EXCEPT ![psess[p]] = @ \ {p}]
    /\ ppc' = [ppc EXCEPT ![p] = "gone"]
    /\ UNCHANGED <<entry, total, created, sessPub, offline, wd, pubVars, psess>>

-----------------------------------------------------------------------------
PubStep(c) == CreateLoad(c) \/ Adopt(c) \/ Create(c) \/ SoftDel(c) \/ Signal(c)
SessionStep(s) ==
    Watch(s) \/ TimerFire(s) \/ TimerCleanup(s) \/ TimerDelete(s)

Next ==
    \/ \E c \in Pubs : PubStep(c) \/ Disconnect(c)
    \/ \E s \in Sessions : SessionStep(s)
    \/ \E p \in Players : AddLoad(p) \/ AddStore(p) \/ Leave(p)

\* Goroutines and timers run fairly.  Clients connect and disconnect when
\* they like; a player whose buffer was closed leaves (doPlaying sees the
\* closed channel).
Fairness ==
    /\ \A c \in Pubs :
         WF_vars(Adopt(c) \/ Create(c) \/ SoftDel(c) \/ Signal(c))
    /\ \A s \in Sessions : WF_vars(SessionStep(s))
    /\ \A p \in Players : WF_vars(AddStore(p)) /\ WF_vars(pclosed[p] /\ Leave(p))

Spec == Init /\ [][Next]_vars /\ Fairness

-----------------------------------------------------------------------------
(* Properties                                                               *)

\* The grace timer tears a session down (closes its players, deletes the
\* key) only while that session has no publisher: once the timer has
\* tested s.publisher, a publisher that resumes the session keeps it.
TimerSparesLiveSession ==
    \A s \in Sessions : wd[s] \in {"cleanup", "delete"} => sessPub[s] = NoConn

\* Every publisher connection that starts its deferred softDelSession
\* finishes it: the send on the session's offline channel does not block
\* forever, so publishCycle returns and the connection goroutine ends.
\* checkOffline receives only once and the buffer has one slot, so a third
\* disconnect of one session's publishers blocks in the send (broker.go
\* softDelSession): the run broker_offline_block finds this violated.
PublisherGoroutineEnds ==
    \A c \in Pubs : (cpc[c] = "softdel") ~> (cpc[c] = "done")

\* Once the key's session has lost its publisher, within the grace period
\* either a publisher comes back or the session is removed.
GraceRemoval ==
    \A s \in Sessions :
        (entry = s /\ sessPub[s] = NoConn) ~> (entry # s \/ sessPub[s] # NoConn)

=============================================================================
