----------------------------- MODULE CodexEngine -----------------------------
(***************************************************************************)
(* The shared Codex app-server of one profile: appServerProfile, its         *)
(* rpcClients and the appSessions on them.  Sessions are started, forked and *)
(* closed by request handlers; each engine process has a read loop that      *)
(* answers calls, routes notifications and, when the output of the process   *)
(* ends, fails what is pending and closes the sessions.  p.mu is held for    *)
(* one map access at a time, but for ensureClient, which holds it through    *)
(* the handshake with a new engine.                                          *)
(*                                                                           *)
(* Threads, turns and items are the process's own: a session here is what    *)
(* decides where a notification goes and whether its channel is still open.  *)
(***************************************************************************)
EXTENDS Integers, FiniteSets

CONSTANTS Starters,    \* handlers that start, resume or fork a session
          Objects,     \* bound: appSessions made
          Threads,     \* thread ids
          MaxEngines,  \* bound: processes started
          None

ASSUME ConstantsOK == /\ None \notin Starters \cup Objects \cup Threads
                      /\ MaxEngines \in Nat \ {0}

Engines == 1 .. MaxEngines

VARIABLES
  holder,    \* the starter that holds p.mu through its handshake, or None
  client,    \* p.client, 0 for nil
  sessions,  \* p.sessions
  made,      \* processes started so far
  running,   \* engines whose output has not ended
  dead,      \* engines whose c.dead is set
  reader,    \* reader[e]: the read loop of engine e
  start,     \* start[c]: where starter c is
  obj,       \* obj[o]: an appSession
  panicked   \* a send on a closed channel took the daemon down

vars == <<holder, client, sessions, made, running, dead, reader, start, obj, panicked>>

\* read: waiting for a line | lookup: for p.mu, to route a notification | check, send:
\* in emit | mourn: for p.mu, to handle the engine's death | next: between two sessions
\* of the snapshot | close, unregister, shut: in appSession.Close | over
ReadSteps == {"read", "lookup", "check", "send", "mourn", "next", "close", "unregister",
              "shut", "over"}

\* why: what is being emitted, an ordinary notification or one of the two last events.
\* left: the sessions of the snapshot that are still to be closed.
Reader == [step : ReadSteps, why : {"notification", "error", "done"},
           at : Objects \cup {None}, thread : Threads \cup {None}, left : SUBSET Objects]

\* ensure: for p.mu | handshake: initialize is pending | install: it was answered |
\* refused: it was not | call: about to call thread/start, resume or fork | waiting:
\* for its answer | register: for p.mu | check, send: emitting session.started
StartSteps == {"idle", "ensure", "handshake", "install", "refused", "call", "waiting",
               "register", "check", "send"}

Starter == [at : StartSteps, engine : 0 .. MaxEngines, obj : Objects \cup {None}]

\* closing, unregistered: within Close.  shut: the events channel is closed.
States == {"unmade", "open", "closing", "unregistered", "shut"}

\* Why the death of its engine cannot reach a session (history).  dropped: it is no longer
\* in p.sessions.  late: it was registered after the death was handled.
Fates == {"none", "dropped", "late"}

Session == [thread : Threads \cup {None}, engine : 0 .. MaxEngines, st : States,
            by : {"nobody", "manager", "reader"}, live : BOOLEAN, fate : Fates]

Unmade == [thread |-> None, engine |-> 0, st |-> "unmade", by |-> "nobody", live |-> FALSE,
           fate |-> "none"]

Asleep == [step |-> "read", why |-> "notification", at |-> None, thread |-> None,
           left |-> {}]

Idle == [at |-> "idle", engine |-> 0, obj |-> None]

Init == /\ holder = None
        /\ client = 0
        /\ sessions = [t \in Threads |-> None]
        /\ made = 0
        /\ running = {}
        /\ dead = {}
        /\ reader = [e \in Engines |-> Asleep]
        /\ start = [c \in Starters |-> Idle]
        /\ obj = [o \in Objects |-> Unmade]
        /\ panicked = FALSE
-----------------------------------------------------------------------------
(* Helpers.                                                                   *)

Profile == <<holder, client, sessions>>
Process == <<made, running, dead>>

\* Starter c leaves step from for step to.
Steps(c, from, to) == /\ ~panicked
                      /\ start[c].at = from
                      /\ start' = [start EXCEPT ![c].at = to]

Returns(c, from) == /\ ~panicked
                    /\ start[c].at = from
                    /\ start' = [start EXCEPT ![c] = Idle]

Reads(e, from, to) == /\ ~panicked
                      /\ reader[e].step = from
                      /\ reader' = [reader EXCEPT ![e].step = to]

\* The handler of e's death is through with one session.
Done(e, from) == /\ ~panicked
                 /\ reader[e].step = from
                 /\ reader' = [reader EXCEPT ![e] = [Asleep EXCEPT !.step = "next",
                                                                  !.left = reader[e].left]]

\* Sessions that p.sessions no longer has once it is table.
Forgotten(table) == {o \in Objects : /\ \E t \in Threads : sessions[t] = o
                                     /\ \A t \in Threads : table[t] # o}

\* The objects, those in lost being out of reach from now on if they are open.
Losing(lost) == [o \in Objects |-> IF o \in lost /\ obj[o].st = "open"
                                   THEN [obj[o] EXCEPT !.fate = "dropped"] ELSE obj[o]]

Empty == [t \in Threads |-> None]

Fresh == {o \in Objects : obj[o].st = "unmade"}

\* Of a session whose channel is closed nothing is used but its engine, by a late Fork.
Shut(o) == obj' = [obj EXCEPT ![o] = [Unmade EXCEPT !.st = "shut", !.engine = obj[o].engine,
                                                    !.live = obj[o].live]]
-----------------------------------------------------------------------------
(* startAppSession and Fork.                                                  *)

Begin(c) ==
  /\ Steps(c, "idle", "ensure")
  /\ UNCHANGED <<Profile, Process, reader, obj, panicked>>

\* Fork calls the client of its parent, whichever engine the profile has by now.
Fork(c, o) ==
  /\ ~panicked /\ start[c].at = "idle"
  /\ obj[o].live
  /\ start' = [start EXCEPT ![c] = [Idle EXCEPT !.at = "call", !.engine = obj[o].engine]]
  /\ UNCHANGED <<Profile, Process, reader, obj, panicked>>

\* ensureClient: the client is there and not known to be dead.
Reuse(c) ==
  /\ ~panicked /\ start[c].at = "ensure"
  /\ holder = None
  /\ client # 0 /\ client \notin dead
  /\ start' = [start EXCEPT ![c].at = "call", ![c].engine = client]
  /\ UNCHANGED <<Profile, Process, reader, obj, panicked>>

Launch(c) ==
  /\ ~panicked /\ start[c].at = "ensure"
  /\ holder = None
  /\ client = 0 \/ client \in dead
  /\ made < MaxEngines
  /\ made' = made + 1
  /\ running' = running \cup {made'}
  /\ holder' = c
  /\ start' = [start EXCEPT ![c].at = "handshake", ![c].engine = made']
  /\ UNCHANGED <<client, sessions, dead, reader, obj, panicked>>

\* The process cannot be started: StartSession falls back to a TurnSession.
LaunchFails(c) ==
  /\ holder = None
  /\ client = 0 \/ client \in dead
  /\ Returns(c, "ensure")
  /\ UNCHANGED <<Profile, Process, reader, obj, panicked>>

\* Fifteen seconds are over, the write fails, or the process answers with an error.
HandshakeFails(c) ==
  /\ Steps(c, "handshake", "refused")
  /\ UNCHANGED <<Profile, Process, reader, obj, panicked>>

\* c.Kill(), and p.mu is released.
Refuse(c) ==
  /\ Returns(c, "refused")
  /\ running' = running \ {start[c].engine}
  /\ holder' = None
  /\ UNCHANGED <<client, sessions, made, dead, reader, obj, panicked>>

\* Mutant of Install: p.mu is not released.
InstallHolding(c) ==
  /\ Steps(c, "install", "call")
  /\ client' = start[c].engine
  /\ sessions' = Empty
  /\ obj' = Losing(Forgotten(Empty))
  /\ UNCHANGED <<holder, Process, reader, panicked>>

\* The new engine is the client, with a map of its own.
Install(c) ==
  /\ Steps(c, "install", "call")
  /\ client' = start[c].engine
  /\ sessions' = Empty
  /\ holder' = None
  /\ obj' = Losing(Forgotten(Empty))
  /\ UNCHANGED <<Process, reader, panicked>>

\* Call: the request is pending, unless the engine is known to be dead.
Call(c) ==
  /\ start[c].engine \notin dead
  /\ Steps(c, "call", "waiting")
  /\ UNCHANGED <<Profile, Process, reader, obj, panicked>>

\* It is dead, the write fails, the request is given up, or it is answered by an error.
CallFails(c) ==
  /\ Returns(c, "call") \/ Returns(c, "waiting")
  /\ UNCHANGED <<Profile, Process, reader, obj, panicked>>

\* The death of engine e has been, or is being, handled.
Mourned(e) == \/ reader[e].step \in {"next", "over"}
              \/ reader[e].why # "notification"

Register(c) ==
  LET o == start[c].obj
      table == [sessions EXCEPT ![obj[o].thread] = o]
  IN
  /\ holder = None
  /\ Steps(c, "register", "check")
  /\ sessions' = table
  /\ obj' = [Losing(Forgotten(table)) EXCEPT
               ![o].fate = IF Mourned(obj[o].engine) THEN "late" ELSE "none"]
  /\ UNCHANGED <<holder, client, Process, reader, panicked>>

\* The first half of emit.
StarterChecks(c) ==
  /\ \/ /\ Steps(c, "check", "send")
        /\ obj[start[c].obj].st = "open"
        /\ UNCHANGED obj
     \/ /\ Returns(c, "check")
        /\ obj[start[c].obj].st # "open"
        /\ obj' = [obj EXCEPT ![start[c].obj].live = TRUE]
  /\ UNCHANGED <<Profile, Process, reader, panicked>>

\* The second: the event is queued, or dropped when 256 of them are.  The manager gets
\* the session and starts its pump.
StarterSends(c) ==
  /\ Returns(c, "send")
  /\ obj[start[c].obj].st # "shut"
  /\ obj' = [obj EXCEPT ![start[c].obj].live = TRUE]
  /\ UNCHANGED <<Profile, Process, reader, panicked>>

StarterPanics(c) ==
  /\ ~panicked /\ start[c].at = "send"
  /\ obj[start[c].obj].st = "shut"
  /\ panicked' = TRUE
  /\ UNCHANGED <<Profile, Process, reader, start, obj>>
-----------------------------------------------------------------------------
(* The read loop of engine e.                                                 *)

Answer(e, c) ==
  /\ ~panicked /\ reader[e].step = "read" /\ e \in running
  /\ start[c].engine = e
  /\ \/ Steps(c, "handshake", "install") /\ UNCHANGED obj
     \/ /\ start[c].at = "waiting"
        /\ Fresh # {}
        /\ LET o == CHOOSE o \in Fresh : TRUE IN
           \E t \in Threads :
             /\ obj' = [obj EXCEPT ![o] = [Unmade EXCEPT !.thread = t, !.engine = e,
                                                         !.st = "open"]]
             /\ start' = [start EXCEPT ![c].at = "register", ![c].obj = o]
  /\ UNCHANGED <<Profile, Process, reader, panicked>>

\* A notification, or an approval request, for a thread of this engine.
Notified(e, t) ==
  /\ e \in running
  /\ \E o \in Objects : obj[o].engine = e /\ obj[o].thread = t
  /\ ~panicked /\ reader[e].step = "read"
  /\ reader' = [reader EXCEPT ![e].step = "lookup", ![e].thread = t]
  /\ UNCHANGED <<Profile, Process, start, obj, panicked>>

\* lookup.  With no session for the thread it is left, or denied, without a change.
Route(e) ==
  /\ ~panicked /\ reader[e].step = "lookup"
  /\ holder = None
  /\ LET o == sessions[reader[e].thread] IN
     reader' = [reader EXCEPT ![e] = IF o = None THEN Asleep
                                     ELSE [Asleep EXCEPT !.step = "check", !.at = o]]
  /\ UNCHANGED <<Profile, Process, start, obj, panicked>>

\* What follows an emit.
Emitted(r) == CASE r.why = "notification" -> Asleep
                [] r.why = "error"        -> [r EXCEPT !.step = "check", !.why = "done"]
                [] r.why = "done"         -> [r EXCEPT !.step = "close"]

ReaderChecks(e) ==
  /\ ~panicked /\ reader[e].step = "check"
  /\ reader' = [reader EXCEPT ![e] = IF obj[@.at].st = "open" THEN [@ EXCEPT !.step = "send"]
                                     ELSE Emitted(@)]
  /\ UNCHANGED <<Profile, Process, start, obj, panicked>>

ReaderSends(e) ==
  /\ ~panicked /\ reader[e].step = "send"
  /\ obj[reader[e].at].st # "shut"
  /\ reader' = [reader EXCEPT ![e] = Emitted(@)]
  /\ UNCHANGED <<Profile, Process, start, obj, panicked>>

\* The channel was closed between the check and the send.
ReaderPanics(e) ==
  /\ ~panicked /\ reader[e].step = "send"
  /\ obj[reader[e].at].st = "shut"
  /\ panicked' = TRUE
  /\ UNCHANGED <<Profile, Process, reader, start, obj>>

\* The process exits.
Exit(e) ==
  /\ ~panicked /\ e \in running
  /\ running' = running \ {e}
  /\ UNCHANGED <<Profile, made, dead, reader, start, obj, panicked>>

\* The calls that engine e will not answer, and where their callers go.
Failed(e) == [c \in Starters |->
  IF start[c].engine # e THEN start[c]
  ELSE IF start[c].at = "handshake" THEN [start[c] EXCEPT !.at = "refused"]
  ELSE IF start[c].at = "waiting" THEN Idle ELSE start[c]]

\* Mutant of EndOfLines: a line that makes no sense ends the loop.
EndEarly(e) ==
  /\ e \in 1 .. made
  /\ Reads(e, "read", "mourn")
  /\ dead' = dead \cup {e}
  /\ start' = Failed(e)
  /\ UNCHANGED <<Profile, made, running, obj, panicked>>

\* The process is gone: fail everything in flight.
EndOfLines(e) ==
  /\ e \in 1 .. made /\ e \notin running
  /\ Reads(e, "read", "mourn")
  /\ dead' = dead \cup {e}
  /\ start' = Failed(e)
  /\ UNCHANGED <<Profile, made, running, obj, panicked>>

\* Mutant of Mourn: the snapshot is taken after the map is emptied.
MournNobody(e) ==
  /\ holder = None
  /\ Reads(e, "mourn", "next")
  /\ sessions' = Empty
  /\ client' = 0
  /\ UNCHANGED <<holder, Process, start, obj, panicked>>

\* handleEngineDeath, with p.mu: the sessions that are registered now are e's to close, and
\* the client is nil, whichever engine it was.
Mourn(e) ==
  /\ ~panicked /\ reader[e].step = "mourn"
  /\ holder = None
  /\ reader' = [reader EXCEPT ![e].step = "next",
                              ![e].left = {o \in Objects : \E t \in Threads : sessions[t] = o}]
  /\ sessions' = Empty
  /\ client' = 0
  /\ UNCHANGED <<holder, Process, start, obj, panicked>>

NextOfSnapshot(e) ==
  /\ ~panicked /\ reader[e].step = "next"
  /\ IF reader[e].left = {} THEN reader' = [reader EXCEPT ![e].step = "over"]
     ELSE \E o \in reader[e].left :
            reader' = [reader EXCEPT ![e] = [reader[e] EXCEPT !.step = "check",
                       !.why = "error", !.at = o, !.left = reader[e].left \ {o}]]
  /\ UNCHANGED <<Profile, Process, start, obj, panicked>>

\* Mutant of ReaderCloses: without a look at the closed flag.
ReaderClosesAgain(e) ==
  /\ Reads(e, "close", "unregister")
  /\ obj' = IF obj[reader[e].at].st # "open" THEN obj
            ELSE [obj EXCEPT ![reader[e].at].st = "closing", ![reader[e].at].by = "reader"]
  /\ UNCHANGED <<Profile, Process, start, panicked>>

\* Close: one that is closed already is left to whoever closes it.
ReaderCloses(e) ==
  /\ \/ /\ Reads(e, "close", "unregister")
        /\ obj[reader[e].at].st = "open"
        /\ obj' = [obj EXCEPT ![reader[e].at].st = "closing", ![reader[e].at].by = "reader"]
     \/ /\ Done(e, "close")
        /\ obj[reader[e].at].st # "open"
        /\ UNCHANGED obj
  /\ UNCHANGED <<Profile, Process, start, panicked>>

\* owner.unregister: whichever session the thread has by now.
Unregister(o) ==
  LET table == [sessions EXCEPT ![obj[o].thread] = None] IN
  /\ holder = None
  /\ sessions' = table
  /\ obj' = [Losing(Forgotten(table)) EXCEPT ![o].st = "unregistered"]

ReaderUnregisters(e) ==
  /\ Reads(e, "unregister", "shut")
  /\ Unregister(reader[e].at)
  /\ UNCHANGED <<holder, client, Process, start, panicked>>

ReaderShuts(e) ==
  /\ Done(e, "shut")
  /\ Shut(reader[e].at)
  /\ UNCHANGED <<Profile, Process, start, panicked>>
-----------------------------------------------------------------------------
(* Close, by session.Manager.                                                 *)

ManagerCloses(o) ==
  /\ ~panicked
  /\ obj[o].live /\ obj[o].st = "open"
  /\ obj' = [obj EXCEPT ![o].st = "closing", ![o].by = "manager"]
  /\ UNCHANGED <<Profile, Process, reader, start, panicked>>

\* Mutant of ManagerUnregisters: the session stays in the map.
ManagerUnregistersNot(o) ==
  /\ ~panicked /\ obj[o].st = "closing" /\ obj[o].by = "manager"
  /\ obj' = [obj EXCEPT ![o].st = "unregistered"]
  /\ UNCHANGED <<Profile, Process, reader, start, panicked>>

ManagerUnregisters(o) ==
  /\ ~panicked /\ obj[o].st = "closing" /\ obj[o].by = "manager"
  /\ Unregister(o)
  /\ UNCHANGED <<holder, client, Process, reader, start, panicked>>

ManagerShuts(o) ==
  /\ ~panicked /\ obj[o].st = "unregistered" /\ obj[o].by = "manager"
  /\ Shut(o)
  /\ UNCHANGED <<Profile, Process, reader, start, panicked>>
-----------------------------------------------------------------------------
ReadLoop(e) == \/ Route(e) \/ ReaderChecks(e) \/ ReaderSends(e) \/ ReaderPanics(e)
               \/ EndOfLines(e) \/ Mourn(e) \/ NextOfSnapshot(e) \/ ReaderCloses(e)
               \/ ReaderUnregisters(e) \/ ReaderShuts(e)

\* What a starter does once it has p.mu, or no need of it.
Proceeds(c) == \/ Reuse(c) \/ Launch(c) \/ LaunchFails(c) \/ HandshakeFails(c) \/ Refuse(c)
               \/ Install(c) \/ Register(c) \/ StarterChecks(c) \/ StarterSends(c)
               \/ StarterPanics(c)

Next == \/ \E c \in Starters : \/ Begin(c) \/ Proceeds(c) \/ Call(c) \/ CallFails(c)
                               \/ \E o \in Objects : Fork(c, o)
                               \/ \E e \in Engines : Answer(e, c)
        \/ \E e \in Engines : ReadLoop(e) \/ Exit(e) \/ \E t \in Threads : Notified(e, t)
        \/ \E o \in Objects : ManagerCloses(o) \/ ManagerUnregisters(o) \/ ManagerShuts(o)

Spec == Init /\ [][Next]_vars

\* Goroutines run on, p.mu is granted to who waits for it, and the timer of the handshake
\* fires.  A process may keep silent for ever: no fairness of Answer, Notified or Exit.
Fairness == /\ \A c \in Starters : WF_vars(Proceeds(c))
            /\ \A e \in Engines : WF_vars(ReadLoop(e))

FairSpec == Spec /\ Fairness
-----------------------------------------------------------------------------
(* Properties.                                                                *)

\* Every variable stays in its range, and who works on a session has one.
TypeOK ==
  /\ holder \in Starters \cup {None}
  /\ client \in 0 .. made
  /\ sessions \in [Threads -> Objects \cup {None}]
  /\ made \in 0 .. MaxEngines
  /\ running \subseteq 1 .. made
  /\ dead \subseteq (1 .. made) \ running
  /\ reader \in [Engines -> Reader]
  /\ \A e \in Engines :
       reader[e].step \in {"check", "send", "close", "unregister", "shut"} =>
         reader[e].at \in Objects
  /\ start \in [Starters -> Starter]
  /\ \A c \in Starters : start[c].at \in {"register", "check", "send"} =>
                           start[c].obj \in Objects
  /\ obj \in [Objects -> Session]
  /\ panicked \in BOOLEAN

\* The handler of f's death has o before it or in hand.
Mourning(f, o) == Mourned(f) /\ o \in reader[f].left \cup {reader[f].at}

\* A notification is routed to the session of its thread, and never to one whose Close is
\* past unregister: what emit may still meet is a Close that began after the routing.
RoutedToItsThread ==
  \A t \in Threads : sessions[t] # None =>
    /\ obj[sessions[t]].thread = t
    /\ obj[sessions[t]].st \in {"open", "closing"}

\* Two Closes of a session, by its manager and by the death of its engine, do not both get
\* to close its channel, which would panic.
ClosedOnce ==
  \A o \in Objects :
    /\ obj[o].by = "manager" => \A e \in Engines :
         ~(reader[e].step \in {"unregister", "shut"} /\ reader[e].at = o)
    /\ \A e, f \in Engines :
         /\ reader[e].step \in {"unregister", "shut"} /\ reader[e].at = o
         /\ reader[f].step \in {"unregister", "shut"} /\ reader[f].at = o
         => e = f

\* appserver.go:106, "every live session gets an error event and is closed": when the
\* death of an engine has been handled the sessions on it are closed, but for those that
\* p.sessions had lost before, those that were registered too late, and those that the
\* death of another engine took and is about to close.
DeathEndsSessions ==
  \A e \in Engines, o \in Objects :
    reader[e].step = "over" /\ obj[o].engine = e /\ obj[o].live =>
      \/ obj[o].st # "open"
      \/ obj[o].fate # "none"
      \/ \E f \in Engines : Mourning(f, o)

\* The same as the comment has it, for the sessions registered in time.
DeathReachesSessions ==
  \A e \in Engines, o \in Objects :
    reader[e].step = "over" /\ obj[o].engine = e /\ obj[o].live /\ obj[o].fate # "late" =>
      obj[o].st # "open" \/ \E f \in Engines : Mourning(f, o)

\* The death of an engine is handled, whoever holds p.mu meanwhile, and the calls to it
\* come back.
DeathIsHandled ==
  /\ \A e \in Engines : (e \in 1 .. made /\ e \notin running) ~> (reader[e].step = "over" \/ panicked)
  /\ \A c \in Starters, e \in Engines :
       (start[c].at = "waiting" /\ start[c].engine = e /\ e \notin running)
         ~> (start[c].at # "waiting" \/ panicked)
=============================================================================
