----------------------------- MODULE CodexTurns -----------------------------
(***************************************************************************)
(* One thread of a Codex app-server, from the requests of the clients to the *)
(* events of its session.  A connection handles one request at a time; a     *)
(* request becomes a call on the engine's stdin; what the engine prints is   *)
(* read by one loop, which wakes the caller of an answer and hands the rest  *)
(* to the session: the id of the running turn, the events, and the approvals *)
(* that the engine waits for.  The death of the engine is in CodexEngine.    *)
(***************************************************************************)
EXTENDS Integers, Sequences, FiniteSets

CONSTANTS Clients, None,
          Asks,      \* approval requests the engine may make
          MaxTurns,  \* bound: turns
          MaxCalls,  \* bound: calls
          Capacity   \* room of the events channel

ASSUME ConstantsOK == /\ None \notin Clients \cup Asks
                      /\ {MaxTurns, MaxCalls, Capacity} \subseteq Nat \ {0}

Turns == 1 .. MaxTurns
Methods == {"turn/start", "review/start", "turn/steer", "turn/interrupt", "thread/rollback"}

\* id 0: nothing under way.  called: waiting for the answer | woken: it is in the channel |
\* respond: an approval taken from the map, its answer not written.
Handlers == [at : {"idle", "called", "woken", "respond"}, id : 0 .. MaxCalls,
             method : Methods \cup {None}, turn : 0 .. MaxTurns, ask : Asks \cup {None}]
Idle == [at |-> "idle", id |-> 0, method |-> None, turn |-> 0, ask |-> None]

Lines == [kind : {"answer", "started", "text", "done"}, id : 0 .. MaxCalls, turn : 0 .. MaxTurns]
           \cup [kind : {"ask"}, ask : Asks]
Line(kind, t) == [kind |-> kind, id |-> 0, turn |-> t]
Answer(id, t) == [kind |-> "answer", id |-> id, turn |-> t]

Events == [type : {"output.text", "task.done"}, turn : Turns, result : 0 .. MaxTurns]
            \cup [type : {"approval.needed"}, ask : Asks]

VARIABLES
  handler,    \* handler[c]: the request that connection c is handling
  calls,      \* calls made
  pending,    \* rpcClient.pending: calls that wait for an answer
  stdin,      \* calls on their way to the engine
  turn,       \* the turn the engine runs, or 0
  turns,      \* turns it has started
  spoken,     \* turns in which it has printed an agent message
  asked,      \* approval requests it has made
  wire,       \* lines on their way from the engine
  turnID,     \* s.turnID
  lastText,   \* s.lastText: the turn it comes from, or 0
  approvals,  \* s.approvals
  closed,     \* the session is closed and its thread unregistered
  events,     \* s.events
  decisions,  \* decisions[r]: answers to r that reached the engine (history)
  lost,       \* requests whose answer could not be written (history)
  overlapped  \* two calls that start turns were under way at once (history)

calling == <<handler, calls, pending, stdin>>
engine == <<turn, turns, spoken, asked>>
session == <<turnID, lastText, approvals, closed, events>>
answers == <<decisions, lost>>
vars == <<calling, engine, wire, session, answers, overlapped>>

Init == /\ handler = [c \in Clients |-> Idle]
        /\ calls = 0 /\ pending = {} /\ stdin = <<>>
        /\ turn = 0 /\ turns = 0 /\ spoken = {} /\ asked = {}
        /\ wire = <<>>
        /\ turnID = 0 /\ lastText = 0 /\ approvals = {} /\ closed = FALSE /\ events = <<>>
        /\ decisions = [r \in Asks |-> 0] /\ lost = {}
        /\ overlapped = FALSE
-----------------------------------------------------------------------------
(* Requests of the clients, of which one that found the session before its Close *)
(* may act on it after.                                                          *)

Starting == {"turn/start", "review/start"}

\* rpcClient.Call, up to the wait.  t: the turn the call names.
Call(c, method, t) ==
  /\ handler[c].at = "idle"
  /\ calls < MaxCalls
  /\ calls' = calls + 1
  /\ handler' = [handler EXCEPT ![c] = [Idle EXCEPT !.at = "called", !.id = calls + 1,
                                                    !.method = method]]
  /\ pending' = pending \cup {calls + 1}
  /\ stdin' = Append(stdin, [id |-> calls + 1, method |-> method, turn |-> t])
  /\ overlapped' = (overlapped \/ (/\ method \in Starting
                                   /\ \E d \in Clients : handler[d].method \in Starting))
  /\ UNCHANGED <<engine, wire, session, answers>>

Send(c) == Call(c, "turn/start", 0)
Review(c) == Call(c, "review/start", 0)
Rollback(c) == Call(c, "thread/rollback", 0)

\* Without a turn id there is nothing to steer or to cancel.
Steer(c) == turnID # 0 /\ Call(c, "turn/steer", turnID)
Cancel(c) == turnID # 0 /\ Call(c, "turn/interrupt", turnID)

\* Mutant of Approve: the request stays in the map.
ApproveKeeps(c, r) ==
  /\ handler[c].at = "idle"
  /\ r \in approvals
  /\ UNCHANGED approvals
  /\ handler' = [handler EXCEPT ![c] = [Idle EXCEPT !.at = "respond", !.ask = r]]
  /\ UNCHANGED <<calls, pending, stdin, engine, wire, turnID, lastText, closed, events,
                 answers, overlapped>>

\* Approve takes the request out of the map; an unknown one is refused.
Approve(c, r) ==
  /\ handler[c].at = "idle"
  /\ r \in approvals
  /\ approvals' = approvals \ {r}
  /\ handler' = [handler EXCEPT ![c] = [Idle EXCEPT !.at = "respond", !.ask = r]]
  /\ UNCHANGED <<calls, pending, stdin, engine, wire, turnID, lastText, closed, events,
                 answers, overlapped>>

\* Respond writes the decision, or cannot.
Decide(r) == \/ decisions' = [decisions EXCEPT ![r] = @ + 1] /\ UNCHANGED lost
             \/ lost' = lost \cup {r} /\ UNCHANGED decisions

Respond(c) ==
  /\ handler[c].at = "respond"
  /\ Decide(handler[c].ask)
  /\ handler' = [handler EXCEPT ![c] = Idle]
  /\ UNCHANGED <<calls, pending, stdin, engine, wire, session, overlapped>>

\* The caller of turn/start takes the id of its turn from the answer; 0 is an error.
Wake(c) ==
  /\ handler[c].at = "woken"
  /\ turnID' = IF handler[c].method = "turn/start" /\ handler[c].turn # 0
                 THEN handler[c].turn ELSE turnID
  /\ handler' = [handler EXCEPT ![c] = Idle]
  /\ UNCHANGED <<calls, pending, stdin, engine, wire, lastText, approvals, closed, events,
                 answers, overlapped>>

\* The connection goes away during the call; turn/interrupt is called without its context.
GiveUp(c) ==
  /\ handler[c].at \in {"called", "woken"}
  /\ handler[c].method # "turn/interrupt"
  /\ pending' = pending \ {handler[c].id}
  /\ handler' = [handler EXCEPT ![c] = Idle]
  /\ UNCHANGED <<calls, stdin, engine, wire, session, answers, overlapped>>

\* Close, from any connection.
Close ==
  /\ ~closed
  /\ closed' = TRUE
  /\ UNCHANGED <<calling, engine, wire, turnID, lastText, approvals, events, answers, overlapped>>

\* The pump.
Receive ==
  /\ events # <<>>
  /\ events' = Tail(events)
  /\ UNCHANGED <<calling, engine, wire, turnID, lastText, approvals, closed, answers, overlapped>>
-----------------------------------------------------------------------------
(* The engine, as far as the code relies on it: calls in the order they were written, *)
(* one turn at a time, the two lines about a new turn in any order.           *)

Begin(id) == LET t == turns + 1 IN
  /\ turn = 0 /\ turns < MaxTurns
  /\ turn' = t /\ turns' = t
  /\ \/ wire' = wire \o <<Answer(id, t), Line("started", t)>>
     \/ wire' = wire \o <<Line("started", t), Answer(id, t)>>

Interrupt(id, t) ==
  /\ turn # 0 /\ turn = t
  /\ turn' = 0 /\ UNCHANGED turns
  /\ wire' = wire \o <<Answer(id, 0), Line("done", t)>>

\* Anything else, and what it refuses, is answered.
Reply(id) == wire' = Append(wire, Answer(id, 0)) /\ UNCHANGED <<turn, turns>>

Process ==
  /\ stdin # <<>>
  /\ LET call == Head(stdin) IN
       \/ call.method \in Starting /\ Begin(call.id)
       \/ call.method = "turn/interrupt" /\ Interrupt(call.id, call.turn)
       \/ Reply(call.id)
  /\ stdin' = Tail(stdin)
  /\ UNCHANGED <<handler, calls, pending, spoken, asked, session, answers, overlapped>>

Speak ==
  /\ turn # 0 /\ turn \notin spoken
  /\ spoken' = spoken \cup {turn}
  /\ wire' = Append(wire, Line("text", turn))
  /\ UNCHANGED <<calling, turn, turns, asked, session, answers, overlapped>>

Ask(r) ==
  /\ turn # 0 /\ r \notin asked
  /\ asked' = asked \cup {r}
  /\ wire' = Append(wire, [kind |-> "ask", ask |-> r])
  /\ UNCHANGED <<calling, turn, turns, spoken, session, answers, overlapped>>

Finish ==
  /\ turn # 0
  /\ turn' = 0
  /\ wire' = Append(wire, Line("done", turn))
  /\ UNCHANGED <<calling, turns, spoken, asked, session, answers, overlapped>>
-----------------------------------------------------------------------------
(* The read loop: one line after another.                                     *)

Reads(kind) == wire # <<>> /\ Head(wire).kind = kind /\ wire' = Tail(wire)

\* Mutant of Emit: without the check for room.
EmitAll(e) == events' = Append(events, e)

\* emit: dropped when the channel is full.
Emit(e) == events' = IF Len(events) < Capacity THEN Append(events, e) ELSE events

ReadAnswer ==
  /\ Reads("answer")
  /\ LET line == Head(wire) IN
       /\ pending' = pending \ {line.id}
       /\ handler' = [c \in Clients |->
            IF handler[c].at = "called" /\ handler[c].id = line.id
              THEN [handler[c] EXCEPT !.at = "woken", !.turn = line.turn] ELSE handler[c]]
  /\ UNCHANGED <<calls, stdin, engine, session, answers, overlapped>>

\* The thread is no longer routed: its notifications go nowhere.
ReadUnrouted ==
  /\ closed
  /\ \E kind \in {"started", "text", "done"} : Reads(kind)
  /\ UNCHANGED <<calling, engine, session, answers, overlapped>>

\* Mutant of ReadStarted: the id is left to the answer of turn/start.
ReadStartedNot ==
  /\ ~closed /\ Reads("started")
  /\ UNCHANGED <<calling, engine, session, answers, overlapped>>

ReadStarted ==
  /\ ~closed /\ Reads("started")
  /\ turnID' = Head(wire).turn
  /\ UNCHANGED <<calling, engine, lastText, approvals, closed, events, answers, overlapped>>

\* item/completed of an agentMessage.
ReadText ==
  /\ ~closed /\ Reads("text")
  /\ lastText' = Head(wire).turn
  /\ Emit([type |-> "output.text", turn |-> Head(wire).turn, result |-> 0])
  /\ UNCHANGED <<calling, engine, turnID, approvals, closed, answers, overlapped>>

\* turn/completed and turn/failed.
ReadDone ==
  /\ ~closed /\ Reads("done")
  /\ lastText' = 0
  /\ Emit([type |-> "task.done", turn |-> Head(wire).turn, result |-> lastText])
  /\ UNCHANGED <<calling, engine, turnID, approvals, closed, answers, overlapped>>

\* handleServerRequest.
ReadAsk ==
  /\ ~closed /\ Reads("ask")
  /\ approvals' = approvals \cup {Head(wire).ask}
  /\ Emit([type |-> "approval.needed", ask |-> Head(wire).ask])
  /\ UNCHANGED <<calling, engine, turnID, lastText, closed, answers, overlapped>>

\* A request of no session, or of a kind that is not known, is refused at once.
Refuse ==
  /\ Reads("ask")
  /\ Decide(Head(wire).ask)
  /\ UNCHANGED <<calling, engine, session, overlapped>>
-----------------------------------------------------------------------------
Request(c) == \/ Send(c) \/ Review(c) \/ Rollback(c) \/ Steer(c) \/ Cancel(c)
              \/ \E r \in Asks : Approve(c, r)
Engine == Process \/ Speak \/ Finish \/ \E r \in Asks : Ask(r)
ReadLoop == ReadAnswer \/ ReadUnrouted \/ ReadStarted \/ ReadText \/ ReadDone \/ ReadAsk \/ Refuse

Next == \/ \E c \in Clients : Request(c) \/ Respond(c) \/ Wake(c) \/ GiveUp(c)
        \/ Close \/ Receive \/ Engine \/ ReadLoop

Spec == Init /\ [][Next]_vars
-----------------------------------------------------------------------------
\* Types, the room of the channel, and a call that is waited for is pending.
TypeOK ==
  /\ handler \in [Clients -> Handlers]
  /\ calls \in 0 .. MaxCalls
  /\ pending \subseteq 1 .. calls
  /\ stdin \in Seq([id : 1 .. MaxCalls, method : Methods, turn : 0 .. MaxTurns])
  /\ turns \in 0 .. MaxTurns /\ turn \in 0 .. turns
  /\ spoken \subseteq Turns /\ asked \subseteq Asks /\ approvals \subseteq Asks
  /\ wire \in Seq(Lines)
  /\ turnID \in 0 .. MaxTurns /\ lastText \in 0 .. MaxTurns
  /\ closed \in BOOLEAN /\ overlapped \in BOOLEAN
  /\ events \in Seq(Events) /\ Len(events) <= Capacity
  /\ decisions \in [Asks -> Nat] /\ lost \subseteq Asks
  /\ \A c \in Clients : handler[c].at = "called" => handler[c].id \in pending

\* A request that the engine waits for is in one place: on its way to the session, in the
\* map, in the hands of one connection, answered once, or lost with a failed write.  Two
\* clients that answer it at once do not both reach the engine, and none is forgotten
\* (appserver.go:351, :411).
Places(r) == {<<"wire", i>> : i \in {i \in DOMAIN wire : wire[i].kind = "ask" /\ wire[i].ask = r}}
               \cup {<<"map", r>> : x \in {r} \cap approvals}
               \cup {<<"handler", c>> : c \in {c \in Clients : handler[c].ask = r}}
               \cup {<<"decided", n>> : n \in 1 .. decisions[r]}
               \cup {<<"lost", r>> : x \in {r} \cap lost}

EachRequestInOnePlace == \A r \in asked : Cardinality(Places(r)) = 1

\* As long as no two calls that start turns overlap, the turn id that Steer and Cancel send
\* is that of the running turn from the moment its turn/started is read, through answers
\* that come late and clients that do not wait for theirs (appserver.go:269, :424).
TurnIdIsCurrent ==
  turn # 0 /\ ~overlapped /\ ~closed /\ (\A i \in DOMAIN wire : wire[i] # Line("started", turn))
    => turnID = turn
=============================================================================
