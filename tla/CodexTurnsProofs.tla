--------------------------- MODULE CodexTurnsProofs ---------------------------
(***************************************************************************)
(* What holds of CodexTurns for every number of connections, requests, turns *)
(* and calls and every capacity of the channel, checked by TLAPS.            *)
(*                                                                           *)
(*   Calls     TypeOK, with the ids of the calls, which are all different    *)
(*   Places    EachRequestInOnePlace, without its cardinality                *)
(*   Turns     TurnIdIsCurrent, with the order of calls, answers and turns   *)
(***************************************************************************)
EXTENDS CodexTurns, FiniteSetTheorems, SequenceTheorems, TLAPS

\* What a sequence is made of after an Append, after two, and after its first is taken.
LEMMA Appended ==
  ASSUME NEW S, NEW s \in Seq(S), NEW e \in S
  PROVE  /\ Append(s, e) \in Seq(S) /\ Len(Append(s, e)) = Len(s) + 1
         /\ DOMAIN Append(s, e) = 1 .. Len(s) + 1 /\ DOMAIN s = 1 .. Len(s) /\ Len(s) \in Nat
         /\ \A i \in 1 .. Len(s) : Append(s, e)[i] = s[i]
         /\ Append(s, e)[Len(s) + 1] = e
  BY AppendProperties, LenProperties

\* The same of two values appended,
LEMMA AppendedTwo ==
  ASSUME NEW S, NEW s \in Seq(S), NEW d \in S, NEW e \in S
  PROVE  /\ s \o <<d, e>> \in Seq(S)
         /\ DOMAIN (s \o <<d, e>>) = 1 .. Len(s) + 2 /\ DOMAIN s = 1 .. Len(s) /\ Len(s) \in Nat
         /\ \A i \in 1 .. Len(s) : (s \o <<d, e>>)[i] = s[i]
         /\ (s \o <<d, e>>)[Len(s) + 1] = d /\ (s \o <<d, e>>)[Len(s) + 2] = e
<1>1. <<d, e>> \in Seq(S) /\ Len(<<d, e>>) = 2 /\ <<d, e>>[1] = d /\ <<d, e>>[2] = e
  OBVIOUS
<1> QED
  BY <1>1, ConcatProperties, LenProperties

\* and of the first taken away.
LEMMA Taken ==
  ASSUME NEW S, NEW s \in Seq(S), s # <<>>
  PROVE  /\ Tail(s) \in Seq(S) /\ Len(Tail(s)) = Len(s) - 1
         /\ DOMAIN Tail(s) = 1 .. Len(s) - 1 /\ DOMAIN s = 1 .. Len(s) /\ Len(s) \in Nat \ {0}
         /\ \A i \in 1 .. Len(s) - 1 : Tail(s)[i] = s[i + 1]
         /\ Head(s) = s[1] /\ Head(s) \in S
  BY HeadTailProperties, LenProperties, EmptySeq
-----------------------------------------------------------------------------
(* The types.                                                                 *)

CallTypes == [id : 1 .. MaxCalls, method : Methods, turn : 0 .. MaxTurns]

CallingTypes == /\ handler \in [Clients -> Handlers]
                /\ calls \in 0 .. MaxCalls
                /\ pending \subseteq 1 .. calls
                /\ stdin \in Seq(CallTypes)
EngineTypes == /\ turns \in 0 .. MaxTurns /\ turn \in 0 .. turns
               /\ spoken \subseteq Turns /\ asked \subseteq Asks
WireTypes == wire \in Seq(Lines)
SessionTypes == /\ approvals \subseteq Asks
                /\ turnID \in 0 .. MaxTurns /\ lastText \in 0 .. MaxTurns
                /\ closed \in BOOLEAN
                /\ events \in Seq(Events) /\ Len(events) <= Capacity
HistoryTypes == decisions \in [Asks -> Nat] /\ lost \subseteq Asks /\ overlapped \in BOOLEAN

Types == CallingTypes /\ EngineTypes /\ WireTypes /\ SessionTypes /\ HistoryTypes

\* Every id belongs to one request; who waits for an answer is pending; only a taken
\* approval is answered.
Ids == /\ \A c \in Clients : handler[c].at = "called" => handler[c].id \in pending
       /\ \A c \in Clients : handler[c].id <= calls
       /\ \A c, d \in Clients : handler[c].id # 0 /\ handler[c].id = handler[d].id => c = d
       /\ \A c \in Clients : handler[c].at = "respond" => handler[c].ask \in Asks
       /\ \A c \in Clients : handler[c].at # "respond" => handler[c].ask = None

\* A notification is about a turn that was started.
Notified == \A i \in DOMAIN wire :
              wire[i].kind \in {"started", "text", "done"} => wire[i].turn \in 1 .. turns

\* TypeOK follows.
LEMMA TypeParts == Types /\ Ids => TypeOK
  BY DEF TypeOK, Types, CallingTypes, EngineTypes, WireTypes, SessionTypes, HistoryTypes,
         CallTypes, Ids

\* The requests that become a call.
Calls(c) == \E m \in Methods, t \in 0 .. MaxTurns : Call(c, m, t)

\* Next as its actions, for the proofs by cases below.
LEMMA NextCases ==
  ASSUME Types, Next
  PROVE  \/ \E c \in Clients : Calls(c)
         \/ \E c \in Clients, r \in Asks : Approve(c, r)
         \/ \E c \in Clients : Respond(c)
         \/ \E c \in Clients : Wake(c)
         \/ \E c \in Clients : GiveUp(c)
         \/ Close \/ Receive
         \/ Process \/ Speak \/ Finish
         \/ \E r \in Asks : Ask(r)
         \/ ReadAnswer \/ ReadUnrouted \/ ReadStarted \/ ReadText \/ ReadDone \/ ReadAsk \/ Refuse
<1>1. ASSUME NEW c \in Clients, Send(c) \/ Review(c) \/ Rollback(c) \/ Steer(c) \/ Cancel(c)
      PROVE  Calls(c)
  <2>1. 0 \in 0 .. MaxTurns /\ turnID \in 0 .. MaxTurns
    BY ConstantsOK DEF Types, SessionTypes
  <2> QED
    BY <1>1, <2>1 DEF Calls, Send, Review, Rollback, Steer, Cancel, Methods
<1> QED
  BY <1>1 DEF Next, Request, Engine, ReadLoop

\* Steps that no connection's request and no line are part of.
LEMMA CallKeepsTypes ==
  ASSUME Types, Ids, NEW c \in Clients, Calls(c)
  PROVE  Types' /\ Ids'
<1>1. PICK m \in Methods, t \in 0 .. MaxTurns : Call(c, m, t)
  BY DEF Calls
<1> DEFINE n == calls + 1
           h == [Idle EXCEPT !.at = "called", !.id = n, !.method = m]
           l == [id |-> n, method |-> m, turn |-> t]
<1>2. n \in 1 .. MaxCalls /\ calls \in Nat /\ calls' = n /\ n = calls + 1
  <2>1. MaxCalls \in Nat /\ calls \in 0 .. MaxCalls
    BY ConstantsOK DEF Types, CallingTypes
  <2>2. calls < MaxCalls /\ calls' = calls + 1
    BY <1>1 DEF Call
  <2> QED
    BY <2>1, <2>2
<1>3. h \in Handlers /\ h.at = "called" /\ h.id = n /\ h.ask = None
  <2>1. n \in 0 .. MaxCalls /\ 0 \in 0 .. MaxTurns
    BY <1>2, ConstantsOK
  <2> HIDE DEF n
  <2> QED
    BY <2>1 DEF Handlers, Idle
<1>4. l \in CallTypes
  BY <1>2 DEF CallTypes
<1>5. stdin' = Append(stdin, l) /\ handler' = [handler EXCEPT ![c] = h]
      /\ pending' = pending \cup {n}
  BY <1>1 DEF Call
<1> HIDE DEF n, h, l
<1>6. stdin' \in Seq(CallTypes)
  BY <1>4, <1>5, Appended DEF Types, CallingTypes
<1>7. handler' \in [Clients -> Handlers]
  BY <1>3, <1>5 DEF Types, CallingTypes
<1>8. pending' \subseteq 1 .. calls'
  BY <1>2, <1>5 DEF Types, CallingTypes
<1>9. Types'
  BY <1>1, <1>2, <1>6, <1>7, <1>8 DEF Call, Types, CallingTypes, EngineTypes, WireTypes,
     SessionTypes, HistoryTypes, engine, session, answers
<1>10. \A d \in Clients : handler'[d] = IF d = c THEN h ELSE handler[d]
  BY <1>5 DEF Types, CallingTypes
<1>11. \A d \in Clients : handler[d] \in Handlers /\ handler[d].id \in Nat /\ handler[d].id <= calls
  BY ConstantsOK DEF Types, CallingTypes, Handlers, Ids
<1>12. \A d \in Clients : handler'[d].id <= calls'
  BY <1>2, <1>3, <1>10, <1>11
<1>13. \A d, e \in Clients : handler'[d].id # 0 /\ handler'[d].id = handler'[e].id => d = e
  <2>1. \A d \in Clients : handler[d].id # n
    BY <1>2, <1>11
  <2> QED
    BY <1>3, <1>10, <2>1 DEF Ids
<1>14. \A d \in Clients : /\ handler'[d].at = "called" => handler'[d].id \in pending'
                          /\ handler'[d].at = "respond" => handler'[d].ask \in Asks
                          /\ handler'[d].at # "respond" => handler'[d].ask = None
  BY <1>3, <1>5, <1>10 DEF Ids
<1>15. Ids'
  BY <1>12, <1>13, <1>14 DEF Ids
<1> QED
  BY <1>9, <1>15

\* A handler goes on: it keeps its id or becomes idle, and waits only if it did before.
LEMMA HandlerKeepsIds ==
  ASSUME Types, Ids, NEW c \in Clients, NEW h \in Handlers,
         handler' = [handler EXCEPT ![c] = h], calls' = calls,
         h.id = handler[c].id \/ h.id = 0,
         h.at # "called",
         h.at = "respond" => h.ask \in Asks, h.at # "respond" => h.ask = None,
         pending' = pending \/ pending' = pending \ {handler[c].id}
  PROVE  Ids' /\ handler' \in [Clients -> Handlers]
<1>1. \A d \in Clients : handler'[d] = IF d = c THEN h ELSE handler[d]
  BY DEF Types, CallingTypes
<1>2. handler' \in [Clients -> Handlers]
  BY DEF Types, CallingTypes
<1>3. \A d \in Clients : handler[d].id \in Nat /\ handler[d].id <= calls /\ calls \in Nat
  BY ConstantsOK DEF Types, CallingTypes, Handlers, Ids
<1>4. \A d \in Clients : handler'[d].id <= calls'
  BY <1>1, <1>3
<1>5. \A d, e \in Clients : handler'[d].id # 0 /\ handler'[d].id = handler'[e].id => d = e
  BY <1>1 DEF Ids
<1>6. \A d \in Clients : handler'[d].at = "called" => handler'[d].id \in pending'
  <2>1. 0 \notin pending
    BY <1>3 DEF Types, CallingTypes
  <2> QED
    BY <1>1, <2>1 DEF Ids
<1>7. \A d \in Clients : /\ handler'[d].at = "respond" => handler'[d].ask \in Asks
                         /\ handler'[d].at # "respond" => handler'[d].ask = None
  BY <1>1 DEF Ids
<1> QED
  BY <1>2, <1>4, <1>5, <1>6, <1>7 DEF Ids

\* Every step of a connection keeps the types and the ids of the calls apart,
LEMMA ConnectionKeepsTypes ==
  ASSUME Types, Ids, NEW c \in Clients,
         (\E r \in Asks : Approve(c, r)) \/ Respond(c) \/ Wake(c) \/ GiveUp(c)
  PROVE  Types' /\ Ids'
<1>1. Idle \in Handlers /\ Idle.at = "idle" /\ Idle.id = 0 /\ Idle.ask = None
  BY ConstantsOK DEF Idle, Handlers
<1>2. CASE \E r \in Asks : Approve(c, r)
  <2>1. PICK r \in Asks : Approve(c, r)
    BY <1>2
  <2> DEFINE h == [Idle EXCEPT !.at = "respond", !.ask = r]
  <2>2. h \in Handlers /\ h.at = "respond" /\ h.id = 0 /\ h.ask \in Asks
    BY <1>1 DEF Idle, Handlers
  <2>3. handler' = [handler EXCEPT ![c] = h] /\ calls' = calls /\ pending' = pending
    BY <2>1 DEF Approve
  <2> HIDE DEF h
  <2>4. Ids' /\ handler' \in [Clients -> Handlers]
    BY <2>2, <2>3, HandlerKeepsIds
  <2> QED
    BY <2>1, <2>4 DEF Approve, Types, CallingTypes, EngineTypes, WireTypes,
       SessionTypes, HistoryTypes, engine, answers
<1>3. CASE Respond(c)
  <2>1. handler' = [handler EXCEPT ![c] = Idle] /\ calls' = calls /\ pending' = pending
    BY <1>3 DEF Respond
  <2>2. Ids' /\ handler' \in [Clients -> Handlers]
    BY <1>1, <2>1, HandlerKeepsIds
  <2>3. handler[c].ask \in Asks
    BY <1>3 DEF Respond, Ids
  <2>4. decisions' \in [Asks -> Nat] /\ lost' \subseteq Asks
    BY <1>3, <2>3 DEF Respond, Decide, Types, HistoryTypes
  <2> QED
    BY <1>3, <2>2, <2>4 DEF Respond, Types, CallingTypes, EngineTypes, WireTypes,
       SessionTypes, HistoryTypes, engine, session
<1>4. CASE Wake(c)
  <2>1. handler' = [handler EXCEPT ![c] = Idle] /\ calls' = calls /\ pending' = pending
    BY <1>4 DEF Wake
  <2>2. Ids' /\ handler' \in [Clients -> Handlers]
    BY <1>1, <2>1, HandlerKeepsIds
  <2>3. turnID' \in 0 .. MaxTurns
    <3>1. handler[c].turn \in 0 .. MaxTurns /\ turnID \in 0 .. MaxTurns
      BY DEF Types, CallingTypes, SessionTypes, Handlers
    <3> QED
      BY <1>4, <3>1 DEF Wake
  <2> QED
    BY <1>4, <2>2, <2>3 DEF Wake, Types, CallingTypes, EngineTypes, WireTypes,
       SessionTypes, HistoryTypes, engine, answers
<1>5. CASE GiveUp(c)
  <2>1. handler' = [handler EXCEPT ![c] = Idle] /\ calls' = calls
        /\ pending' = pending \ {handler[c].id}
    BY <1>5 DEF GiveUp
  <2>2. Ids' /\ handler' \in [Clients -> Handlers]
    BY <1>1, <2>1, HandlerKeepsIds
  <2> QED
    BY <1>5, <2>1, <2>2 DEF GiveUp, Types, CallingTypes, EngineTypes, WireTypes,
       SessionTypes, HistoryTypes, engine, session, answers
<1> QED
  BY <1>2, <1>3, <1>4, <1>5

\* The ids are about the connections only.
LEMMA IdsFrame ==
  ASSUME Ids, UNCHANGED <<handler, calls, pending>>
  PROVE  Ids'
  BY DEF Ids

\* as does every step of the app-server,
LEMMA EngineKeepsTypes ==
  ASSUME Types, Ids, Process \/ Speak \/ Finish \/ \E r \in Asks : Ask(r)
  PROVE  Types' /\ Ids'
<1>1. UNCHANGED <<handler, calls, pending>>
  BY DEF Process, Speak, Finish, Ask, calling
<1>2. MaxTurns \in Nat /\ turns \in Nat /\ turn \in Nat /\ turn <= turns /\ turns <= MaxTurns
  BY ConstantsOK DEF Types, EngineTypes
<1>3. CASE Process
  <2>1. stdin # <<>> /\ stdin' = Tail(stdin) /\ stdin' \in Seq(CallTypes) /\ Head(stdin) \in CallTypes
    BY <1>3, Taken DEF Process, Types, CallingTypes
  <2>2. PICK id \in 1 .. MaxCalls, t \in 0 .. MaxTurns : Begin(id) \/ Interrupt(id, t) \/ Reply(id)
    BY <1>3, <2>1 DEF Process, CallTypes
  <2>3. wire' \in Seq(Lines) /\ turns' \in 0 .. MaxTurns /\ turn' \in 0 .. turns'
    <3>1. \A u \in 0 .. MaxTurns : /\ Answer(id, u) \in Lines /\ Line("started", u) \in Lines
                                   /\ Line("done", u) \in Lines
      BY <2>2, ConstantsOK DEF Answer, Line, Lines
    <3>2. CASE Begin(id)
      <4>1. turns + 1 \in 0 .. MaxTurns
        BY <1>2, <3>2 DEF Begin
      <4> DEFINE x == Answer(id, turns + 1)
                 y == Line("started", turns + 1)
      <4>2. x \in Lines /\ y \in Lines
        BY <3>1, <4>1
      <4>3. wire' = wire \o <<x, y>> \/ wire' = wire \o <<y, x>>
        BY <3>2 DEF Begin
      <4> HIDE DEF x, y
      <4>4. wire' \in Seq(Lines)
        <5>1. wire \o <<x, y>> \in Seq(Lines) /\ wire \o <<y, x>> \in Seq(Lines)
          BY <4>2, AppendedTwo DEF Types, WireTypes
        <5> QED
          BY <4>3, <5>1
      <4>5. turns' = turns + 1 /\ turn' = turns + 1
        BY <3>2 DEF Begin
      <4> QED
        BY <1>2, <4>1, <4>4, <4>5
    <3>3. CASE Interrupt(id, t)
      <4> DEFINE x == Answer(id, 0)
                 y == Line("done", t)
      <4>1. x \in Lines /\ y \in Lines
        BY <1>2, <3>1
      <4>2. wire' = wire \o <<x, y>> /\ turn' = 0 /\ turns' = turns
        BY <3>3 DEF Interrupt
      <4> HIDE DEF x, y
      <4>3. wire' \in Seq(Lines)
        BY <4>1, <4>2, AppendedTwo DEF Types, WireTypes
      <4> QED
        BY <1>2, <4>2, <4>3
    <3>4. CASE Reply(id)
      <4> DEFINE x == Answer(id, 0)
      <4>1. x \in Lines
        BY <1>2, <3>1
      <4>2. wire' = Append(wire, x) /\ turn' = turn /\ turns' = turns
        BY <3>4 DEF Reply
      <4> HIDE DEF x
      <4>3. wire' \in Seq(Lines)
        BY <4>1, <4>2, Appended DEF Types, WireTypes
      <4> QED
        BY <1>2, <4>2, <4>3
    <3> QED
      BY <2>2, <3>2, <3>3, <3>4
  <2> QED
    BY <1>1, <1>3, <2>1, <2>3, IdsFrame DEF Process, Types, CallingTypes, EngineTypes, WireTypes,
       SessionTypes, HistoryTypes, session, answers
<1>4. CASE Speak
  <2>1. Line("text", turn) \in Lines /\ turn \in Turns
    BY <1>2, <1>4, ConstantsOK DEF Speak, Line, Lines, Turns
  <2>2. wire' \in Seq(Lines)
    BY <1>4, <2>1, Appended DEF Speak, Types, WireTypes
  <2> QED
    BY <1>1, <1>4, <2>1, <2>2, IdsFrame DEF Speak, Types, CallingTypes, EngineTypes, WireTypes,
       SessionTypes, HistoryTypes, session, answers, calling
<1>5. CASE Finish
  <2>1. Line("done", turn) \in Lines
    BY <1>2, ConstantsOK DEF Line, Lines
  <2>2. wire' \in Seq(Lines)
    BY <1>5, <2>1, Appended DEF Finish, Types, WireTypes
  <2>3. turn' \in 0 .. turns'
    BY <1>2, <1>5 DEF Finish
  <2> QED
    BY <1>1, <1>5, <2>2, <2>3, IdsFrame DEF Finish, Types, CallingTypes, EngineTypes, WireTypes,
       SessionTypes, HistoryTypes, session, answers, calling
<1>6. CASE \E r \in Asks : Ask(r)
  <2>1. PICK r \in Asks : Ask(r)
    BY <1>6
  <2>2. [kind |-> "ask", ask |-> r] \in Lines
    BY DEF Lines
  <2>3. wire' \in Seq(Lines)
    BY <2>1, <2>2, Appended DEF Ask, Types, WireTypes
  <2> QED
    BY <1>1, <2>1, <2>3, IdsFrame DEF Ask, Types, CallingTypes, EngineTypes, WireTypes,
       SessionTypes, HistoryTypes, session, answers, calling
<1> QED
  BY <1>3, <1>4, <1>5, <1>6

\* emit keeps the room of the channel.
LEMMA EmitKeepsRoom ==
  ASSUME SessionTypes, NEW e \in Events, Emit(e)
  PROVE  events' \in Seq(Events) /\ Len(events') <= Capacity
<1>1. Capacity \in Nat /\ Len(events) \in Nat
  BY ConstantsOK, LenProperties DEF SessionTypes
<1>2. Append(events, e) \in Seq(Events) /\ Len(Append(events, e)) = Len(events) + 1
  BY Appended DEF SessionTypes
<1> QED
  BY <1>1, <1>2 DEF Emit, SessionTypes

\* The line that is read.
LEMMA HeadLine ==
  ASSUME Types, Notified, NEW kind, Reads(kind)
  PROVE  /\ wire' \in Seq(Lines) /\ Head(wire) \in Lines /\ Head(wire).kind = kind
         /\ kind = "ask" => Head(wire).ask \in Asks
         /\ kind # "ask" => Head(wire).turn \in 0 .. MaxTurns
         /\ kind \in {"started", "text", "done"} => Head(wire).turn \in Turns
<1>1. /\ wire # <<>> /\ wire' = Tail(wire) /\ Head(wire).kind = kind
      /\ wire' \in Seq(Lines) /\ Head(wire) \in Lines
      /\ Head(wire) = wire[1] /\ 1 \in DOMAIN wire
  BY Taken DEF Reads, Types, WireTypes
<1>2. kind \in {"started", "text", "done"} => Head(wire).turn \in Turns
  <2>1. turns \in 0 .. MaxTurns /\ MaxTurns \in Nat
    BY ConstantsOK DEF Types, EngineTypes
  <2> QED
    BY <1>1, <2>1 DEF Notified, Turns
<1> QED
  BY <1>1, <1>2 DEF Lines

\* and every step of the read loop, the pump and Close.
LEMMA ReadLoopKeepsTypes ==
  ASSUME Types, Ids, Notified, ReadLoop \/ Close \/ Receive
  PROVE  Types' /\ Ids'
<1>1. CASE ReadAnswer
  <2>1. Head(wire).turn \in 0 .. MaxTurns /\ wire' \in Seq(Lines)
    <3>1. Reads("answer")
      BY <1>1 DEF ReadAnswer
    <3> QED
      BY <3>1, HeadLine
  <2> DEFINE l == Head(wire)
  <2>2. /\ pending' = pending \ {l.id} /\ calls' = calls
        /\ handler' = [c \in Clients |->
             IF handler[c].at = "called" /\ handler[c].id = l.id
               THEN [handler[c] EXCEPT !.at = "woken", !.turn = l.turn] ELSE handler[c]]
    BY <1>1 DEF ReadAnswer
  <2> HIDE DEF l
  <2>3. \A c \in Clients : handler[c] \in Handlers
    BY DEF Types, CallingTypes
  <2>4. ASSUME NEW c \in Clients
        PROVE  /\ handler'[c] \in Handlers /\ handler'[c].id = handler[c].id
               /\ handler'[c].ask = handler[c].ask
               /\ handler'[c].at = "called" => handler[c].at = "called" /\ handler[c].id # l.id
               /\ handler'[c].at = "respond" <=> handler[c].at = "respond"
    <3>1. CASE handler[c].at = "called" /\ handler[c].id = l.id
      <4>1. handler'[c] = [handler[c] EXCEPT !.at = "woken", !.turn = l.turn]
        BY <2>2, <3>1
      <4>2. l.turn \in 0 .. MaxTurns
        BY <2>1 DEF l
      <4> QED
        BY <2>3, <3>1, <4>1, <4>2 DEF Handlers
    <3>2. CASE ~(handler[c].at = "called" /\ handler[c].id = l.id)
      BY <2>2, <2>3, <3>2
    <3> QED
      BY <3>1, <3>2
  <2>5. handler' \in [Clients -> Handlers]
    BY <2>2, <2>4
  <2>6. ASSUME NEW c \in Clients, handler'[c].at = "called" PROVE handler'[c].id \in pending'
    <3>1. handler[c].id \in pending /\ handler[c].id # l.id /\ handler'[c].id = handler[c].id
      BY <2>4, <2>6 DEF Ids
    <3> QED
      BY <2>2, <3>1
  <2>7. Ids'
    <3>1. \A c \in Clients : handler'[c].id <= calls'
      BY <2>2, <2>4 DEF Ids
    <3>2. \A c, d \in Clients : handler'[c].id # 0 /\ handler'[c].id = handler'[d].id => c = d
      BY <2>4 DEF Ids
    <3>3. \A c \in Clients : /\ handler'[c].at = "respond" => handler'[c].ask \in Asks
                             /\ handler'[c].at # "respond" => handler'[c].ask = None
      BY <2>4 DEF Ids
    <3> QED
      BY <2>6, <3>1, <3>2, <3>3 DEF Ids
  <2> QED
    BY <1>1, <2>1, <2>2, <2>5, <2>7 DEF ReadAnswer, Types, CallingTypes, EngineTypes, WireTypes,
       SessionTypes, HistoryTypes, engine, session, answers
<1>2. CASE ReadUnrouted
  <2>1. wire' \in Seq(Lines) /\ UNCHANGED <<handler, calls, pending>>
    BY <1>2, HeadLine DEF ReadUnrouted, calling
  <2> QED
    BY <1>2, <2>1, IdsFrame DEF ReadUnrouted, Types, CallingTypes, EngineTypes, WireTypes,
       SessionTypes, HistoryTypes, calling, engine, session, answers
<1>3. CASE ReadStarted
  <2>1. wire' \in Seq(Lines) /\ turnID' \in 0 .. MaxTurns /\ UNCHANGED <<handler, calls, pending>>
    BY <1>3, HeadLine DEF ReadStarted, calling
  <2> QED
    BY <1>3, <2>1, IdsFrame DEF ReadStarted, Types, CallingTypes, EngineTypes, WireTypes,
       SessionTypes, HistoryTypes, calling, engine, answers
<1>4. CASE ReadText
  <2> DEFINE e == [type |-> "output.text", turn |-> Head(wire).turn, result |-> 0]
  <2>1. wire' \in Seq(Lines) /\ Head(wire).turn \in Turns /\ UNCHANGED <<handler, calls, pending>>
    BY <1>4, HeadLine DEF ReadText, calling
  <2>2. lastText' \in 0 .. MaxTurns /\ e \in Events /\ Emit(e)
    BY <1>4, <2>1, ConstantsOK DEF ReadText, Turns, Events
  <2> HIDE DEF e
  <2>3. events' \in Seq(Events) /\ Len(events') <= Capacity
    BY <2>2, EmitKeepsRoom DEF Types
  <2> QED
    BY <1>4, <2>1, <2>2, <2>3, IdsFrame DEF ReadText, Types, CallingTypes, EngineTypes, WireTypes,
       SessionTypes, HistoryTypes, calling, engine, answers
<1>5. CASE ReadDone
  <2> DEFINE e == [type |-> "task.done", turn |-> Head(wire).turn, result |-> lastText]
  <2>1. wire' \in Seq(Lines) /\ Head(wire).turn \in Turns /\ UNCHANGED <<handler, calls, pending>>
    BY <1>5, HeadLine DEF ReadDone, calling
  <2>2. lastText' \in 0 .. MaxTurns /\ e \in Events /\ Emit(e)
    BY <1>5, <2>1, ConstantsOK DEF ReadDone, Turns, Events, Types, SessionTypes
  <2> HIDE DEF e
  <2>3. events' \in Seq(Events) /\ Len(events') <= Capacity
    BY <2>2, EmitKeepsRoom DEF Types
  <2> QED
    BY <1>5, <2>1, <2>2, <2>3, IdsFrame DEF ReadDone, Types, CallingTypes, EngineTypes, WireTypes,
       SessionTypes, HistoryTypes, calling, engine, answers
<1>6. CASE ReadAsk
  <2> DEFINE e == [type |-> "approval.needed", ask |-> Head(wire).ask]
  <2>1. wire' \in Seq(Lines) /\ Head(wire).ask \in Asks /\ UNCHANGED <<handler, calls, pending>>
    BY <1>6, HeadLine DEF ReadAsk, calling
  <2>2. approvals' \subseteq Asks /\ e \in Events /\ Emit(e)
    BY <1>6, <2>1 DEF ReadAsk, Events, Types, SessionTypes
  <2> HIDE DEF e
  <2>3. events' \in Seq(Events) /\ Len(events') <= Capacity
    BY <2>2, EmitKeepsRoom DEF Types
  <2> QED
    BY <1>6, <2>1, <2>2, <2>3, IdsFrame DEF ReadAsk, Types, CallingTypes, EngineTypes, WireTypes,
       SessionTypes, HistoryTypes, calling, engine, answers
<1>7. CASE Refuse
  <2>1. wire' \in Seq(Lines) /\ Head(wire).ask \in Asks /\ UNCHANGED <<handler, calls, pending>>
    BY <1>7, HeadLine DEF Refuse, calling
  <2>2. decisions' \in [Asks -> Nat] /\ lost' \subseteq Asks
    BY <1>7, <2>1 DEF Refuse, Decide, Types, HistoryTypes
  <2> QED
    BY <1>7, <2>1, <2>2, IdsFrame DEF Refuse, Types, CallingTypes, EngineTypes, WireTypes,
       SessionTypes, HistoryTypes, calling, engine, session
<1>8. CASE Close
  BY <1>8, IdsFrame DEF Close, Types, CallingTypes, EngineTypes, WireTypes,
     SessionTypes, HistoryTypes, calling, engine, answers
<1>9. CASE Receive
  <2>1. events' \in Seq(Events) /\ Len(events') <= Capacity /\ UNCHANGED <<handler, calls, pending>>
    <3>1. events' \in Seq(Events) /\ Len(events') = Len(events) - 1 /\ Len(events) \in Nat
      BY <1>9, Taken DEF Receive, Types, SessionTypes
    <3> QED
      BY <1>9, <3>1, ConstantsOK DEF Receive, Types, SessionTypes, calling
  <2> QED
    BY <1>9, <2>1, IdsFrame DEF Receive, Types, CallingTypes, EngineTypes, WireTypes,
       SessionTypes, HistoryTypes, calling, engine, answers
<1> QED
  BY <1>1, <1>2, <1>3, <1>4, <1>5, <1>6, <1>7, <1>8, <1>9 DEF ReadLoop
-----------------------------------------------------------------------------
(* What becomes of the lines: the engine adds some at the end, the read loop  *)
(* takes the first.                                                           *)

NewLines == DOMAIN wire' \ DOMAIN wire

Grown(new) == /\ DOMAIN wire \subseteq DOMAIN wire' /\ DOMAIN wire' \subseteq Nat
              /\ \A i \in DOMAIN wire : wire'[i] = wire[i]
              /\ \A i \in DOMAIN wire, j \in NewLines : i < j
              /\ \A i \in NewLines : wire'[i] \in new
              /\ \A l \in new : \E i \in NewLines : wire'[i] = l
              /\ \A i, j \in NewLines : wire'[i] = wire'[j] => i = j

Shortened == /\ 1 \in DOMAIN wire /\ Head(wire) = wire[1]
             /\ DOMAIN wire \subseteq Nat /\ DOMAIN wire' \subseteq Nat
             /\ \A i \in DOMAIN wire' : i + 1 \in DOMAIN wire /\ wire'[i] = wire[i + 1]
             /\ \A i \in DOMAIN wire : i # 1 => i - 1 \in DOMAIN wire' /\ wire'[i - 1] = wire[i]

\* The wire grows at its end: by a line,
LEMMA GrownByOne ==
  ASSUME wire \in Seq(Lines), NEW l \in Lines, wire' = Append(wire, l)
  PROVE  Grown({l})
<1>1. /\ DOMAIN wire' = 1 .. Len(wire) + 1 /\ DOMAIN wire = 1 .. Len(wire) /\ Len(wire) \in Nat
      /\ \A i \in 1 .. Len(wire) : wire'[i] = wire[i]
      /\ wire'[Len(wire) + 1] = l
  BY Appended
<1>2. NewLines = {Len(wire) + 1}
  BY <1>1 DEF NewLines
<1> QED
  BY <1>1, <1>2 DEF Grown

\* or by two,
LEMMA GrownByTwo ==
  ASSUME wire \in Seq(Lines), NEW k \in Lines, NEW l \in Lines, k # l, wire' = wire \o <<k, l>>
  PROVE  Grown({k, l})
<1>1. /\ DOMAIN wire' = 1 .. Len(wire) + 2 /\ DOMAIN wire = 1 .. Len(wire) /\ Len(wire) \in Nat
      /\ \A i \in 1 .. Len(wire) : wire'[i] = wire[i]
      /\ wire'[Len(wire) + 1] = k /\ wire'[Len(wire) + 2] = l
  BY AppendedTwo
<1>2. NewLines = {Len(wire) + 1, Len(wire) + 2}
  BY <1>1 DEF NewLines
<1> QED
  BY <1>1, <1>2 DEF Grown

\* and the read loop takes its first line.
LEMMA ReadsShortens ==
  ASSUME wire \in Seq(Lines), NEW kind, Reads(kind)
  PROVE  Shortened /\ wire[1].kind = kind
<1>1. /\ DOMAIN wire' = 1 .. Len(wire) - 1 /\ DOMAIN wire = 1 .. Len(wire) /\ Len(wire) \in Nat \ {0}
      /\ \A i \in 1 .. Len(wire) - 1 : wire'[i] = wire[i + 1]
      /\ Head(wire) = wire[1] /\ Head(wire).kind = kind
  BY Taken DEF Reads
<1> QED
  BY <1>1 DEF Shortened

\* The steps by the lines they add or take.
Begins(id) == /\ turn = 0 /\ turn' = turns + 1 /\ turns' = turns + 1
              /\ Grown({Answer(id, turns + 1), Line("started", turns + 1)})
Interrupts(id) == /\ turn # 0 /\ turn' = 0 /\ turns' = turns
                  /\ Grown({Answer(id, 0), Line("done", turn)})
Replies(id) == turn' = turn /\ turns' = turns /\ Grown({Answer(id, 0)})

\* The app-server takes the first call, and begins a turn, interrupts one or answers at
\* once.
LEMMA ProcessCases ==
  ASSUME Types, Process
  PROVE  /\ stdin # <<>> /\ stdin' = Tail(stdin) /\ Head(stdin) \in CallTypes
         /\ \/ Head(stdin).method \in Starting /\ Begins(Head(stdin).id)
            \/ Interrupts(Head(stdin).id)
            \/ Replies(Head(stdin).id)
<1>1. stdin # <<>> /\ stdin' = Tail(stdin) /\ Head(stdin) \in CallTypes
  BY Taken DEF Process, Types, CallingTypes
<1> DEFINE id == Head(stdin).id
<1>2. id \in 0 .. MaxCalls
  BY <1>1 DEF CallTypes
<1>3. \A u \in 0 .. MaxTurns : /\ Answer(id, u) \in Lines /\ Line("started", u) \in Lines
                               /\ Line("done", u) \in Lines
  BY <1>2, ConstantsOK DEF Answer, Line, Lines
<1>4. \A u, v : Answer(id, u) # Line("started", v) /\ Answer(id, u) # Line("done", v)
  BY DEF Answer, Line
<1>5. /\ turns \in Nat /\ MaxTurns \in Nat /\ turns <= MaxTurns /\ turn \in 0 .. MaxTurns
      /\ wire \in Seq(Lines)
  BY ConstantsOK DEF Types, EngineTypes, WireTypes
<1>6. \/ Head(stdin).method \in Starting /\ Begin(id)
      \/ Interrupt(id, Head(stdin).turn)
      \/ Reply(id)
  BY DEF Process
<1> HIDE DEF id
<1>7. ASSUME Begin(id) PROVE Begins(id)
  <2> DEFINE x == Answer(id, turns + 1)
             y == Line("started", turns + 1)
  <2>1. turns + 1 \in 0 .. MaxTurns
    BY <1>5, <1>7 DEF Begin
  <2>2. x \in Lines /\ y \in Lines /\ x # y
    BY <1>3, <1>4, <2>1
  <2>3. wire' = wire \o <<x, y>> \/ wire' = wire \o <<y, x>>
    BY <1>7 DEF Begin
  <2> HIDE DEF x, y
  <2>4. Grown({x, y}) \/ Grown({y, x})
    BY <1>5, <2>2, <2>3, GrownByTwo
  <2>5. {x, y} = {y, x}
    OBVIOUS
  <2>6. Grown({x, y})
    BY <2>4, <2>5
  <2> QED
    BY <1>7, <2>6 DEF Begin, Begins, x, y
<1>8. ASSUME Interrupt(id, Head(stdin).turn) PROVE Interrupts(id)
  <2> DEFINE x == Answer(id, 0)
             y == Line("done", turn)
  <2>1. x \in Lines /\ y \in Lines /\ x # y
    BY <1>3, <1>4, <1>5
  <2>2. wire' = wire \o <<x, y>> /\ turn # 0 /\ turn' = 0 /\ turns' = turns
    BY <1>8 DEF Interrupt
  <2> HIDE DEF x, y
  <2>3. Grown({x, y})
    BY <1>5, <2>1, <2>2, GrownByTwo
  <2> QED
    BY <2>2, <2>3 DEF Interrupts, x, y
<1>9. ASSUME Reply(id) PROVE Replies(id)
  <2> DEFINE x == Answer(id, 0)
  <2>1. x \in Lines
    BY <1>3, <1>5
  <2>2. wire' = Append(wire, x) /\ turn' = turn /\ turns' = turns
    BY <1>9 DEF Reply
  <2> HIDE DEF x
  <2>3. Grown({x})
    BY <1>5, <2>1, <2>2, GrownByOne
  <2> QED
    BY <2>2, <2>3 DEF Replies, x
<1> QED
  BY <1>1, <1>6, <1>7, <1>8, <1>9 DEF id

\* What the app-server says by itself is of the turn that runs.
LEMMA EngineLines ==
  ASSUME Types, Speak \/ Finish \/ \E r \in Asks : Ask(r)
  PROVE  /\ turn # 0 /\ turns' = turns /\ stdin' = stdin
         /\ \/ Speak /\ turn' = turn /\ Grown({Line("text", turn)})
            \/ Finish /\ turn' = 0 /\ Grown({Line("done", turn)})
            \/ \E r \in Asks : /\ Ask(r) /\ turn' = turn /\ r \notin asked
                               /\ asked' = asked \cup {r}
                               /\ Grown({[kind |-> "ask", ask |-> r]})
<1>1. turn \in 0 .. MaxTurns /\ wire \in Seq(Lines)
  BY ConstantsOK DEF Types, EngineTypes, WireTypes
<1>2. Line("text", turn) \in Lines /\ Line("done", turn) \in Lines
  BY <1>1, ConstantsOK DEF Line, Lines
<1>3. ASSUME Speak PROVE turn' = turn /\ Grown({Line("text", turn)})
  BY <1>1, <1>2, <1>3, GrownByOne DEF Speak
<1>4. ASSUME Finish PROVE turn' = 0 /\ Grown({Line("done", turn)})
  BY <1>1, <1>2, <1>4, GrownByOne DEF Finish
<1>5. ASSUME NEW r \in Asks, Ask(r)
      PROVE  /\ turn' = turn /\ r \notin asked /\ asked' = asked \cup {r}
             /\ Grown({[kind |-> "ask", ask |-> r]})
  <2>1. [kind |-> "ask", ask |-> r] \in Lines
    BY DEF Lines
  <2>2. wire' = Append(wire, [kind |-> "ask", ask |-> r]) /\ turn' = turn
        /\ r \notin asked /\ asked' = asked \cup {r}
    BY <1>5 DEF Ask
  <2> QED
    BY <1>1, <2>1, <2>2, GrownByOne
<1>6. turn # 0 /\ turns' = turns /\ stdin' = stdin
  BY DEF Speak, Finish, Ask, calling
<1> QED
  BY <1>3, <1>4, <1>5, <1>6

\* A line of the read loop: it takes the first and leaves the calls and the turns.
LEMMA ReadLoopLines ==
  ASSUME Types, ReadLoop
  PROVE  Shortened /\ UNCHANGED <<stdin, calls, turn, turns, asked, overlapped>>
  BY ReadsShortens DEF Types, WireTypes, ReadLoop, ReadAnswer, ReadUnrouted, ReadStarted, ReadText,
     ReadDone, ReadAsk, Refuse, calling, engine

\* The connections, Close and the pump leave the lines alone.
LEMMA OtherLines ==
  ASSUME \/ \E c \in Clients : \/ Calls(c) \/ Respond(c) \/ Wake(c) \/ GiveUp(c)
                               \/ \E r \in Asks : Approve(c, r)
         \/ Close \/ Receive
  PROVE  UNCHANGED <<wire, turn, turns, asked>>
  BY DEF Calls, Call, Respond, Wake, GiveUp, Approve, Close, Receive, engine

\* A turn that is over has its turn/completed on the wire or read.
LEMMA NotifiedKept ==
  ASSUME Types, Notified, [Next]_vars
  PROVE  Notified'
<1>1. turns \in Nat /\ turn \in 0 .. turns
  BY DEF Types, EngineTypes
<1>2. CASE Process
  <2>1. PICK id : Begins(id) \/ Interrupts(id) \/ Replies(id)
    BY <1>2, ProcessCases
  <2> QED
    BY <1>1, <2>1 DEF Notified, Begins, Interrupts, Replies, Grown, NewLines, Answer, Line
<1>3. CASE Speak \/ Finish \/ \E r \in Asks : Ask(r)
  BY <1>1, <1>3, EngineLines DEF Notified, Grown, NewLines, Line
<1>4. CASE ReadLoop
  BY <1>4, ReadLoopLines DEF Notified, Shortened
<1>5. CASE UNCHANGED <<wire, turns>>
  BY <1>5 DEF Notified
<1> QED
  BY <1>2, <1>3, <1>4, <1>5, NextCases, OtherLines DEF vars, engine, ReadLoop

CallInv == Types /\ Ids /\ Notified

\* Calls and types hold throughout.
LEMMA CallInvHolds == Spec => []CallInv
<1>1. Init => CallInv
  <2> SUFFICES ASSUME Init PROVE CallInv
    OBVIOUS
  <2>1. MaxTurns \in Nat /\ MaxCalls \in Nat /\ Capacity \in Nat
    BY ConstantsOK
  <2>2. Idle \in Handlers /\ Idle.at = "idle" /\ Idle.id = 0 /\ Idle.ask = None
    BY <2>1 DEF Idle, Handlers
  <2>3. \A c \in Clients : handler[c] = Idle
    BY DEF Init
  <2>4. handler \in [Clients -> Handlers]
    BY <2>2 DEF Init
  <2>5. Types
    <3>1. CallingTypes
      BY <2>1, <2>4, EmptySeq DEF Init, CallingTypes
    <3>2. EngineTypes /\ WireTypes
      BY <2>1, EmptySeq DEF Init, EngineTypes, WireTypes
    <3>3. SessionTypes
      <4>1. events \in Seq(Events) /\ Len(events) = 0
        BY EmptySeq DEF Init
      <4>2. 0 <= Capacity /\ 0 \in 0 .. MaxTurns
        BY <2>1
      <4> QED
        BY <4>1, <4>2 DEF Init, SessionTypes
    <3>4. HistoryTypes
      BY DEF Init, HistoryTypes
    <3> QED
      BY <3>1, <3>2, <3>3, <3>4 DEF Types
  <2>6. Ids
    BY <2>2, <2>3 DEF Init, Ids
  <2> QED
    BY <2>5, <2>6 DEF CallInv, Init, Notified
<1>2. CallInv /\ [Next]_vars => CallInv'
  <2> SUFFICES ASSUME CallInv, [Next]_vars PROVE CallInv'
    OBVIOUS
  <2>1. Types /\ Ids /\ Notified
    BY DEF CallInv
  <2>2. Notified'
    BY <2>1, NotifiedKept
  <2>3. CASE Next
    <3>1. Types' /\ Ids'
      BY <2>1, <2>3, NextCases, CallKeepsTypes, ConnectionKeepsTypes, EngineKeepsTypes,
         ReadLoopKeepsTypes DEF ReadLoop
    <3> QED
      BY <2>2, <3>1 DEF CallInv
  <2>4. CASE UNCHANGED vars
    <3>1. Types' /\ Ids'
      BY <2>1, <2>4 DEF vars, calling, engine, session, answers, Types, CallingTypes, EngineTypes,
         WireTypes, SessionTypes, HistoryTypes, Ids
    <3> QED
      BY <2>2, <3>1 DEF CallInv
  <2> QED
    BY <2>3, <2>4
<1> QED
  BY <1>1, <1>2, PTL DEF Spec

\* Types and the room of the channel are kept, and every call that is waited for is pending,
\* for any number of connections and calls (appserver.go:230, rpc.go).
THEOREM TypeCorrect == Spec => []TypeOK
  BY CallInvHolds, TypeParts, PTL DEF CallInv
-----------------------------------------------------------------------------
(* The turn id.  While no two calls that start turns overlap, the newest turn *)
(* is that of the newest such call, and its line or its caller sets the id.   *)

Started(i, t) == wire[i].kind = "started" /\ wire[i].turn = t
Waits(c) == handler[c].at \in {"called", "woken"} /\ handler[c].method \in Starting

Running == turn \in {0, turns}

\* Calls reach the engine, and answers come back, in the order of the ids.
CallOrder ==
  /\ \A i, j \in DOMAIN stdin : i < j => stdin[i].id < stdin[j].id
  /\ \A i \in DOMAIN stdin : stdin[i].id <= calls
  /\ \A i \in DOMAIN wire : wire[i].kind = "answer" =>
       wire[i].id <= calls /\ \A j \in DOMAIN stdin : wire[i].id < stdin[j].id
  /\ \A c \in Clients : handler[c].at = "woken" =>
       \A j \in DOMAIN stdin : handler[c].id < stdin[j].id

\* No later call starts a turn while one that does is waited for.
NewestCall ==
  ~overlapped => \A c \in Clients, j \in DOMAIN stdin :
    Waits(c) /\ stdin[j].method \in Starting => stdin[j].id <= handler[c].id

\* So its answer tells of the newest turn.
NewestTurn ==
  ~overlapped => \A c \in Clients : Waits(c) =>
    /\ handler[c].at = "woken" => handler[c].turn \in {0, turns}
    /\ handler[c].at = "called" => \A i \in DOMAIN wire :
         wire[i].kind = "answer" /\ wire[i].id = handler[c].id => wire[i].turn \in {0, turns}

\* The turn/started of the newest turn is the last one that is under way.
StartOrder ==
  \A i \in DOMAIN wire : wire[i].kind = "started" =>
    /\ wire[i] = Line("started", wire[i].turn)
    /\ wire[i].turn # turns => \E j \in DOMAIN wire : i < j /\ Started(j, turns)

IdIsNewest ==
  ~overlapped /\ ~closed /\ (\A i \in DOMAIN wire : ~Started(i, turns)) => turnID = turns

TurnInv == Running /\ CallOrder /\ NewestCall /\ NewestTurn /\ StartOrder /\ IdIsNewest

\* TurnIdIsCurrent follows.
LEMMA TurnInvImplies == TurnInv => TurnIdIsCurrent
<1> SUFFICES ASSUME TurnInv, turn # 0, ~overlapped, ~closed,
                    \A i \in DOMAIN wire : wire[i] # Line("started", turn)
             PROVE  turnID = turn
  BY DEF TurnIdIsCurrent
<1>1. turn = turns
  BY DEF TurnInv, Running
<1>2. \A i \in DOMAIN wire : ~Started(i, turns)
  BY <1>1 DEF TurnInv, StartOrder, Started
<1> QED
  BY <1>1, <1>2 DEF TurnInv, IdIsNewest

\* A new call has the highest id.
LEMMA CallKeepsTurns ==
  ASSUME CallInv, TurnInv, NEW c \in Clients, Calls(c)
  PROVE  TurnInv'
<1>1. PICK m \in Methods, t \in 0 .. MaxTurns : Call(c, m, t)
  BY DEF Calls
<1> DEFINE n == calls + 1
           h == [Idle EXCEPT !.at = "called", !.id = n, !.method = m]
           l == [id |-> n, method |-> m, turn |-> t]
<1>2. calls < MaxCalls /\ calls \in Nat /\ MaxCalls \in Nat /\ calls' = n /\ n = calls + 1
  BY <1>1, ConstantsOK DEF Call, CallInv, Types, CallingTypes
<1>3. h.at = "called" /\ h.id = n /\ h.method = m /\ l.id = n /\ l.method = m
  BY DEF Idle
<1>4. handler' = [handler EXCEPT ![c] = h] /\ stdin' = Append(stdin, l)
  BY <1>1 DEF Call
<1>5. l \in CallTypes
  BY <1>2 DEF CallTypes
<1>6. UNCHANGED <<wire, turn, turns, turnID, closed>>
  BY <1>1 DEF Call, engine, session
<1>7. overlapped' = (overlapped \/ (/\ m \in Starting
                                    /\ \E d \in Clients : handler[d].method \in Starting))
  BY <1>1 DEF Call
<1> HIDE DEF n, h, l
<1>8. \A d \in Clients : handler'[d] = IF d = c THEN h ELSE handler[d]
  BY <1>4 DEF CallInv, Types, CallingTypes
<1>9. /\ DOMAIN stdin' = 1 .. Len(stdin) + 1 /\ DOMAIN stdin = 1 .. Len(stdin) /\ Len(stdin) \in Nat
      /\ \A i \in 1 .. Len(stdin) : stdin'[i] = stdin[i]
      /\ stdin'[Len(stdin) + 1] = l
  BY <1>4, <1>5, Appended DEF CallInv, Types, CallingTypes
<1>10. \A i \in DOMAIN stdin : stdin[i].id \in Nat
  <2>1. \A i \in DOMAIN stdin : stdin[i] \in CallTypes
    BY <1>9, ElementOfSeq DEF CallInv, Types, CallingTypes
  <2> QED
    BY <1>2, <2>1 DEF CallTypes
<1>11. \A i \in DOMAIN wire : wire[i].kind = "answer" => wire[i].id \in Nat
  BY LenProperties, ElementOfSeq, <1>2 DEF CallInv, Types, WireTypes, Lines
<1>12. CallOrder'
  <2>1. \A i, j \in DOMAIN stdin' : i < j => stdin'[i].id < stdin'[j].id
    BY <1>2, <1>3, <1>9, <1>10 DEF TurnInv, CallOrder
  <2>2. \A i \in DOMAIN stdin' : stdin'[i].id <= calls'
    BY <1>2, <1>3, <1>9, <1>10 DEF TurnInv, CallOrder
  <2>3. ASSUME NEW i \in DOMAIN wire, wire[i].kind = "answer"
        PROVE  wire[i].id <= calls' /\ \A j \in DOMAIN stdin' : wire[i].id < stdin'[j].id
    BY <1>2, <1>3, <1>9, <1>11, <2>3 DEF TurnInv, CallOrder
  <2>4. ASSUME NEW d \in Clients, handler'[d].at = "woken", NEW j \in DOMAIN stdin'
        PROVE  handler'[d].id < stdin'[j].id
    <3>1. d # c /\ handler[d].at = "woken" /\ handler'[d] = handler[d]
      BY <1>3, <1>8, <2>4
    <3>2. handler[d].id \in Nat /\ handler[d].id <= calls
      BY <1>2 DEF CallInv, Types, CallingTypes, Handlers, Ids
    <3> QED
      BY <1>2, <1>3, <1>9, <3>1, <3>2 DEF TurnInv, CallOrder
  <2> QED
    BY <1>6, <2>1, <2>2, <2>3, <2>4 DEF CallOrder
<1>13. ASSUME ~overlapped', NEW d \in Clients, Waits(d)', d # c
       PROVE  ~overlapped /\ Waits(d) /\ m \notin Starting /\ handler'[d] = handler[d]
  BY <1>7, <1>8, <1>13 DEF Waits
<1>14. ~overlapped' => ~overlapped
  BY <1>7
<1>15. NewestCall'
  <2> SUFFICES ASSUME ~overlapped', NEW d \in Clients, NEW j \in DOMAIN stdin', Waits(d)',
                      stdin'[j].method \in Starting
               PROVE  stdin'[j].id <= handler'[d].id
    BY DEF NewestCall
  <2>1. CASE d = c
    BY <1>2, <1>3, <1>8, <1>9, <1>10, <2>1 DEF TurnInv, CallOrder
  <2>2. CASE d # c
    BY <1>3, <1>9, <1>13, <2>2 DEF TurnInv, NewestCall
  <2> QED
    BY <2>1, <2>2
<1>16. NewestTurn'
  <2> SUFFICES ASSUME ~overlapped', NEW d \in Clients, Waits(d)'
               PROVE  /\ handler'[d].at = "woken" => handler'[d].turn \in {0, turns}
                      /\ handler'[d].at = "called" => \A i \in DOMAIN wire :
                           wire[i].kind = "answer" /\ wire[i].id = handler'[d].id
                             => wire[i].turn \in {0, turns}
    BY <1>6 DEF NewestTurn
  <2>1. CASE d = c
    BY <1>2, <1>3, <1>8, <1>11, <2>1 DEF TurnInv, CallOrder
  <2>2. CASE d # c
    BY <1>13, <2>2 DEF TurnInv, NewestTurn
  <2> QED
    BY <2>1, <2>2
<1>17. Running' /\ StartOrder'
  BY <1>6 DEF TurnInv, Running, StartOrder, Started
<1>18. IdIsNewest'
  BY <1>6, <1>14 DEF TurnInv, IdIsNewest, Started
<1> QED
  BY <1>12, <1>15, <1>16, <1>17, <1>18 DEF TurnInv

\* A connection that goes on waits no longer; only the id of its turn is new.
LEMMA ConnectionKeepsTurns ==
  ASSUME CallInv, TurnInv, NEW c \in Clients,
         (\E r \in Asks : Approve(c, r)) \/ Respond(c) \/ Wake(c) \/ GiveUp(c)
  PROVE  TurnInv'
<1>1. UNCHANGED <<wire, stdin, calls, turn, turns, closed, overlapped>>
  BY DEF Approve, Respond, Wake, GiveUp, engine, session
<1>2. PICK h : handler' = [handler EXCEPT ![c] = h] /\ h.at \in {"idle", "respond"}
  <2>1. Idle.at = "idle" /\ \A r : [Idle EXCEPT !.at = "respond", !.ask = r].at = "respond"
    BY DEF Idle
  <2>2. CASE \E r \in Asks : Approve(c, r)
    BY <2>1, <2>2 DEF Approve
  <2>3. CASE Respond(c) \/ Wake(c) \/ GiveUp(c)
    BY <2>1, <2>3 DEF Respond, Wake, GiveUp
  <2> QED
    BY <2>2, <2>3
<1>3. \A d \in Clients : handler'[d] = IF d = c THEN h ELSE handler[d]
  BY <1>2 DEF CallInv, Types, CallingTypes
<1>4. \A d \in Clients : /\ handler'[d].at = "woken" => handler[d].at = "woken" /\ handler'[d] = handler[d]
                         /\ Waits(d)' => Waits(d) /\ handler'[d] = handler[d]
  BY <1>2, <1>3 DEF Waits
<1>5. Running' /\ CallOrder' /\ StartOrder'
  BY <1>1, <1>4 DEF TurnInv, Running, CallOrder, StartOrder, Started
<1>6. NewestCall' /\ NewestTurn'
  BY <1>1, <1>4 DEF TurnInv, NewestCall, NewestTurn
<1>7. ASSUME ~overlapped, turnID' # turnID PROVE turnID' = turns
  <2>1. Wake(c) /\ handler[c].method = "turn/start" /\ handler[c].turn # 0 /\ turnID' = handler[c].turn
    BY <1>7 DEF Approve, Respond, Wake, GiveUp, session
  <2>2. Waits(c) /\ handler[c].at = "woken"
    BY <2>1 DEF Waits, Wake, Starting
  <2> QED
    BY <1>7, <2>1, <2>2 DEF TurnInv, NewestTurn
<1>8. IdIsNewest'
  BY <1>1, <1>7 DEF TurnInv, IdIsNewest, Started
<1> QED
  BY <1>5, <1>6, <1>8 DEF TurnInv

\* The engine takes the oldest call: it starts no turn while the caller of an earlier one
\* has its answer.
LEMMA ProcessKeepsTurns ==
  ASSUME CallInv, TurnInv, Process
  PROVE  TurnInv'
<1> DEFINE call == Head(stdin)
<1>1. /\ stdin # <<>> /\ stdin' = Tail(stdin) /\ call \in CallTypes
      /\ \/ call.method \in Starting /\ Begins(call.id)
         \/ Interrupts(call.id)
         \/ Replies(call.id)
  BY ProcessCases DEF CallInv
<1>2. UNCHANGED <<handler, calls, overlapped, turnID, closed>>
  BY DEF Process, session
<1>3. /\ DOMAIN stdin' = 1 .. Len(stdin) - 1 /\ DOMAIN stdin = 1 .. Len(stdin)
      /\ Len(stdin) \in Nat \ {0}
      /\ \A i \in 1 .. Len(stdin) - 1 : stdin'[i] = stdin[i + 1]
      /\ call = stdin[1]
  BY <1>1, Taken DEF CallInv, Types, CallingTypes
<1> HIDE DEF call
<1>4. \A i \in DOMAIN stdin' : /\ i + 1 \in DOMAIN stdin /\ stdin'[i] = stdin[i + 1]
                               /\ i \in Nat /\ 1 < i + 1
  BY <1>3
<1>5. 1 \in DOMAIN stdin
  BY <1>3
<1>6. PICK new : /\ Grown(new)
                 /\ \A l \in new : l.kind = "answer" => l = Answer(call.id, l.turn)
                 /\ \A l \in new : l.kind = "started" => l = Line("started", turns')
  BY <1>1 DEF Begins, Interrupts, Replies, Answer, Line
<1>7. \A i \in DOMAIN wire' : wire'[i].kind = "answer" =>
        (i \in DOMAIN wire /\ wire'[i] = wire[i]) \/ wire'[i].id = call.id
  BY <1>6 DEF Grown, NewLines, Answer
<1>8. turns \in Nat /\ turn \in {0, turns}
  BY DEF CallInv, Types, EngineTypes, TurnInv, Running
<1>9. Running'
  BY <1>1, <1>8 DEF Running, Begins, Interrupts, Replies
<1>10. CallOrder'
  <2>1. \A i, j \in DOMAIN stdin' : i < j => stdin'[i].id < stdin'[j].id
    BY <1>4 DEF TurnInv, CallOrder
  <2>2. \A i \in DOMAIN stdin' : stdin'[i].id <= calls'
    BY <1>2, <1>4 DEF TurnInv, CallOrder
  <2>3. call.id <= calls /\ \A j \in DOMAIN stdin' : call.id < stdin'[j].id
    BY <1>3, <1>4, <1>5 DEF TurnInv, CallOrder
  <2>4. ASSUME NEW i \in DOMAIN wire', wire'[i].kind = "answer"
        PROVE  wire'[i].id <= calls' /\ \A j \in DOMAIN stdin' : wire'[i].id < stdin'[j].id
    <3>1. CASE i \in DOMAIN wire /\ wire'[i] = wire[i]
      BY <1>2, <1>4, <2>4, <3>1 DEF TurnInv, CallOrder
    <3>2. CASE wire'[i].id = call.id
      BY <1>2, <2>3, <3>2
    <3> QED
      BY <1>7, <2>4, <3>1, <3>2
  <2>5. \A c \in Clients : handler'[c].at = "woken" =>
          \A j \in DOMAIN stdin' : handler'[c].id < stdin'[j].id
    BY <1>2, <1>4 DEF TurnInv, CallOrder
  <2> QED
    BY <2>1, <2>2, <2>4, <2>5 DEF CallOrder
<1>11. NewestCall'
  BY <1>2, <1>4 DEF TurnInv, NewestCall, Waits
<1>12. StartOrder'
  <2>1. ASSUME NEW i \in DOMAIN wire', wire'[i].kind = "started", i \notin DOMAIN wire
        PROVE  wire'[i] = Line("started", turns')
    BY <1>6, <2>1 DEF Grown, NewLines
  <2>2. ASSUME turns' # turns, NEW i \in DOMAIN wire
        PROVE  \E j \in DOMAIN wire' : i < j /\ Started(j, turns)'
    <3>1. Line("started", turns') \in {Answer(call.id, turns + 1), Line("started", turns + 1)}
          /\ Grown({Answer(call.id, turns + 1), Line("started", turns + 1)})
      BY <1>1, <2>2 DEF Begins, Interrupts, Replies
    <3>2. PICK j \in NewLines : wire'[j] = Line("started", turns')
      BY <3>1 DEF Grown
    <3> QED
      BY <2>2, <3>1, <3>2 DEF Grown, NewLines, Started, Line
  <2>3. ASSUME NEW i \in DOMAIN wire, wire[i].kind = "started", turns' = turns, wire[i].turn # turns
        PROVE  \E j \in DOMAIN wire' : i < j /\ Started(j, turns)'
    <3>1. PICK j \in DOMAIN wire : i < j /\ Started(j, turns)
      BY <2>3 DEF TurnInv, StartOrder
    <3> QED
      BY <1>6, <2>3, <3>1 DEF Grown, Started
  <2>4. ASSUME NEW i \in DOMAIN wire', wire'[i].kind = "started"
        PROVE  /\ wire'[i] = Line("started", wire'[i].turn)
               /\ wire'[i].turn # turns' => \E j \in DOMAIN wire' : i < j /\ Started(j, turns)'
    <3>1. CASE i \in DOMAIN wire
      <4>1. wire'[i] = wire[i]
        BY <1>6, <3>1 DEF Grown
      <4>2. wire[i] = Line("started", wire[i].turn)
        BY <2>4, <3>1, <4>1 DEF TurnInv, StartOrder
      <4> QED
        BY <2>2, <2>3, <2>4, <3>1, <4>1, <4>2
    <3>2. CASE i \notin DOMAIN wire
      BY <2>1, <2>4, <3>2 DEF Line
    <3> QED
      BY <3>1, <3>2
  <2> QED
    BY <2>4 DEF StartOrder
<1>13. IdIsNewest'
  <2> SUFFICES ASSUME ~overlapped, ~closed, \A i \in DOMAIN wire' : ~Started(i, turns)'
               PROVE  turnID = turns'
    BY <1>2 DEF IdIsNewest, Started
  <2>1. turns' = turns
    <3>1. ~Begins(call.id)
      <4>1. ASSUME Begins(call.id) PROVE FALSE
        <5>1. PICK j \in NewLines : wire'[j] = Line("started", turns')
          BY <4>1 DEF Begins, Grown
        <5> QED
          BY <5>1 DEF NewLines, Started, Line
      <4> QED
        BY <4>1
    <3> QED
      BY <1>1, <3>1 DEF Interrupts, Replies
  <2>2. \A i \in DOMAIN wire : ~Started(i, turns)
    BY <1>6, <2>1 DEF Grown, Started
  <2> QED
    BY <2>1, <2>2 DEF TurnInv, IdIsNewest
<1>14. NewestTurn'
  <2> SUFFICES ASSUME ~overlapped, NEW c \in Clients, Waits(c)
               PROVE  /\ handler[c].at = "woken" => handler[c].turn \in {0, turns'}
                      /\ handler[c].at = "called" => \A i \in DOMAIN wire' :
                           wire'[i].kind = "answer" /\ wire'[i].id = handler[c].id
                             => wire'[i].turn \in {0, turns'}
    BY <1>2 DEF NewestTurn, Waits
  <2>1. /\ handler[c].at = "woken" => handler[c].turn \in {0, turns}
        /\ handler[c].at = "called" => \A i \in DOMAIN wire :
             wire[i].kind = "answer" /\ wire[i].id = handler[c].id => wire[i].turn \in {0, turns}
    BY DEF TurnInv, NewestTurn
  <2>2. CASE call.method \in Starting /\ Begins(call.id)
    <3>1. call.id <= handler[c].id /\ call.id \in Nat /\ handler[c].id \in Nat
      <4>1. call.id <= handler[c].id
        BY <1>3, <1>5, <2>2 DEF TurnInv, NewestCall
      <4>2. MaxCalls \in Nat /\ handler[c] \in Handlers
        BY ConstantsOK DEF CallInv, Types, CallingTypes
      <4> QED
        BY <1>1, <4>1, <4>2 DEF CallTypes, Handlers
    <3>2. handler[c].at # "woken"
      <4>1. handler[c].at = "woken" => handler[c].id < call.id
        BY <1>3, <1>5 DEF TurnInv, CallOrder
      <4> QED
        BY <3>1, <4>1
    <3>3. ASSUME NEW i \in DOMAIN wire', wire'[i].kind = "answer", wire'[i].id = handler[c].id
          PROVE  wire'[i].turn = turns'
      <4>1. i \notin DOMAIN wire
        <5>1. ASSUME i \in DOMAIN wire PROVE FALSE
          <6>1. wire[i].kind = "answer" /\ wire[i].id = handler[c].id
            BY <1>6, <3>3, <5>1 DEF Grown
          <6>2. wire[i].id < call.id
            BY <1>3, <1>5, <5>1, <6>1 DEF TurnInv, CallOrder
          <6> QED
            BY <3>1, <6>1, <6>2
        <5> QED
          BY <5>1
      <4>2. wire'[i] \in {Answer(call.id, turns + 1), Line("started", turns + 1)}
        BY <2>2, <4>1 DEF Begins, Grown, NewLines
      <4> QED
        BY <2>2, <3>3, <4>2 DEF Begins, Answer, Line
    <3> QED
      BY <3>2, <3>3
  <2>3. CASE Interrupts(call.id) \/ Replies(call.id)
    <3>1. turns' = turns
      BY <2>3 DEF Interrupts, Replies
    <3>2. ASSUME NEW i \in DOMAIN wire', wire'[i].kind = "answer"
          PROVE  (i \in DOMAIN wire /\ wire'[i] = wire[i]) \/ wire'[i].turn = 0
      BY <2>3, <3>2 DEF Interrupts, Replies, Grown, NewLines, Answer, Line
    <3> QED
      BY <2>1, <3>1, <3>2
  <2> QED
    BY <1>1, <2>2, <2>3
<1> QED
  BY <1>9, <1>10, <1>11, <1>12, <1>13, <1>14 DEF TurnInv

\* What else the engine says starts no turn.
LEMMA EngineKeepsTurns ==
  ASSUME CallInv, TurnInv, Speak \/ Finish \/ \E r \in Asks : Ask(r)
  PROVE  TurnInv'
<1>1. UNCHANGED <<handler, calls, stdin, turns, overlapped, turnID, closed>>
  BY DEF Speak, Finish, Ask, calling, session
<1>2. turn' \in {0, turn}
  BY EngineLines DEF CallInv
<1>3. PICK l : Grown({l}) /\ l.kind \notin {"answer", "started"}
  <2>1. Line("text", turn).kind = "text" /\ Line("done", turn).kind = "done"
    BY DEF Line
  <2>2. \A r : [kind |-> "ask", ask |-> r].kind = "ask"
    OBVIOUS
  <2>3. CASE Grown({Line("text", turn)})
    BY <2>1, <2>3
  <2>4. CASE Grown({Line("done", turn)})
    BY <2>1, <2>4
  <2>5. CASE \E r \in Asks : Grown({[kind |-> "ask", ask |-> r]})
    BY <2>2, <2>5
  <2> QED
    BY <2>3, <2>4, <2>5, EngineLines DEF CallInv
<1>4. /\ \A i \in DOMAIN wire : i \in DOMAIN wire' /\ wire'[i] = wire[i]
      /\ \A i \in DOMAIN wire' : wire'[i].kind \in {"answer", "started"} =>
           i \in DOMAIN wire /\ wire'[i] = wire[i]
  BY <1>3 DEF Grown, NewLines
<1>5. Running'
  BY <1>1, <1>2 DEF TurnInv, Running
<1>6. CallOrder'
  BY <1>1, <1>4 DEF TurnInv, CallOrder
<1>7. NewestCall' /\ NewestTurn'
  BY <1>1, <1>4 DEF TurnInv, NewestCall, NewestTurn, Waits
<1>8. StartOrder'
  <2> SUFFICES ASSUME NEW i \in DOMAIN wire', wire'[i].kind = "started"
               PROVE  /\ wire'[i] = Line("started", wire'[i].turn)
                      /\ wire'[i].turn # turns =>
                           \E j \in DOMAIN wire' : i < j /\ Started(j, turns)'
    BY <1>1 DEF StartOrder, Started
  <2>1. i \in DOMAIN wire /\ wire'[i] = wire[i]
    BY <1>4
  <2>2. /\ wire[i] = Line("started", wire[i].turn)
        /\ wire[i].turn # turns => \E j \in DOMAIN wire : i < j /\ Started(j, turns)
    BY <2>1 DEF TurnInv, StartOrder
  <2> QED
    BY <1>1, <1>4, <2>1, <2>2 DEF Started
<1>9. IdIsNewest'
  BY <1>1, <1>4 DEF TurnInv, IdIsNewest, Started
<1> QED
  BY <1>5, <1>6, <1>7, <1>8, <1>9 DEF TurnInv

\* An answer wakes its caller; a turn/started sets the id.
LEMMA ReadLoopKeepsTurns ==
  ASSUME CallInv, TurnInv, ReadLoop
  PROVE  TurnInv'
<1>1. Shortened /\ UNCHANGED <<stdin, calls, turn, turns, overlapped>>
  BY ReadLoopLines DEF CallInv
<1>2. \A i \in DOMAIN wire' : i + 1 \in DOMAIN wire /\ wire'[i] = wire[i + 1]
  BY <1>1 DEF Shortened
<1>3. 1 \in DOMAIN wire /\ Head(wire) = wire[1]
  BY <1>1 DEF Shortened
<1>4. ASSUME NEW c \in Clients
      PROVE  \/ handler'[c] = handler[c]
             \/ /\ handler[c].at = "called" /\ handler'[c].at = "woken"
                /\ handler'[c].id = handler[c].id /\ handler'[c].method = handler[c].method
                /\ wire[1].kind = "answer" /\ wire[1].id = handler[c].id
                /\ handler'[c].turn = wire[1].turn
  <2>1. CASE ReadAnswer
    <3>1. Head(wire).kind = "answer" /\ handler[c] \in Handlers
      BY <2>1 DEF ReadAnswer, Reads, CallInv, Types, CallingTypes
    <3>2. handler'[c] = IF handler[c].at = "called" /\ handler[c].id = Head(wire).id
                          THEN [handler[c] EXCEPT !.at = "woken", !.turn = Head(wire).turn]
                          ELSE handler[c]
      BY <2>1 DEF ReadAnswer
    <3>3. \A h \in Handlers : \A t :
            /\ [h EXCEPT !.at = "woken", !.turn = t].at = "woken"
            /\ [h EXCEPT !.at = "woken", !.turn = t].turn = t
            /\ [h EXCEPT !.at = "woken", !.turn = t].id = h.id
            /\ [h EXCEPT !.at = "woken", !.turn = t].method = h.method
      BY DEF Handlers
    <3> QED
      BY <1>3, <3>1, <3>2, <3>3
  <2>2. CASE ~ReadAnswer
    BY <2>2 DEF ReadLoop, ReadUnrouted, ReadStarted, ReadText, ReadDone, ReadAsk, Refuse, calling
  <2> QED
    BY <2>1, <2>2
<1>5. Running'
  BY <1>1 DEF TurnInv, Running
<1>6. CallOrder'
  <2>1. \A i \in DOMAIN wire' : wire'[i].kind = "answer" =>
          wire'[i].id <= calls /\ \A j \in DOMAIN stdin : wire'[i].id < stdin[j].id
    BY <1>2 DEF TurnInv, CallOrder
  <2>2. ASSUME NEW c \in Clients, handler'[c].at = "woken", NEW j \in DOMAIN stdin
        PROVE  handler'[c].id < stdin[j].id
    BY <1>3, <1>4, <2>2 DEF TurnInv, CallOrder
  <2> QED
    BY <1>1, <2>1, <2>2 DEF TurnInv, CallOrder
<1>7. \A c \in Clients : Waits(c)' => Waits(c) /\ handler'[c].id = handler[c].id
  BY <1>4 DEF Waits
<1>8. NewestCall'
  BY <1>1, <1>7 DEF TurnInv, NewestCall
<1>9. NewestTurn'
  <2> SUFFICES ASSUME ~overlapped, NEW c \in Clients, Waits(c)'
               PROVE  /\ handler'[c].at = "woken" => handler'[c].turn \in {0, turns}
                      /\ handler'[c].at = "called" => \A i \in DOMAIN wire' :
                           wire'[i].kind = "answer" /\ wire'[i].id = handler'[c].id
                             => wire'[i].turn \in {0, turns}
    BY <1>1 DEF NewestTurn
  <2>1. /\ handler[c].at = "woken" => handler[c].turn \in {0, turns}
        /\ handler[c].at = "called" => \A i \in DOMAIN wire :
             wire[i].kind = "answer" /\ wire[i].id = handler[c].id => wire[i].turn \in {0, turns}
    BY <1>7 DEF TurnInv, NewestTurn
  <2> QED
    BY <1>2, <1>3, <1>4, <2>1
<1>10. StartOrder'
  <2> SUFFICES ASSUME NEW i \in DOMAIN wire', wire'[i].kind = "started"
               PROVE  /\ wire'[i] = Line("started", wire'[i].turn)
                      /\ wire'[i].turn # turns =>
                           \E j \in DOMAIN wire' : i < j /\ Started(j, turns)'
    BY <1>1 DEF StartOrder, Started
  <2>1. i + 1 \in DOMAIN wire /\ wire'[i] = wire[i + 1] /\ i \in Nat
    BY <1>1 DEF Shortened
  <2>2. /\ wire[i + 1] = Line("started", wire[i + 1].turn)
        /\ wire[i + 1].turn # turns => \E j \in DOMAIN wire : i + 1 < j /\ Started(j, turns)
    BY <2>1 DEF TurnInv, StartOrder
  <2>3. ASSUME NEW j \in DOMAIN wire, i + 1 < j, Started(j, turns)
        PROVE  j - 1 \in DOMAIN wire' /\ i < j - 1 /\ Started(j - 1, turns)'
    BY <1>1, <2>1, <2>3 DEF Shortened, Started
  <2> QED
    BY <2>1, <2>2, <2>3
<1>11. IdIsNewest'
  <2> SUFFICES ASSUME ~overlapped, ~closed', \A i \in DOMAIN wire' : ~Started(i, turns)'
               PROVE  turnID' = turns
    BY <1>1 DEF IdIsNewest, Started
  <2>1. ~closed
    BY DEF ReadLoop, ReadAnswer, ReadUnrouted, ReadStarted, ReadText, ReadDone, ReadAsk, Refuse, session
  <2>2. \A i \in DOMAIN wire : Started(i, turns) => i = 1
    BY <1>1 DEF Shortened, Started
  <2>3. CASE ReadStarted
    <3>1. turnID' = wire[1].turn /\ wire[1].kind = "started"
      BY <1>3, <2>3 DEF ReadStarted, Reads
    <3>2. wire[1].turn = turns
      <4>1. \A j \in DOMAIN wire : 1 < j => ~Started(j, turns)
        BY <2>2
      <4> QED
        BY <1>3, <3>1, <4>1 DEF TurnInv, StartOrder
    <3> QED
      BY <3>1, <3>2
  <2>4. CASE ~ReadStarted
    <3>1. turnID' = turnID /\ wire[1].kind # "started"
      BY <1>3, <2>1, <2>4 DEF ReadLoop, ReadAnswer, ReadUnrouted, ReadText, ReadDone, ReadAsk, Refuse,
         session, Reads
    <3>2. \A i \in DOMAIN wire : ~Started(i, turns)
      BY <2>2, <3>1 DEF Started
    <3> QED
      BY <2>1, <3>1, <3>2 DEF TurnInv, IdIsNewest
  <2> QED
    BY <2>3, <2>4
<1> QED
  BY <1>5, <1>6, <1>8, <1>9, <1>10, <1>11 DEF TurnInv

\* So does the order of calls, answers and turns,
LEMMA TurnInvHolds == Spec => []TurnInv
<1>1. Init => TurnInv
  BY DEF Init, TurnInv, Running, CallOrder, NewestCall, NewestTurn, StartOrder, IdIsNewest, Waits,
     Started, Idle
<1>2. CallInv /\ TurnInv /\ [Next]_vars => TurnInv'
  <2> SUFFICES ASSUME CallInv, TurnInv, [Next]_vars PROVE TurnInv'
    OBVIOUS
  <2>1. CASE Close \/ Receive \/ UNCHANGED vars
    <3>1. UNCHANGED <<handler, calls, stdin, wire, turn, turns, overlapped, turnID>>
          /\ (closed' = closed \/ closed')
      BY <2>1 DEF Close, Receive, vars, calling, engine, session
    <3> QED
      BY <3>1 DEF TurnInv, Running, CallOrder, NewestCall, NewestTurn, StartOrder, IdIsNewest, Waits,
         Started
  <2>2. CASE Next
    BY <2>1, <2>2, NextCases, CallKeepsTurns, ConnectionKeepsTurns, ProcessKeepsTurns,
       EngineKeepsTurns, ReadLoopKeepsTurns DEF CallInv, ReadLoop
  <2> QED
    BY <2>1, <2>2
<1> QED
  BY <1>1, <1>2, CallInvHolds, PTL DEF Spec

\* While no two calls that start turns overlap, the id that Steer and Cancel send is that of
\* the running turn once its turn/started is read (appserver.go:269, :424).
THEOREM TurnIdCorrect == Spec => []TurnIdIsCurrent
  BY TurnInvHolds, TurnInvImplies, PTL
-----------------------------------------------------------------------------
(* The approval requests.                                                     *)

OnWire(i, r) == wire[i].kind = "ask" /\ wire[i].ask = r
InHand(r) == \E c \in Clients : handler[c].ask = r

\* A request is in one place, and once there; what was not asked is nowhere.
Alone(r) == /\ \A i, j \in DOMAIN wire : OnWire(i, r) /\ OnWire(j, r) => i = j
            /\ \A c, d \in Clients : handler[c].ask = r /\ handler[d].ask = r => c = d
            /\ decisions[r] \in {0, 1}
            /\ (\E i \in DOMAIN wire : OnWire(i, r)) =>
                 r \notin approvals /\ ~InHand(r) /\ decisions[r] = 0 /\ r \notin lost
            /\ r \in approvals => ~InHand(r) /\ decisions[r] = 0 /\ r \notin lost
            /\ InHand(r) => decisions[r] = 0 /\ r \notin lost
            /\ decisions[r] = 1 => r \notin lost
Somewhere(r) == \/ \E i \in DOMAIN wire : OnWire(i, r)
                \/ r \in approvals \/ InHand(r) \/ decisions[r] = 1 \/ r \in lost

AskInv == \A r \in Asks : Alone(r) /\ (r \in asked <=> Somewhere(r))

\* EachRequestInOnePlace follows.
LEMMA AskInvImplies == CallInv /\ AskInv => EachRequestInOnePlace
<1> SUFFICES ASSUME CallInv, AskInv, NEW r \in asked PROVE Cardinality(Places(r)) = 1
  BY DEF EachRequestInOnePlace
<1>1. r \in Asks /\ Alone(r) /\ Somewhere(r)
  BY DEF AskInv, CallInv, Types, EngineTypes
<1> DEFINE W == {<<"wire", i>> : i \in {i \in DOMAIN wire : wire[i].kind = "ask" /\ wire[i].ask = r}}
           M == {<<"map", r>> : x \in {r} \cap approvals}
           H == {<<"handler", c>> : c \in {c \in Clients : handler[c].ask = r}}
           D == {<<"decided", n>> : n \in 1 .. decisions[r]}
           L == {<<"lost", r>> : x \in {r} \cap lost}
<1>2. Places(r) = W \cup M \cup H \cup D \cup L
  BY DEF Places
<1>3. (\A i \in DOMAIN wire : ~OnWire(i, r)) => W = {}
  BY DEF OnWire
<1>4. r \notin approvals => M = {}
  OBVIOUS
<1>5. ~InHand(r) => H = {}
  BY DEF InHand
<1>6. decisions[r] = 0 => D = {}
  OBVIOUS
<1>7. r \notin lost => L = {}
  OBVIOUS
<1>8. \E p : Places(r) = {p}
  <2>1. CASE \E i \in DOMAIN wire : OnWire(i, r)
    <3>1. PICK i \in DOMAIN wire : OnWire(i, r)
      BY <2>1
    <3>2. W = {<<"wire", i>>}
      BY <1>1, <3>1 DEF Alone, OnWire
    <3>3. M = {} /\ H = {} /\ D = {} /\ L = {}
      BY <1>1, <1>4, <1>5, <1>6, <1>7, <2>1 DEF Alone
    <3> HIDE DEF W, M, H, D, L
    <3> QED
      BY <1>2, <3>2, <3>3
  <2>2. CASE r \in approvals
    <3>1. M = {<<"map", r>>}
      BY <2>2
    <3>2. W = {} /\ H = {} /\ D = {} /\ L = {}
      BY <1>1, <1>3, <1>5, <1>6, <1>7, <2>2 DEF Alone
    <3> HIDE DEF W, M, H, D, L
    <3> QED
      BY <1>2, <3>1, <3>2
  <2>3. CASE InHand(r)
    <3>1. PICK c \in Clients : handler[c].ask = r
      BY <2>3 DEF InHand
    <3>2. H = {<<"handler", c>>}
      BY <1>1, <3>1 DEF Alone
    <3>3. W = {} /\ M = {} /\ D = {} /\ L = {}
      BY <1>1, <1>3, <1>4, <1>6, <1>7, <2>3 DEF Alone
    <3> HIDE DEF W, M, H, D, L
    <3> QED
      BY <1>2, <3>2, <3>3
  <2>4. CASE decisions[r] = 1
    <3>1. D = {<<"decided", 1>>}
      BY <2>4
    <3>2. W = {} /\ M = {} /\ H = {} /\ L = {}
      BY <1>1, <1>3, <1>4, <1>5, <1>7, <2>4 DEF Alone
    <3> HIDE DEF W, M, H, D, L
    <3> QED
      BY <1>2, <3>1, <3>2
  <2>5. CASE r \in lost
    <3>1. L = {<<"lost", r>>}
      BY <2>5
    <3>2. decisions[r] = 0
      BY <1>1, <2>5 DEF Alone
    <3>3. W = {} /\ M = {} /\ H = {} /\ D = {}
      BY <1>1, <1>3, <1>4, <1>5, <1>6, <2>5, <3>2 DEF Alone
    <3> HIDE DEF W, M, H, D, L
    <3> QED
      BY <1>2, <3>1, <3>3
  <2> QED
    BY <1>1, <2>1, <2>2, <2>3, <2>4, <2>5 DEF Somewhere
<1> QED
  BY <1>8, FS_Singleton

Wired(r) == \E i \in DOMAIN wire : OnWire(i, r)
Once(r) == \A i, j \in DOMAIN wire : OnWire(i, r) /\ OnWire(j, r) => i = j

\* A step that moves no request.
LEMMA AskFrame ==
  ASSUME AskInv, UNCHANGED <<approvals, decisions, lost, asked>>,
         \A c \in Clients : handler'[c].ask = handler[c].ask,
         \A r \in Asks : (Wired(r)' <=> Wired(r)) /\ (Once(r) => Once(r)')
  PROVE  AskInv'
<1> SUFFICES ASSUME NEW r \in Asks PROVE Alone(r)' /\ (r \in asked' <=> Somewhere(r)')
  BY DEF AskInv
<1>1. Alone(r) /\ (r \in asked <=> Somewhere(r))
  BY DEF AskInv
<1>2. InHand(r)' <=> InHand(r)
  BY DEF InHand
<1>3. \A c, d \in Clients : handler'[c].ask = r /\ handler'[d].ask = r => c = d
  BY <1>1 DEF Alone
<1>4. (Wired(r)' <=> Wired(r)) /\ Once(r)'
  BY <1>1 DEF Alone, Once
<1>5. Alone(r)'
  BY <1>1, <1>2, <1>3, <1>4 DEF Alone, Wired, Once
<1> QED
  BY <1>1, <1>2, <1>4, <1>5 DEF Somewhere, Wired

\* Lines that are no requests come and go.
LEMMA GrownFrame ==
  ASSUME NEW new, Grown(new), \A l \in new : l.kind # "ask", NEW r
  PROVE  (Wired(r)' <=> Wired(r)) /\ (Once(r) => Once(r)')
<1>1. /\ \A i \in DOMAIN wire : i \in DOMAIN wire' /\ wire'[i] = wire[i]
      /\ \A i \in DOMAIN wire' : wire'[i].kind = "ask" => i \in DOMAIN wire /\ wire'[i] = wire[i]
  BY DEF Grown, NewLines
<1> QED
  BY <1>1 DEF Wired, Once, OnWire

\* A line read that is not of a request leaves the request where it was.
LEMMA ShortenedFrame ==
  ASSUME Shortened, NEW r, ~OnWire(1, r)
  PROVE  (Wired(r)' <=> Wired(r)) /\ (Once(r) => Once(r)')
<1>1. ASSUME Wired(r)' PROVE Wired(r)
  BY <1>1 DEF Wired, OnWire, Shortened
<1>2. ASSUME Wired(r) PROVE Wired(r)'
  <2>1. PICK i \in DOMAIN wire : OnWire(i, r)
    BY <1>2 DEF Wired
  <2>2. i - 1 \in DOMAIN wire' /\ wire'[i - 1] = wire[i]
    BY <2>1 DEF Shortened
  <2> QED
    BY <2>1, <2>2 DEF Wired, OnWire
<1>3. ASSUME Once(r), NEW i \in DOMAIN wire', NEW j \in DOMAIN wire', OnWire(i, r)', OnWire(j, r)'
      PROVE  i = j
  <2>1. i + 1 \in DOMAIN wire /\ j + 1 \in DOMAIN wire /\ OnWire(i + 1, r) /\ OnWire(j + 1, r)
    BY <1>3 DEF OnWire, Shortened
  <2>2. i + 1 = j + 1 /\ i \in Nat /\ j \in Nat
    BY <1>3, <2>1 DEF Once, Shortened
  <2> QED
    BY <2>2
<1> QED
  BY <1>1, <1>2, <1>3 DEF Once

\* A new request is in one place, on the wire.
LEMMA AskKeepsAsks ==
  ASSUME CallInv, AskInv, NEW r \in Asks, Ask(r), Grown({[kind |-> "ask", ask |-> r]})
  PROVE  AskInv'
<1>1. r \notin asked /\ asked' = asked \cup {r} /\ UNCHANGED <<handler, approvals, decisions, lost>>
  BY DEF Ask, calling, session, answers
<1> DEFINE l == [kind |-> "ask", ask |-> r]
<1>2. l.kind = "ask" /\ l.ask = r
  OBVIOUS
<1>3. Grown({l})
  OBVIOUS
<1> HIDE DEF l
<1>4. ASSUME NEW q \in Asks PROVE Alone(q)' /\ (q \in asked' <=> Somewhere(q)')
  <2>1. Alone(q) /\ (q \in asked <=> Somewhere(q))
    BY DEF AskInv
  <2>2. InHand(q)' <=> InHand(q)
    BY <1>1 DEF InHand
  <2>3. CASE q = r
    <3>1. ~Somewhere(r)
      BY <1>1, <2>1, <2>3
    <3>2. ~Wired(r)
      BY <3>1 DEF Somewhere, Wired
    <3>3. Wired(r)' /\ Once(r)'
      <4>1. PICK i \in NewLines : wire'[i] = l
        BY <1>3 DEF Grown
      <4>2. \A j \in DOMAIN wire' : wire'[j].kind = "ask" /\ wire'[j].ask = r => j \in NewLines /\ wire'[j] = l
        BY <1>2, <1>3, <3>2 DEF Grown, NewLines, Wired, OnWire
      <4>3. \A j \in DOMAIN wire' : wire'[j].kind = "ask" /\ wire'[j].ask = r => j = i
        BY <1>3, <4>1, <4>2 DEF Grown
      <4> QED
        BY <1>2, <4>1, <4>3 DEF Wired, Once, OnWire, NewLines
    <3>4. r \notin approvals /\ ~InHand(r) /\ r \notin lost /\ decisions[r] = 0
      BY <2>1, <2>3, <3>1 DEF Somewhere, Alone
    <3>5. Alone(r)'
      BY <1>1, <2>2, <2>3, <3>3, <3>4 DEF Alone, Wired, Once, InHand
    <3>6. Somewhere(r)' /\ r \in asked'
      BY <1>1, <3>3 DEF Somewhere, Wired
    <3> QED
      BY <2>3, <3>5, <3>6
  <2>4. CASE q # r
    <3>1. /\ \A i \in DOMAIN wire : i \in DOMAIN wire' /\ wire'[i] = wire[i]
          /\ \A i \in DOMAIN wire' : wire'[i].kind = "ask" /\ wire'[i].ask = q =>
               i \in DOMAIN wire /\ wire'[i] = wire[i]
      BY <1>2, <1>3, <2>4 DEF Grown, NewLines
    <3>2. (Wired(q)' <=> Wired(q)) /\ (Once(q) => Once(q)')
      BY <3>1 DEF Wired, Once, OnWire
    <3>3. Alone(q)'
      BY <1>1, <2>1, <2>2, <3>2 DEF Alone, Wired, Once
    <3> QED
      BY <1>1, <2>1, <2>2, <2>4, <3>2, <3>3 DEF Somewhere, Wired
  <2> QED
    BY <2>3, <2>4
<1> QED
  BY <1>4 DEF AskInv

\* The read loop hands a request to the session, or answers it.
LEMMA ReadKeepsAsks ==
  ASSUME CallInv, AskInv, ReadAsk \/ Refuse
  PROVE  AskInv'
<1>1. /\ Shortened /\ wire[1].kind = "ask" /\ Head(wire).ask \in Asks
      /\ UNCHANGED <<handler, asked>> /\ Head(wire) = wire[1]
  <2>1. Reads("ask")
    BY DEF ReadAsk, Refuse
  <2> QED
    BY <2>1, HeadLine, ReadsShortens DEF CallInv, Types, WireTypes, ReadAsk, Refuse, calling, engine,
       Shortened
<1>0. PICK r \in Asks : r = wire[1].ask
  BY <1>1
<1>2. /\ r \in Asks /\ OnWire(1, r)
      /\ \/ approvals' = approvals \cup {r} /\ UNCHANGED <<decisions, lost>>
         \/ decisions' = [decisions EXCEPT ![r] = @ + 1] /\ UNCHANGED <<approvals, lost>>
         \/ lost' = lost \cup {r} /\ UNCHANGED <<approvals, decisions>>
  BY <1>0, <1>1 DEF ReadAsk, Refuse, Decide, OnWire, session, answers
<1>3. \A q : q # r => ~OnWire(1, q)
  BY <1>0 DEF OnWire
<1>4. decisions \in [Asks -> Nat]
  BY DEF CallInv, Types, HistoryTypes
<1>5. ASSUME NEW q \in Asks PROVE Alone(q)' /\ (q \in asked' <=> Somewhere(q)')
  <2>1. Alone(q) /\ (q \in asked <=> Somewhere(q))
    BY DEF AskInv
  <2>2. InHand(q)' <=> InHand(q)
    BY <1>1 DEF InHand
  <2>3. CASE q = r
    <3>1. Wired(r) /\ r \in asked /\ Once(r)
      BY <1>1, <1>2, <2>1, <2>3 DEF Wired, Somewhere, Shortened, Alone, Once
    <3>2. r \notin approvals /\ ~InHand(r) /\ decisions[r] = 0 /\ r \notin lost
      BY <2>1, <2>3, <3>1 DEF Alone, Wired
    <3>3. ~Wired(r)'
      <4>1. ASSUME NEW i \in DOMAIN wire', OnWire(i, r)' PROVE FALSE
        <5>1. i + 1 \in DOMAIN wire /\ OnWire(i + 1, r) /\ i \in Nat
          BY <1>1, <4>1 DEF Shortened, OnWire
        <5>2. i + 1 = 1 /\ 0 \notin DOMAIN wire'
          <6>1. i + 1 = 1
            BY <1>1, <1>2, <3>1, <5>1 DEF Once, Shortened
          <6>2. wire' = Tail(wire) /\ wire \in Seq(Lines) /\ wire # <<>>
            BY DEF ReadAsk, Refuse, Reads, CallInv, Types, WireTypes
          <6>3. DOMAIN wire' = 1 .. Len(wire) - 1 /\ Len(wire) \in Nat
            BY <6>2, Taken
          <6> QED
            BY <6>1, <6>3
        <5> QED
          BY <4>1, <5>1, <5>2
      <4> QED
        BY <4>1 DEF Wired
    <3>4. Once(r)' /\ \A i \in DOMAIN wire' : ~OnWire(i, r)'
      BY <3>3 DEF Wired, Once
    <3>5. \/ r \in approvals' /\ decisions'[r] = 0 /\ r \notin lost'
          \/ r \notin approvals' /\ decisions'[r] = 1 /\ r \notin lost'
          \/ r \notin approvals' /\ decisions'[r] = 0 /\ r \in lost'
      BY <1>2, <1>4, <3>2
    <3>6. Alone(r)'
      BY <1>1, <2>1, <2>2, <2>3, <3>2, <3>4, <3>5 DEF Alone, Once
    <3> QED
      BY <1>1, <2>3, <3>1, <3>5, <3>6 DEF Somewhere
  <2>4. CASE q # r
    <3>1. (Wired(q)' <=> Wired(q)) /\ (Once(q) => Once(q)')
      BY <1>1, <1>3, <2>4, ShortenedFrame
    <3>2. (q \in approvals' <=> q \in approvals) /\ decisions'[q] = decisions[q]
          /\ (q \in lost' <=> q \in lost)
      BY <1>2, <1>4, <2>4
    <3>3. Alone(q)'
      BY <1>1, <2>1, <2>2, <3>1, <3>2 DEF Alone, Wired, Once
    <3> QED
      BY <1>1, <2>1, <2>2, <3>1, <3>2, <3>3 DEF Somewhere, Wired
  <2> QED
    BY <2>3, <2>4
<1> QED
  BY <1>5 DEF AskInv

\* A connection takes a request out of the map.
LEMMA ApproveKeepsAsks ==
  ASSUME CallInv, AskInv, NEW c \in Clients, NEW r \in Asks, Approve(c, r)
  PROVE  AskInv'
<1> DEFINE h == [Idle EXCEPT !.at = "respond", !.ask = r]
<1>1. /\ r \in approvals /\ approvals' = approvals \ {r} /\ handler' = [handler EXCEPT ![c] = h]
      /\ UNCHANGED <<wire, asked, decisions, lost>> /\ handler[c].at = "idle"
  BY DEF Approve, engine, answers
<1>2. h.ask = r
  BY DEF Idle
<1> HIDE DEF h
<1>3. handler[c].ask = None /\ \A d \in Clients : handler'[d] = IF d = c THEN h ELSE handler[d]
  BY <1>1 DEF CallInv, Types, CallingTypes, Ids
<1>4. None \notin Asks
  BY ConstantsOK
<1>5. ASSUME NEW q \in Asks PROVE Alone(q)' /\ (q \in asked' <=> Somewhere(q)')
  <2>1. Alone(q) /\ (q \in asked <=> Somewhere(q))
    BY DEF AskInv
  <2>2. CASE q = r
    <3>1. ~InHand(r) /\ ~Wired(r) /\ decisions[r] = 0 /\ r \notin lost /\ r \in asked
      BY <1>1, <2>1, <2>2 DEF Alone, Wired, Somewhere
    <3>2. InHand(r)' /\ \A d \in Clients : handler'[d].ask = r => d = c
      BY <1>2, <1>3, <3>1 DEF InHand
    <3>3. Alone(r)'
      BY <1>1, <2>1, <2>2, <3>1, <3>2 DEF Alone, Wired, OnWire
    <3> QED
      BY <1>1, <2>2, <3>1, <3>2, <3>3 DEF Somewhere
  <2>3. CASE q # r
    <3>1. \A d \in Clients : handler'[d].ask = q <=> handler[d].ask = q
      BY <1>2, <1>3, <1>4, <2>3
    <3>2. InHand(q)' <=> InHand(q)
      BY <3>1 DEF InHand
    <3>3. Alone(q)'
      BY <1>1, <2>1, <2>3, <3>1, <3>2 DEF Alone, OnWire
    <3> QED
      BY <1>1, <2>1, <2>3, <3>2, <3>3 DEF Somewhere, OnWire
  <2> QED
    BY <2>2, <2>3
<1> QED
  BY <1>5 DEF AskInv

\* It answers the request, or loses it.
LEMMA RespondKeepsAsks ==
  ASSUME CallInv, AskInv, NEW c \in Clients, Respond(c)
  PROVE  AskInv'
<1>0. PICK r \in Asks : r = handler[c].ask
  BY DEF Respond, CallInv, Ids
<1>1. /\ r \in Asks /\ handler' = [handler EXCEPT ![c] = Idle]
      /\ UNCHANGED <<wire, asked, approvals>>
      /\ \/ decisions' = [decisions EXCEPT ![r] = @ + 1] /\ UNCHANGED lost
         \/ lost' = lost \cup {r} /\ UNCHANGED decisions
  BY <1>0 DEF Respond, Decide, engine, session
<1>2. InHand(r)
  BY <1>0 DEF InHand
<1>3. handler[c].ask = r
  BY <1>0
<1>4. Idle.ask = None /\ \A d \in Clients : handler'[d] = IF d = c THEN Idle ELSE handler[d]
  BY <1>1 DEF CallInv, Types, CallingTypes, Idle
<1>5. None \notin Asks /\ decisions \in [Asks -> Nat]
  BY ConstantsOK DEF CallInv, Types, HistoryTypes
<1>6. ASSUME NEW q \in Asks PROVE Alone(q)' /\ (q \in asked' <=> Somewhere(q)')
  <2>1. Alone(q) /\ (q \in asked <=> Somewhere(q))
    BY DEF AskInv
  <2>2. CASE q = r
    <3>1. ~Wired(r) /\ r \notin approvals /\ decisions[r] = 0 /\ r \notin lost /\ r \in asked
      BY <1>2, <2>1, <2>2 DEF Alone, Wired, Somewhere
    <3>2. \A d \in Clients : handler'[d].ask # r
      BY <1>1, <1>3, <1>4, <1>5, <2>1, <2>2 DEF Alone
    <3>3. \/ decisions'[r] = 1 /\ r \notin lost'
          \/ decisions'[r] = 0 /\ r \in lost'
      BY <1>1, <1>5, <3>1
    <3>4. Alone(r)'
      BY <1>1, <2>1, <2>2, <3>1, <3>2, <3>3 DEF Alone, Wired, OnWire, InHand
    <3> QED
      BY <1>1, <2>2, <3>1, <3>3, <3>4 DEF Somewhere
  <2>3. CASE q # r
    <3>1. \A d \in Clients : handler'[d].ask = q <=> handler[d].ask = q
      BY <1>3, <1>4, <1>5, <2>3
    <3>2. (InHand(q)' <=> InHand(q)) /\ decisions'[q] = decisions[q] /\ (q \in lost' <=> q \in lost)
      BY <1>1, <1>5, <2>3, <3>1 DEF InHand
    <3>3. Alone(q)'
      BY <1>1, <2>1, <2>3, <3>1, <3>2 DEF Alone, OnWire
    <3> QED
      BY <1>1, <2>1, <2>3, <3>2, <3>3 DEF Somewhere, OnWire
  <2> QED
    BY <2>2, <2>3
<1> QED
  BY <1>6 DEF AskInv

\* Everything else moves no request.
LEMMA OthersKeepAsks ==
  ASSUME CallInv, AskInv,
         \/ \E c \in Clients : Calls(c) \/ Wake(c) \/ GiveUp(c)
         \/ Close \/ Receive \/ Process \/ Speak \/ Finish
         \/ ReadAnswer \/ ReadUnrouted \/ ReadStarted \/ ReadText \/ ReadDone
         \/ UNCHANGED vars
  PROVE  AskInv'
<1>1. UNCHANGED <<approvals, decisions, lost, asked>>
  BY DEF Calls, Call, Wake, GiveUp, Close, Receive, Process, Speak, Finish, ReadAnswer, ReadUnrouted,
     ReadStarted, ReadText, ReadDone, vars, calling, engine, session, answers
<1>2. ASSUME NEW c \in Clients PROVE handler'[c].ask = handler[c].ask
  <2>1. \A d \in Clients : handler[d].at # "respond" => handler[d].ask = None
    BY DEF CallInv, Ids
  <2>2. CASE \E d \in Clients : Calls(d) \/ Wake(d) \/ GiveUp(d)
    <3>1. PICK d \in Clients : Calls(d) \/ Wake(d) \/ GiveUp(d)
      BY <2>2
    <3>2. PICK h : handler' = [handler EXCEPT ![d] = h] /\ h.ask = None /\ handler[d].at # "respond"
      <4>1. Idle.ask = None /\ \A n, m : [Idle EXCEPT !.at = "called", !.id = n, !.method = m].ask = None
        BY DEF Idle
      <4>2. CASE Calls(d)
        <5>1. PICK m \in Methods, t \in 0 .. MaxTurns : Call(d, m, t)
          BY <4>2 DEF Calls
        <5>2. /\ handler' = [handler EXCEPT ![d] = [Idle EXCEPT !.at = "called", !.id = calls + 1,
                                                                !.method = m]]
              /\ handler[d].at = "idle"
          BY <5>1 DEF Call
        <5> QED
          BY <4>1, <5>2
      <4>3. CASE Wake(d) \/ GiveUp(d)
        BY <4>1, <4>3 DEF Wake, GiveUp
      <4> QED
        BY <3>1, <4>2, <4>3
    <3> QED
      BY <2>1, <3>2 DEF CallInv, Types, CallingTypes
  <2>3. CASE ReadAnswer
    <3>1. handler[c] \in Handlers
      BY DEF CallInv, Types, CallingTypes
    <3>2. \A h \in Handlers : \A t : [h EXCEPT !.at = "woken", !.turn = t].ask = h.ask
      BY DEF Handlers
    <3>3. \/ handler'[c] = handler[c]
          \/ \E t : handler'[c] = [handler[c] EXCEPT !.at = "woken", !.turn = t]
      BY <2>3 DEF ReadAnswer
    <3> QED
      BY <3>1, <3>2, <3>3
  <2>4. CASE \/ Close \/ Receive \/ Process \/ Speak \/ Finish
             \/ ReadUnrouted \/ ReadStarted \/ ReadText \/ ReadDone \/ UNCHANGED vars
    BY <2>4 DEF Close, Receive, Process, Speak, Finish, ReadUnrouted, ReadStarted, ReadText, ReadDone,
       vars, calling
  <2> QED
    BY <2>2, <2>3, <2>4
<1>3. ASSUME NEW r \in Asks PROVE (Wired(r)' <=> Wired(r)) /\ (Once(r) => Once(r)')
  <2>1. CASE Process
    <3>1. PICK id, t, u : \/ Grown({Answer(id, t), Line("started", t)})
                          \/ Grown({Answer(id, 0), Line("done", u)})
                          \/ Grown({Answer(id, 0)})
      BY <2>1, ProcessCases DEF CallInv, Begins, Interrupts, Replies
    <3>2. Answer(id, t).kind # "ask" /\ Answer(id, 0).kind # "ask"
          /\ Line("started", t).kind # "ask" /\ Line("done", u).kind # "ask"
      BY DEF Answer, Line
    <3> QED
      BY <3>1, <3>2, GrownFrame
  <2>2. CASE Speak \/ Finish
    <3>1. Line("text", turn).kind # "ask" /\ Line("done", turn).kind # "ask"
      BY DEF Line
    <3>2. wire \in Seq(Lines) /\ Line("text", turn) \in Lines /\ Line("done", turn) \in Lines
      BY ConstantsOK DEF CallInv, Types, WireTypes, EngineTypes, Line, Lines
    <3>3. Grown({Line("text", turn)}) \/ Grown({Line("done", turn)})
      BY <2>2, <3>2, GrownByOne DEF Speak, Finish
    <3> QED
      BY <3>1, <3>3, GrownFrame
  <2>3. CASE ReadAnswer \/ ReadUnrouted \/ ReadStarted \/ ReadText \/ ReadDone
    <3>1. PICK kind : Reads(kind) /\ kind # "ask"
      <4>1. Reads("answer") \/ Reads("started") \/ Reads("text") \/ Reads("done")
        BY <2>3 DEF ReadAnswer, ReadUnrouted, ReadStarted, ReadText, ReadDone
      <4> QED
        BY <4>1
    <3>2. Shortened /\ ~OnWire(1, r)
      BY <3>1, ReadsShortens DEF CallInv, Types, WireTypes, OnWire
    <3> QED
      BY <3>2, ShortenedFrame
  <2>4. CASE wire' = wire
    BY <2>4 DEF Wired, Once, OnWire
  <2> QED
    BY <2>1, <2>2, <2>3, <2>4, OtherLines DEF vars
<1> QED
  BY <1>1, <1>2, <1>3, AskFrame

\* Hence every request is in one place throughout.
LEMMA AskInvHolds == Spec => []AskInv
<1>1. Init => AskInv
  BY ConstantsOK DEF Init, AskInv, Alone, Somewhere, OnWire, InHand, Idle
<1>2. CallInv /\ AskInv /\ [Next]_vars => AskInv'
  <2> SUFFICES ASSUME CallInv, AskInv, [Next]_vars PROVE AskInv'
    OBVIOUS
  <2>1. Types
    BY DEF CallInv
  <2>2. ASSUME NEW r \in Asks, Ask(r) PROVE AskInv'
    <3>1. wire \in Seq(Lines) /\ [kind |-> "ask", ask |-> r] \in Lines
      BY <2>1 DEF Types, WireTypes, Lines
    <3>2. Grown({[kind |-> "ask", ask |-> r]})
      BY <2>2, <3>1, GrownByOne DEF Ask
    <3> QED
      BY <2>2, <3>2, AskKeepsAsks
  <2> QED
    BY <2>1, <2>2, NextCases, ReadKeepsAsks, ApproveKeepsAsks, RespondKeepsAsks, OthersKeepAsks
<1> QED
  BY <1>1, <1>2, CallInvHolds, PTL DEF Spec

\* Each approval request is in one place, answered at most once and never forgotten, for any
\* number of clients and requests (appserver.go:351, :411).
THEOREM RequestsCorrect == Spec => []EachRequestInOnePlace
  BY CallInvHolds, AskInvHolds, AskInvImplies, PTL
=============================================================================
