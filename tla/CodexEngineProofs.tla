-------------------------- MODULE CodexEngineProofs --------------------------
(***************************************************************************)
(* What holds of CodexEngine for every number of starters, sessions, threads *)
(* and engines, checked by TLAPS.                                            *)
(*                                                                           *)
(*   Types       TypeOK, with the engines that starters know                 *)
(*   SharedInv   RoutedToItsThread and ClosedOnce, with who closes a session *)
(*   DeathInv    DeathEndsSessions, with where a session can still be found  *)
(***************************************************************************)
EXTENDS CodexEngine, TLAPS

Ranges ==
  /\ holder \in Starters \cup {None}
  /\ client \in 0 .. made
  /\ sessions \in [Threads -> Objects \cup {None}]
  /\ made \in 0 .. MaxEngines
  /\ running \subseteq 1 .. made
  /\ dead \subseteq (1 .. made) \ running
  /\ reader \in [Engines -> Reader]
  /\ start \in [Starters -> Starter]
  /\ obj \in [Objects -> Session]
  /\ panicked \in BOOLEAN

\* Who works on a session has one; who looks one up has a thread; a starter and a session
\* know engines that were started.
ReaderHolds(e) == /\ reader[e].step \in {"check", "send", "close", "unregister", "shut"} =>
                       reader[e].at \in Objects
                  /\ reader[e].step = "lookup" => reader[e].thread \in Threads
StarterHolds(c) == /\ start[c].at \in {"register", "check", "send"} => start[c].obj \in Objects
                   /\ start[c].engine \in 0 .. made
Known == \A o \in Objects : obj[o].engine \in 0 .. made

Types == /\ Ranges /\ Known
         /\ \A e \in Engines : ReaderHolds(e)
         /\ \A c \in Starters : StarterHolds(c)

\* TypeOK follows.
LEMMA TypesImply == Types => TypeOK
  BY DEF Types, Ranges, ReaderHolds, StarterHolds, TypeOK
-----------------------------------------------------------------------------
(* One record of a variable changes.                                          *)

Starts(c, to, e, o) ==
  /\ start' \in [Starters -> Starter]
  /\ start'[c].at = to /\ start'[c].engine = e /\ start'[c].obj = o
  /\ \A d \in Starters \ {c} : start'[d] = start[d]

Reading(e, to, why, o, left) ==
  /\ reader' \in [Engines -> Reader]
  /\ reader'[e].step = to /\ reader'[e].why = why /\ reader'[e].at = o /\ reader'[e].left = left
  /\ reader'[e].thread \in {reader[e].thread, None}
  /\ \A f \in Engines \ {e} : reader'[f] = reader[f]

\* The objects but for the fates of those in lost that are open.
Objs(new, lost) ==
  \A p \in Objects :
    /\ new[p].st = obj[p].st /\ new[p].by = obj[p].by /\ new[p].live = obj[p].live
    /\ new[p].thread = obj[p].thread /\ new[p].engine = obj[p].engine
    /\ new[p].fate = IF p \in lost /\ obj[p].st = "open" THEN "dropped" ELSE obj[p].fate

\* No engine, the number 0, is in the range of engine numbers.
LEMMA EngineRange == MaxEngines \in Nat /\ 0 \in 0 .. MaxEngines
  BY ConstantsOK

\* How an update of one starter reads: a new step,
LEMMA StartsAt ==
  ASSUME Ranges, NEW c \in Starters, NEW to \in StartSteps, start' = [start EXCEPT ![c].at = to]
  PROVE  Starts(c, to, start[c].engine, start[c].obj)
<1> DEFINE s == [start[c] EXCEPT !.at = to]
<1>1. start[c] \in Starter
  BY DEF Ranges
<1>2. s \in Starter /\ s.at = to /\ s.engine = start[c].engine /\ s.obj = start[c].obj
  BY <1>1 DEF Starter
<1>3. start' = [start EXCEPT ![c] = s]
  OBVIOUS
<1> HIDE DEF s
<1> QED
  BY <1>2, <1>3 DEF Ranges, Starts

\* a new step and engine,
LEMMA StartsWith ==
  ASSUME Ranges, NEW c \in Starters, NEW to \in StartSteps, NEW e \in 0 .. MaxEngines,
         start' = [start EXCEPT ![c].at = to, ![c].engine = e]
  PROVE  Starts(c, to, e, start[c].obj)
<1> DEFINE s == [start[c] EXCEPT !.at = to, !.engine = e]
<1>1. start[c] \in Starter
  BY DEF Ranges
<1>2. s \in Starter /\ s.at = to /\ s.engine = e /\ s.obj = start[c].obj
  BY <1>1 DEF Starter
<1>3. start' = [start EXCEPT ![c] = s]
  BY DEF Ranges
<1> HIDE DEF s
<1> QED
  BY <1>2, <1>3 DEF Ranges, Starts

\* and the return to idle.
LEMMA StartsOver ==
  ASSUME Ranges, NEW c \in Starters, start' = [start EXCEPT ![c] = Idle]
  PROVE  Starts(c, "idle", 0, None)
<1>1. Idle \in Starter /\ Idle.at = "idle" /\ Idle.engine = 0 /\ Idle.obj = None
  BY EngineRange DEF Idle, Starter, StartSteps
<1> QED
  BY <1>1 DEF Ranges, Starts

\* How an update of one read loop reads: a new step,
LEMMA ReadsTo ==
  ASSUME Ranges, NEW e \in Engines, NEW to \in ReadSteps, reader' = [reader EXCEPT ![e].step = to]
  PROVE  Reading(e, to, reader[e].why, reader[e].at, reader[e].left)
<1> DEFINE r == [reader[e] EXCEPT !.step = to]
<1>1. reader[e] \in Reader
  BY DEF Ranges
<1>2. /\ r \in Reader /\ r.step = to /\ r.why = reader[e].why /\ r.at = reader[e].at
      /\ r.left = reader[e].left /\ r.thread = reader[e].thread
  BY <1>1 DEF Reader
<1>3. reader' = [reader EXCEPT ![e] = r]
  OBVIOUS
<1> HIDE DEF r
<1> QED
  BY <1>2, <1>3 DEF Ranges, Reading

\* the return to reading,
LEMMA ReadsAsleep ==
  ASSUME Ranges, NEW e \in Engines, reader' = [reader EXCEPT ![e] = Asleep]
  PROVE  Reading(e, "read", "notification", None, {})
<1>1. /\ Asleep \in Reader /\ Asleep.step = "read" /\ Asleep.why = "notification"
      /\ Asleep.at = None /\ Asleep.left = {} /\ Asleep.thread = None
  BY DEF Asleep, Reader, ReadSteps
<1> QED
  BY <1>1 DEF Ranges, Reading

\* and the next session of the snapshot.
LEMMA ReadsNext ==
  ASSUME Ranges, NEW e \in Engines, NEW from, Done(e, from)
  PROVE  Reading(e, "next", "notification", None, reader[e].left) /\ reader[e].step = from /\ ~panicked
<1> DEFINE r == [Asleep EXCEPT !.step = "next", !.left = reader[e].left]
<1>1. reader[e].left \in SUBSET Objects
  BY DEF Ranges, Reader
<1>2. /\ r \in Reader /\ r.step = "next" /\ r.why = "notification" /\ r.at = None
      /\ r.left = reader[e].left /\ r.thread = None
  BY <1>1 DEF Asleep, Reader, ReadSteps
<1>3. reader' = [reader EXCEPT ![e] = r] /\ reader[e].step = from /\ ~panicked
  BY DEF Done
<1> HIDE DEF r
<1> QED
  BY <1>2, <1>3 DEF Ranges, Reading

\* Losing keeps the type of the sessions and changes only their fate.
LEMMA LosingEffect ==
  ASSUME Ranges, NEW lost
  PROVE  Losing(lost) \in [Objects -> Session] /\ Objs(Losing(lost), lost)
<1>1. \A p \in Objects : obj[p] \in Session
  BY DEF Ranges
<1>2. ASSUME NEW p \in Objects
      PROVE  /\ Losing(lost)[p] \in Session
             /\ Losing(lost)[p].st = obj[p].st /\ Losing(lost)[p].by = obj[p].by
             /\ Losing(lost)[p].live = obj[p].live /\ Losing(lost)[p].thread = obj[p].thread
             /\ Losing(lost)[p].engine = obj[p].engine
             /\ Losing(lost)[p].fate = IF p \in lost /\ obj[p].st = "open" THEN "dropped" ELSE obj[p].fate
  <2>1. CASE p \in lost /\ obj[p].st = "open"
    <3>1. Losing(lost)[p] = [obj[p] EXCEPT !.fate = "dropped"]
      BY <2>1 DEF Losing
    <3> QED
      BY <1>1, <2>1, <3>1 DEF Session, Fates
  <2>2. CASE ~(p \in lost /\ obj[p].st = "open")
    <3>1. Losing(lost)[p] = obj[p]
      BY <2>2 DEF Losing
    <3> QED
      BY <1>1, <2>2, <3>1
  <2> QED
    BY <2>1, <2>2
<1> QED
  BY <1>2 DEF Losing, Objs
-----------------------------------------------------------------------------
(* What each step does, record by record.                                     *)

Shared == <<sessions, reader, obj>>

\* A starter goes on without a session.
Approaches(c) ==
  /\ UNCHANGED Shared /\ start[c].at \notin {"register", "check"}
  /\ \/ start' = start
     \/ \E to \in StartSteps \ {"register", "check", "send"}, e \in 0 .. made', o \in Objects \cup {None} :
          Starts(c, to, e, o)
  /\ made' \in made .. MaxEngines

\* One that has a session emits its first event and returns it.
Announces(c) ==
  /\ UNCHANGED <<sessions, reader, made>> /\ start[c].at \in {"check", "send"}
  /\ \/ /\ obj' = obj /\ start[c].at = "check"
        /\ Starts(c, "send", start[c].engine, start[c].obj)
     \/ /\ \A p \in Objects :
             /\ obj'[p].st = obj[p].st /\ obj'[p].by = obj[p].by /\ obj'[p].fate = obj[p].fate
             /\ obj'[p].thread = obj[p].thread /\ obj'[p].engine = obj[p].engine
             /\ obj'[p].live = IF p = start[c].obj THEN TRUE ELSE obj[p].live
        /\ Starts(c, "idle", 0, None)

Installs(c) ==
  /\ UNCHANGED <<reader, made>> /\ start[c].at = "install"
  /\ Starts(c, "call", start[c].engine, start[c].obj)
  /\ sessions' = Empty /\ Objs(obj', Forgotten(Empty))

Registers(c) == \E o \in Objects :
  /\ UNCHANGED <<reader, made>> /\ start[c].at = "register" /\ o = start[c].obj
  /\ Starts(c, "check", start[c].engine, o)
  /\ sessions' = [sessions EXCEPT ![obj[o].thread] = o]
  /\ \A p \in Objects :
       /\ obj'[p].st = obj[p].st /\ obj'[p].by = obj[p].by /\ obj'[p].live = obj[p].live
       /\ obj'[p].thread = obj[p].thread /\ obj'[p].engine = obj[p].engine
       /\ obj'[p].fate = IF p = o THEN IF Mourned(obj[o].engine) THEN "late" ELSE "none"
                         ELSE IF p \in Forgotten(sessions') /\ obj[p].st = "open" THEN "dropped"
                         ELSE obj[p].fate

\* An answer to a call makes a session.
Receives(c, e) ==
  /\ UNCHANGED <<sessions, reader, made>> /\ start[c].at = "waiting" /\ e \in 0 .. made
  /\ \E o \in Objects, t \in Threads :
       /\ obj[o].st = "unmade" /\ Starts(c, "register", e, o)
       /\ obj'[o].st = "open" /\ obj'[o].by = "nobody" /\ obj'[o].live = FALSE
       /\ obj'[o].thread = t /\ obj'[o].engine = e /\ obj'[o].fate = "none"
       /\ \A p \in Objects \ {o} : obj'[p] = obj[p]

\* A read loop goes on without a session, or gets one to emit to.
Listens(e) ==
  /\ UNCHANGED <<sessions, start, obj, made>>
  /\ \/ reader' = reader
     \/ /\ reader[e].step \in {"read", "lookup"}
        /\ reader' \in [Engines -> Reader] /\ \A f \in Engines \ {e} : reader'[f] = reader[f]
        /\ reader'[e].step \in {"lookup", "read"}
        /\ reader'[e].step = "lookup" => reader'[e].thread \in Threads
        /\ reader'[e].why \in {reader[e].why, "notification"}
        /\ reader'[e].at \in {reader[e].at, None}
        /\ reader'[e].left \in {reader[e].left, {}}
     \/ \E t \in Threads : /\ reader[e].step = "lookup" /\ sessions[t] \in Objects
                           /\ Reading(e, "check", "notification", sessions[t], {})

\* It emits.  After the last two events of a dead engine's session that one is closed.
Emits(e) ==
  /\ UNCHANGED <<sessions, start, obj, made>>
  /\ reader[e].step \in {"check", "send"}
  /\ \/ Reading(e, "send", reader[e].why, reader[e].at, reader[e].left)
     \/ reader[e].why = "notification" /\ Reading(e, "read", "notification", None, {})
     \/ reader[e].why = "error" /\ Reading(e, "check", "done", reader[e].at, reader[e].left)
     \/ reader[e].why = "done" /\ Reading(e, "close", "done", reader[e].at, reader[e].left)

\* The lines end: the callers that wait for an answer get none.
Fails(e) ==
  /\ UNCHANGED <<sessions, obj, made>> /\ reader[e].step = "read"
  /\ Reading(e, "mourn", reader[e].why, reader[e].at, reader[e].left)
  /\ start' \in [Starters -> Starter]
  /\ \A c \in Starters :
       \/ start'[c] = start[c]
       \/ /\ start[c].at \in {"handshake", "waiting"} /\ start'[c].at \in {"refused", "idle"}
          /\ start'[c].engine \in {0, start[c].engine}

Mourns(e) ==
  /\ UNCHANGED <<start, obj, made>> /\ reader[e].step = "mourn" /\ sessions' = Empty
  /\ Reading(e, "next", reader[e].why, reader[e].at,
             {o \in Objects : \E t \in Threads : sessions[t] = o})

Turns(e) ==
  /\ UNCHANGED <<sessions, start, obj, made>> /\ reader[e].step = "next"
  /\ \/ reader[e].left = {} /\ Reading(e, "over", reader[e].why, reader[e].at, reader[e].left)
     \/ \E o \in reader[e].left : Reading(e, "check", "error", o, reader[e].left \ {o})

\* Close, by a read loop.
Ends(e) ==
  /\ UNCHANGED <<sessions, start, made>> /\ reader[e].step = "close"
  /\ \/ /\ obj[reader[e].at].st # "open" /\ obj' = obj
        /\ Reading(e, "next", "notification", None, reader[e].left)
     \/ /\ obj[reader[e].at].st = "open"
        /\ Reading(e, "unregister", reader[e].why, reader[e].at, reader[e].left)
        /\ obj'[reader[e].at].st = "closing" /\ obj'[reader[e].at].by = "reader"
        /\ obj'[reader[e].at].live = obj[reader[e].at].live
        /\ obj'[reader[e].at].thread = obj[reader[e].at].thread
        /\ obj'[reader[e].at].engine = obj[reader[e].at].engine
        /\ obj'[reader[e].at].fate = obj[reader[e].at].fate
        /\ \A p \in Objects \ {reader[e].at} : obj'[p] = obj[p]

\* unregister, of session o.
Unlists(o) ==
  /\ sessions' = [sessions EXCEPT ![obj[o].thread] = None]
  /\ \A p \in Objects :
       /\ obj'[p].st = (IF p = o THEN "unregistered" ELSE obj[p].st)
       /\ obj'[p].by = obj[p].by /\ obj'[p].live = obj[p].live
       /\ obj'[p].thread = obj[p].thread /\ obj'[p].engine = obj[p].engine
       /\ obj'[p].fate = IF p \in Forgotten(sessions') /\ obj[p].st = "open" THEN "dropped" ELSE obj[p].fate

\* The channel is closed.
Shuts(o) ==
  /\ obj'[o].st = "shut" /\ obj'[o].by = "nobody" /\ obj'[o].fate = "none"
  /\ obj'[o].live = obj[o].live /\ obj'[o].engine = obj[o].engine
  /\ \A p \in Objects \ {o} : obj'[p] = obj[p]

ReaderUnlists(e) ==
  /\ UNCHANGED <<start, made>> /\ reader[e].step = "unregister" /\ Unlists(reader[e].at)
  /\ Reading(e, "shut", reader[e].why, reader[e].at, reader[e].left)

ReaderShutsIt(e) ==
  /\ UNCHANGED <<sessions, start, made>> /\ reader[e].step = "shut" /\ Shuts(reader[e].at)
  /\ Reading(e, "next", "notification", None, reader[e].left)

ManagerEnds(o) ==
  /\ UNCHANGED <<sessions, start, reader, made>> /\ obj[o].live /\ obj[o].st = "open"
  /\ obj'[o].st = "closing" /\ obj'[o].by = "manager" /\ obj'[o].live = obj[o].live
  /\ obj'[o].thread = obj[o].thread /\ obj'[o].engine = obj[o].engine
  /\ obj'[o].fate = obj[o].fate
  /\ \A p \in Objects \ {o} : obj'[p] = obj[p]

ManagerUnlists(o) ==
  /\ UNCHANGED <<start, reader, made>> /\ obj[o].st = "closing" /\ obj[o].by = "manager" /\ Unlists(o)

ManagerShutsIt(o) ==
  /\ UNCHANGED <<sessions, start, reader, made>>
  /\ obj[o].st = "unregistered" /\ obj[o].by = "manager" /\ Shuts(o)

StarterSteps(c) == Approaches(c) \/ Announces(c) \/ Installs(c) \/ Registers(c)
ReaderSteps(e) == Listens(e) \/ Emits(e) \/ Fails(e) \/ Mourns(e) \/ Turns(e) \/ Ends(e)
                    \/ ReaderUnlists(e) \/ ReaderShutsIt(e)
ManagerSteps(o) == ManagerEnds(o) \/ ManagerUnlists(o) \/ ManagerShutsIt(o)

\* The starters that go on without a session.
LEMMA ApproachEffects ==
  ASSUME Types, NEW c \in Starters,
         \/ Begin(c) \/ Reuse(c) \/ Launch(c) \/ LaunchFails(c) \/ HandshakeFails(c) \/ Refuse(c)
         \/ Call(c) \/ CallFails(c) \/ StarterPanics(c) \/ \E o \in Objects : Fork(c, o)
         \/ \E e \in Engines : Answer(e, c) /\ start[c].at = "handshake"
  PROVE  Ranges' /\ Approaches(c) /\ Known'
<1>1. /\ Ranges /\ start[c].engine \in 0 .. made /\ made \in 0 .. MaxEngines /\ MaxEngines \in Nat
      /\ start[c].obj \in Objects \cup {None} /\ Known
  BY EngineRange DEF Types, Ranges, StarterHolds, Starter
<1>2. 0 .. made \subseteq 0 .. MaxEngines /\ 0 \in 0 .. made
  BY <1>1
<1>3. ASSUME NEW to \in StartSteps \ {"register", "check", "send"}, NEW e \in 0 .. made,
             NEW o \in Objects \cup {None},
             Starts(c, to, e, o), UNCHANGED <<Profile, made, dead, Shared, panicked>>,
             running' \subseteq running, start[c].at \notin {"register", "check"}
      PROVE  Ranges' /\ Approaches(c) /\ Known'
  <2>1. made' \in made .. MaxEngines /\ made' = made
    BY <1>1, <1>3
  <2>2. Approaches(c) /\ Known'
    BY <1>1, <1>3, <2>1 DEF Approaches, Shared, Known
  <2>3. Ranges'
    BY <1>1, <1>3, <2>1 DEF Ranges, Starts, Profile, Shared
  <2> QED
    BY <2>2, <2>3
<1>4. {"ensure", "handshake", "install", "refused", "call", "waiting", "idle"}
        \subseteq StartSteps \ {"register", "check", "send"}
  BY DEF StartSteps
<1>5. CASE Begin(c)
  <2>1. Starts(c, "ensure", start[c].engine, start[c].obj)
    BY <1>1, <1>4, <1>5, StartsAt DEF Begin, Steps
  <2> QED
    BY <1>1, <1>3, <1>4, <1>5, <2>1 DEF Begin, Steps, Process, Profile, Shared
<1>6. CASE Reuse(c)
  <2>1. client \in 0 .. made
    BY <1>1 DEF Ranges
  <2>2. Starts(c, "call", client, start[c].obj)
    BY <1>1, <1>2, <1>4, <1>6, <2>1, StartsWith DEF Reuse
  <2> QED
    BY <1>1, <1>3, <1>4, <1>6, <2>1, <2>2 DEF Reuse, Process, Profile, Shared
<1>7. CASE Launch(c)
  <2>1. made' = made + 1 /\ made < MaxEngines /\ running' = running \cup {made'} /\ holder' = c
        /\ UNCHANGED <<client, sessions, dead, reader, obj, panicked>> /\ start[c].at = "ensure"
        /\ start' = [start EXCEPT ![c].at = "handshake", ![c].engine = made']
    BY <1>7 DEF Launch
  <2>2. made' \in 0 .. MaxEngines /\ made' \in 0 .. made' /\ made' \in made .. MaxEngines
    BY <1>1, <2>1
  <2>3. Starts(c, "handshake", made', start[c].obj)
    BY <1>1, <1>4, <2>1, <2>2, StartsWith
  <2>4. Approaches(c)
    BY <1>1, <1>4, <2>1, <2>2, <2>3 DEF Approaches, Shared
  <2>5. /\ client \in 0 .. made' /\ running' \subseteq 1 .. made'
        /\ dead \subseteq (1 .. made') \ running' /\ Known'
    BY <1>1, <2>1 DEF Ranges, Known
  <2>6. Ranges'
    BY <1>1, <2>1, <2>2, <2>3, <2>5 DEF Ranges, Starts
  <2> QED
    BY <2>4, <2>5, <2>6
<1>8. CASE LaunchFails(c)
  <2>0. Ranges /\ start' = [start EXCEPT ![c] = Idle]
    BY <1>1, <1>8 DEF LaunchFails, Returns
  <2>1. Starts(c, "idle", 0, None)
    BY <2>0, StartsOver
  <2> QED
    BY <1>1, <1>2, <1>3, <1>4, <1>8, <2>1 DEF LaunchFails, Returns, Process, Profile, Shared
<1>9. CASE HandshakeFails(c)
  <2>1. Starts(c, "refused", start[c].engine, start[c].obj)
    BY <1>1, <1>4, <1>9, StartsAt DEF HandshakeFails, Steps
  <2> QED
    BY <1>1, <1>3, <1>4, <1>9, <2>1 DEF HandshakeFails, Steps, Process, Profile, Shared
<1>10. CASE Refuse(c)
  <2>0. Ranges /\ start' = [start EXCEPT ![c] = Idle]
    BY <1>1, <1>10 DEF Refuse, Returns
  <2>1. Starts(c, "idle", 0, None)
    BY <2>0, StartsOver
  <2>2. /\ running' = running \ {start[c].engine} /\ holder' = None /\ start[c].at = "refused"
        /\ UNCHANGED <<client, sessions, made, dead, reader, obj, panicked>>
    BY <1>10 DEF Refuse, Returns
  <2>3. Approaches(c) /\ Known'
    BY <1>1, <1>2, <1>4, <2>1, <2>2 DEF Approaches, Shared, Known
  <2>4. Ranges'
    BY <1>1, <2>1, <2>2 DEF Ranges, Starts
  <2> QED
    BY <2>3, <2>4
<1>11. CASE Call(c)
  <2>1. Starts(c, "waiting", start[c].engine, start[c].obj)
    BY <1>1, <1>4, <1>11, StartsAt DEF Call, Steps
  <2> QED
    BY <1>1, <1>3, <1>4, <1>11, <2>1 DEF Call, Steps, Process, Profile, Shared
<1>12. CASE CallFails(c)
  <2>0. Ranges /\ start' = [start EXCEPT ![c] = Idle]
    BY <1>1, <1>12 DEF CallFails, Returns
  <2>1. Starts(c, "idle", 0, None)
    BY <2>0, StartsOver
  <2> QED
    BY <1>1, <1>2, <1>3, <1>4, <1>12, <2>1 DEF CallFails, Returns, Process, Profile, Shared
<1>13. CASE StarterPanics(c)
  <2>1. /\ panicked' = TRUE /\ start[c].at = "send"
        /\ UNCHANGED <<holder, client, sessions, made, running, dead, reader, start, obj>>
    BY <1>13 DEF StarterPanics, Process, Profile
  <2> QED
    BY <1>1, <2>1 DEF Approaches, Shared, Ranges, Known
<1>14. CASE \E o \in Objects : Fork(c, o)
  <2>1. PICK o \in Objects : Fork(c, o)
    BY <1>14
  <2> DEFINE e == obj[o].engine
             s == [Idle EXCEPT !.at = "call", !.engine = e]
  <2>2. e \in 0 .. made
    BY <1>1 DEF Known
  <2>3. s \in Starter /\ s.at = "call" /\ s.engine = e /\ s.obj = None
    BY <1>2, <2>2, EngineRange DEF Idle, Starter, StartSteps
  <2>4. start' = [start EXCEPT ![c] = s]
    BY <2>1 DEF Fork
  <2> HIDE DEF e, s
  <2>5. Starts(c, "call", e, None)
    BY <1>1, <2>3, <2>4 DEF Starts, Ranges
  <2> QED
    BY <1>1, <1>3, <1>4, <2>1, <2>2, <2>5 DEF Fork, Process, Profile, Shared
<1>15. CASE \E e \in Engines : Answer(e, c) /\ start[c].at = "handshake"
  <2>1. Steps(c, "handshake", "install") /\ UNCHANGED <<obj, Profile, Process, reader, panicked>>
    BY <1>15 DEF Answer
  <2>2. Starts(c, "install", start[c].engine, start[c].obj)
    BY <1>1, <1>4, <2>1, StartsAt DEF Steps
  <2> QED
    BY <1>1, <1>3, <1>4, <2>1, <2>2 DEF Steps, Process, Profile, Shared
<1> QED
  BY <1>5, <1>6, <1>7, <1>8, <1>9, <1>10, <1>11, <1>12, <1>13, <1>14, <1>15

\* How an update of one session reads.
LEMMA ObjWith ==
  ASSUME Ranges, NEW o \in Objects, NEW s \in Session, obj' = [obj EXCEPT ![o] = s]
  PROVE  obj' \in [Objects -> Session] /\ obj'[o] = s /\ \A p \in Objects \ {o} : obj'[p] = obj[p]
  BY DEF Ranges

\* The session of a starter becomes live.
LEMMA GoesLive ==
  ASSUME Ranges, NEW o \in Objects, obj' = [obj EXCEPT ![o].live = TRUE]
  PROVE  /\ obj' \in [Objects -> Session]
         /\ \A p \in Objects :
              /\ obj'[p].st = obj[p].st /\ obj'[p].by = obj[p].by /\ obj'[p].fate = obj[p].fate
              /\ obj'[p].thread = obj[p].thread /\ obj'[p].engine = obj[p].engine
              /\ obj'[p].live = IF p = o THEN TRUE ELSE obj[p].live
<1> DEFINE s == [obj[o] EXCEPT !.live = TRUE]
<1>1. \A p \in Objects : obj[p] \in Session
  BY DEF Ranges
<1>2. /\ s \in Session /\ s.st = obj[o].st /\ s.by = obj[o].by /\ s.fate = obj[o].fate
      /\ s.thread = obj[o].thread /\ s.engine = obj[o].engine /\ s.live = TRUE
  BY <1>1 DEF Session
<1>3. obj' = [obj EXCEPT ![o] = s]
  OBVIOUS
<1> HIDE DEF s
<1>4. obj' \in [Objects -> Session] /\ obj'[o] = s /\ \A p \in Objects \ {o} : obj'[p] = obj[p]
  BY <1>2, <1>3, ObjWith
<1>5. ASSUME NEW p \in Objects
      PROVE  obj'[p].live = IF p = o THEN TRUE ELSE obj[p].live
  <2>1. CASE p = o
    BY <1>2, <1>4, <2>1
  <2>2. CASE p # o
    BY <1>4, <2>2
  <2> QED
    BY <2>1, <2>2
<1> QED
  BY <1>2, <1>4, <1>5

\* The starters that have a session, or make one.
LEMMA SessionEffects ==
  ASSUME Types, NEW c \in Starters,
         StarterChecks(c) \/ StarterSends(c) \/ Install(c) \/ Register(c)
  PROVE  Ranges' /\ Known' /\ (Announces(c) \/ Installs(c) \/ Registers(c))
<1>1. /\ Ranges /\ start[c].engine \in 0 .. made /\ made \in 0 .. MaxEngines /\ MaxEngines \in Nat
      /\ start[c].obj \in Objects \cup {None} /\ Known
      /\ start[c].at \in {"register", "check", "send"} => start[c].obj \in Objects
  BY EngineRange DEF Types, Ranges, StarterHolds, Starter
<1>2. {"send", "check", "call"} \subseteq StartSteps
  BY DEF StartSteps
<1>3. ASSUME NEW o \in Objects, o = start[c].obj, start[c].at \in {"check", "send"},
             start' = [start EXCEPT ![c] = Idle], obj' = [obj EXCEPT ![o].live = TRUE],
             UNCHANGED <<Profile, Process, reader, panicked>>
      PROVE  Ranges' /\ Known' /\ Announces(c)
  <2>1. Starts(c, "idle", 0, None)
    BY <1>1, <1>3, StartsOver
  <2>2. /\ obj' \in [Objects -> Session]
        /\ \A p \in Objects :
              /\ obj'[p].st = obj[p].st /\ obj'[p].by = obj[p].by /\ obj'[p].fate = obj[p].fate
              /\ obj'[p].thread = obj[p].thread /\ obj'[p].engine = obj[p].engine
              /\ obj'[p].live = IF p = o THEN TRUE ELSE obj[p].live
    BY <1>1, <1>3, GoesLive
  <2>3. Ranges' /\ Known'
    BY <1>1, <1>3, <2>1, <2>2 DEF Ranges, Known, Starts, Profile, Process
  <2>4. UNCHANGED <<sessions, reader, made>>
    BY <1>3 DEF Profile, Process
  <2>5. \A p \in Objects :
          /\ obj'[p].st = obj[p].st /\ obj'[p].by = obj[p].by /\ obj'[p].fate = obj[p].fate
          /\ obj'[p].thread = obj[p].thread /\ obj'[p].engine = obj[p].engine
          /\ obj'[p].live = IF p = start[c].obj THEN TRUE ELSE obj[p].live
    BY <1>3, <2>2
  <2> QED
    BY <1>3, <2>1, <2>3, <2>4, <2>5 DEF Announces
<1>4. CASE StarterChecks(c)
  <2>1. CASE /\ Steps(c, "check", "send") /\ UNCHANGED obj
             /\ UNCHANGED <<Profile, Process, reader, panicked>>
    <3>1. Starts(c, "send", start[c].engine, start[c].obj)
      BY <1>1, <1>2, <2>1, StartsAt DEF Steps
    <3>2. Ranges' /\ Known'
      BY <1>1, <2>1, <3>1 DEF Ranges, Known, Starts, Profile, Process
    <3> QED
      BY <2>1, <3>1, <3>2 DEF Announces, Steps, Profile, Process
  <2>2. CASE /\ Returns(c, "check") /\ obj' = [obj EXCEPT ![start[c].obj].live = TRUE]
             /\ UNCHANGED <<Profile, Process, reader, panicked>>
    BY <1>1, <1>3, <2>2 DEF Returns
  <2> QED
    BY <1>4, <2>1, <2>2 DEF StarterChecks
<1>5. CASE StarterSends(c)
  BY <1>1, <1>3, <1>5 DEF StarterSends, Returns
<1>6. CASE Install(c)
  <2>1. Starts(c, "call", start[c].engine, start[c].obj) /\ start[c].at = "install"
    BY <1>1, <1>2, <1>6, StartsAt DEF Install, Steps
  <2>2. Losing(Forgotten(Empty)) \in [Objects -> Session] /\ Objs(Losing(Forgotten(Empty)), Forgotten(Empty))
    BY <1>1, LosingEffect
  <2>3. /\ client' = start[c].engine /\ sessions' = Empty /\ holder' = None
        /\ obj' = Losing(Forgotten(Empty)) /\ UNCHANGED <<made, running, dead, reader, panicked>>
    BY <1>6 DEF Install, Process
  <2>4. Objs(obj', Forgotten(Empty)) /\ obj' \in [Objects -> Session]
    BY <2>2, <2>3
  <2>5. Empty \in [Threads -> Objects \cup {None}]
    BY DEF Empty
  <2>6. Ranges'
    BY <1>1, <2>1, <2>3, <2>4, <2>5 DEF Ranges, Starts
  <2>7. Known'
    BY <1>1, <2>3, <2>4 DEF Known, Objs
  <2> QED
    BY <2>1, <2>3, <2>4, <2>6, <2>7 DEF Installs
<1>7. CASE Register(c)
  <2>1. PICK o \in Objects : o = start[c].obj
    BY <1>1, <1>7 DEF Register, Steps
  <2> DEFINE table == [sessions EXCEPT ![obj[o].thread] = o]
  <2>2. /\ start[c].at = "register" /\ start' = [start EXCEPT ![c].at = "check"] /\ sessions' = table
        /\ obj' = [Losing(Forgotten(table)) EXCEPT
                     ![o].fate = IF Mourned(obj[o].engine) THEN "late" ELSE "none"]
        /\ UNCHANGED <<holder, client, made, running, dead, reader, panicked>>
    BY <1>7, <2>1 DEF Register, Steps, Process
  <2>3. Starts(c, "check", start[c].engine, o)
    BY <1>1, <1>2, <2>1, <2>2, StartsAt
  <2>4. table \in [Threads -> Objects \cup {None}]
    BY <1>1 DEF Ranges
  <2> HIDE DEF table
  <2>5. PICK losing : losing = Losing(Forgotten(table))
    OBVIOUS
  <2>6. losing \in [Objects -> Session] /\ Objs(losing, Forgotten(table))
    BY <1>1, <2>5, LosingEffect
  <2>7. PICK f \in Fates : f = IF Mourned(obj[o].engine) THEN "late" ELSE "none"
    BY DEF Fates
  <2> DEFINE s == [losing[o] EXCEPT !.fate = f]
  <2>8. /\ s \in Session /\ s.st = losing[o].st /\ s.by = losing[o].by /\ s.fate = f
        /\ s.thread = losing[o].thread /\ s.engine = losing[o].engine /\ s.live = losing[o].live
    BY <2>6 DEF Session
  <2>9. obj' = [losing EXCEPT ![o] = s]
    BY <2>2, <2>5, <2>7
  <2> HIDE DEF s
  <2>10. obj' \in [Objects -> Session] /\ obj'[o] = s /\ \A p \in Objects \ {o} : obj'[p] = losing[p]
    BY <2>6, <2>8, <2>9
  <2>11. ASSUME NEW p \in Objects
         PROVE  /\ obj'[p].st = obj[p].st /\ obj'[p].by = obj[p].by /\ obj'[p].live = obj[p].live
                /\ obj'[p].thread = obj[p].thread /\ obj'[p].engine = obj[p].engine
                /\ p = o => obj'[p].fate = f
                /\ p # o => obj'[p].fate = IF p \in Forgotten(table) /\ obj[p].st = "open" THEN "dropped"
                                           ELSE obj[p].fate
    BY <2>6, <2>8, <2>10 DEF Objs
  <2>12. Ranges' /\ Known'
    BY <1>1, <2>2, <2>3, <2>4, <2>10, <2>11 DEF Ranges, Known, Starts
  <2>13. sessions' = [sessions EXCEPT ![obj[o].thread] = o]
    BY <2>2 DEF table
  <2>14. \A p \in Objects :
           obj'[p].fate = IF p = o THEN IF Mourned(obj[o].engine) THEN "late" ELSE "none"
                          ELSE IF p \in Forgotten(sessions') /\ obj[p].st = "open" THEN "dropped"
                          ELSE obj[p].fate
    BY <2>2, <2>7, <2>11
  <2>15. Registers(c)
    BY <2>1, <2>2, <2>3, <2>11, <2>13, <2>14 DEF Registers
  <2> QED
    BY <2>12, <2>15
<1> QED
  BY <1>4, <1>5, <1>6, <1>7

\* The answer of an engine to a call.
LEMMA AnswerEffects ==
  ASSUME Types, NEW c \in Starters, NEW e \in Engines, Answer(e, c), start[c].at # "handshake"
  PROVE  Ranges' /\ Known' /\ Receives(c, e)
<1>1. Ranges /\ Known /\ made \in 0 .. MaxEngines /\ MaxEngines \in Nat /\ start[c] \in Starter
  BY EngineRange DEF Types, Ranges
<1>2. PICK o \in Objects, t \in Threads :
        /\ obj[o].st = "unmade"
        /\ obj' = [obj EXCEPT ![o] = [Unmade EXCEPT !.thread = t, !.engine = e, !.st = "open"]]
        /\ start' = [start EXCEPT ![c].at = "register", ![c].obj = o]
  BY DEF Answer, Fresh, Steps
<1>3. start[c].at = "waiting" /\ start[c].engine = e /\ e \in running
      /\ UNCHANGED <<holder, client, sessions, made, running, dead, reader, panicked>>
  BY DEF Answer, Steps, Profile, Process
<1>4. e \in 1 .. made /\ e \in 0 .. made /\ e \in 0 .. MaxEngines
  BY <1>1, <1>3 DEF Ranges
<1> DEFINE s == [Unmade EXCEPT !.thread = t, !.engine = e, !.st = "open"]
           r == [start[c] EXCEPT !.at = "register", !.obj = o]
<1>5. /\ s \in Session /\ s.st = "open" /\ s.by = "nobody" /\ s.live = FALSE /\ s.thread = t
      /\ s.engine = e /\ s.fate = "none"
  BY <1>4 DEF Unmade, Session, States, Fates
<1>6. r \in Starter /\ r.at = "register" /\ r.engine = e /\ r.obj = o
  BY <1>1, <1>3 DEF Starter, StartSteps
<1>7. obj' = [obj EXCEPT ![o] = s] /\ start' = [start EXCEPT ![c] = r]
  BY <1>1, <1>2 DEF Ranges
<1> HIDE DEF s, r
<1>8. obj' \in [Objects -> Session] /\ obj'[o] = s /\ \A p \in Objects \ {o} : obj'[p] = obj[p]
  BY <1>1, <1>5, <1>7, ObjWith
<1>9. Starts(c, "register", e, o)
  BY <1>1, <1>6, <1>7 DEF Starts, Ranges
<1>10. Ranges' /\ Known'
  BY <1>1, <1>3, <1>4, <1>5, <1>8, <1>9 DEF Ranges, Known, Starts
<1> QED
  BY <1>2, <1>3, <1>4, <1>5, <1>8, <1>9, <1>10 DEF Receives

\* A variable that is left alone stays in its range.
LEMMA RangesByParts ==
  ASSUME Ranges, holder' \in Starters \cup {None}, client' \in 0 .. made,
         sessions' \in [Threads -> Objects \cup {None}], made' = made, running' \subseteq running,
         dead' \subseteq (1 .. made) \ running', reader' \in [Engines -> Reader],
         start' \in [Starters -> Starter], obj' \in [Objects -> Session], panicked' \in BOOLEAN
  PROVE  Ranges'
  BY DEF Ranges

\* What follows an emit by the loop of e.
LEMMA EmittedEffect ==
  ASSUME Types, NEW e \in Engines, reader[e].step \in {"check", "send"},
         reader' = [reader EXCEPT ![e] = Emitted(reader[e])]
  PROVE  \/ reader[e].why = "notification" /\ Reading(e, "read", "notification", None, {})
         \/ reader[e].why = "error" /\ Reading(e, "check", "done", reader[e].at, reader[e].left)
         \/ reader[e].why = "done" /\ Reading(e, "close", "done", reader[e].at, reader[e].left)
<1>1. Ranges /\ reader[e] \in Reader
  BY DEF Types, Ranges
<1>2. CASE reader[e].why = "notification"
  <2>1. reader' = [reader EXCEPT ![e] = Asleep]
    BY <1>2 DEF Emitted
  <2> QED
    BY <1>1, <1>2, <2>1, ReadsAsleep
<1>3. CASE reader[e].why = "error"
  <2> DEFINE r == [reader[e] EXCEPT !.step = "check", !.why = "done"]
  <2>1. /\ r \in Reader /\ r.step = "check" /\ r.why = "done" /\ r.at = reader[e].at
        /\ r.left = reader[e].left /\ r.thread = reader[e].thread
    BY <1>1 DEF Reader, ReadSteps
  <2>2. reader' = [reader EXCEPT ![e] = r]
    BY <1>3 DEF Emitted
  <2> HIDE DEF r
  <2> QED
    BY <1>1, <1>3, <2>1, <2>2 DEF Ranges, Reading
<1>4. CASE reader[e].why = "done"
  <2> DEFINE r == [reader[e] EXCEPT !.step = "close"]
  <2>1. /\ r \in Reader /\ r.step = "close" /\ r.why = "done" /\ r.at = reader[e].at
        /\ r.left = reader[e].left /\ r.thread = reader[e].thread
    BY <1>1, <1>4 DEF Reader, ReadSteps
  <2>2. reader' = [reader EXCEPT ![e] = r]
    BY <1>4 DEF Emitted
  <2> HIDE DEF r
  <2> QED
    BY <1>1, <1>4, <2>1, <2>2 DEF Ranges, Reading
<1> QED
  BY <1>1, <1>2, <1>3, <1>4 DEF Reader

\* The read loop while it has lines, and emits.
LEMMA LoopEffects ==
  ASSUME Types, NEW e \in Engines,
         \/ Route(e) \/ ReaderChecks(e) \/ ReaderSends(e) \/ ReaderPanics(e) \/ Exit(e)
         \/ \E t \in Threads : Notified(e, t)
  PROVE  Ranges' /\ Known' /\ (Listens(e) \/ Emits(e))
<1>1. /\ Ranges /\ reader[e] \in Reader /\ Known /\ ReaderHolds(e)
      /\ reader \in [Engines -> Reader]
  BY DEF Types, Ranges
<1>2. ASSUME reader' \in [Engines -> Reader],
             UNCHANGED <<Profile, Process, start, obj, panicked>>
      PROVE  Ranges' /\ Known' /\ UNCHANGED <<sessions, start, obj, made>>
  BY <1>1, <1>2 DEF Ranges, Known, Profile, Process
<1>3. CASE Route(e)
  <2>1. PICK o : o = sessions[reader[e].thread]
    OBVIOUS
  <2>2. /\ reader[e].step = "lookup" /\ reader[e].thread \in Threads
        /\ UNCHANGED <<Profile, Process, start, obj, panicked>>
        /\ reader' = [reader EXCEPT ![e] = IF o = None THEN Asleep
                                     ELSE [Asleep EXCEPT !.step = "check", !.at = o]]
    BY <1>1, <1>3, <2>1 DEF Route, ReaderHolds
  <2>3. CASE o = None
    <3>1. reader' = [reader EXCEPT ![e] = Asleep]
      BY <2>2, <2>3
    <3>2. Reading(e, "read", "notification", None, {})
      BY <1>1, <3>1, ReadsAsleep
    <3>3. reader' \in [Engines -> Reader]
      BY <3>2 DEF Reading
    <3> QED
      BY <1>2, <2>2, <3>2, <3>3 DEF Listens, Reading
  <2>4. CASE o # None
    <3>1. o \in Objects
      BY <1>1, <2>1, <2>2, <2>4 DEF Ranges
    <3> DEFINE r == [Asleep EXCEPT !.step = "check", !.at = o]
    <3>2. /\ r \in Reader /\ r.step = "check" /\ r.why = "notification" /\ r.at = o
          /\ r.left = {} /\ r.thread = None
      BY <3>1 DEF Asleep, Reader, ReadSteps
    <3>3. reader' = [reader EXCEPT ![e] = r]
      BY <2>2, <2>4
    <3> HIDE DEF r
    <3>4. Reading(e, "check", "notification", o, {}) /\ reader' \in [Engines -> Reader]
      BY <1>1, <3>2, <3>3 DEF Reading
    <3>5. Ranges' /\ Known' /\ UNCHANGED <<sessions, start, obj, made>>
      BY <1>2, <2>2, <3>4
    <3> QED
      BY <2>1, <2>2, <3>1, <3>4, <3>5 DEF Listens
  <2> QED
    BY <2>3, <2>4
<1>4. CASE ReaderChecks(e)
  <2>1. reader[e].step = "check" /\ UNCHANGED <<Profile, Process, start, obj, panicked>>
    BY <1>4 DEF ReaderChecks
  <2>2. CASE obj[reader[e].at].st = "open"
    <3>1. reader' = [reader EXCEPT ![e].step = "send"]
      BY <1>1, <1>4, <2>2 DEF ReaderChecks
    <3>2. "send" \in ReadSteps
      BY DEF ReadSteps
    <3>3. Reading(e, "send", reader[e].why, reader[e].at, reader[e].left)
      BY <1>1, <3>1, <3>2, ReadsTo
    <3>4. reader' \in [Engines -> Reader]
      BY <3>3 DEF Reading
    <3> QED
      BY <1>2, <2>1, <3>3, <3>4 DEF Emits
  <2>3. CASE obj[reader[e].at].st # "open"
    <3>1. reader' = [reader EXCEPT ![e] = Emitted(reader[e])]
      BY <1>1, <1>4, <2>3 DEF ReaderChecks
    <3>2. \/ reader[e].why = "notification" /\ Reading(e, "read", "notification", None, {})
          \/ reader[e].why = "error" /\ Reading(e, "check", "done", reader[e].at, reader[e].left)
          \/ reader[e].why = "done" /\ Reading(e, "close", "done", reader[e].at, reader[e].left)
      BY <2>1, <3>1, EmittedEffect
    <3>3. reader' \in [Engines -> Reader]
      BY <3>2 DEF Reading
    <3> QED
      BY <1>2, <2>1, <3>2, <3>3 DEF Emits
  <2> QED
    BY <2>2, <2>3
<1>5. CASE ReaderSends(e)
  <2>1. /\ reader[e].step = "send" /\ UNCHANGED <<Profile, Process, start, obj, panicked>>
        /\ reader' = [reader EXCEPT ![e] = Emitted(reader[e])]
    BY <1>1, <1>5 DEF ReaderSends
  <2>2. \/ reader[e].why = "notification" /\ Reading(e, "read", "notification", None, {})
        \/ reader[e].why = "error" /\ Reading(e, "check", "done", reader[e].at, reader[e].left)
        \/ reader[e].why = "done" /\ Reading(e, "close", "done", reader[e].at, reader[e].left)
    BY <2>1, EmittedEffect
  <2>3. reader' \in [Engines -> Reader]
    BY <2>2 DEF Reading
  <2> QED
    BY <1>2, <2>1, <2>2, <2>3 DEF Emits
<1>6. CASE ReaderPanics(e)
  BY <1>1, <1>6 DEF ReaderPanics, Listens, Ranges, Known, Profile, Process
<1>7. CASE Exit(e)
  <2>1. running' \subseteq running /\ UNCHANGED <<holder, client, sessions, made, dead, reader, start, obj, panicked>>
    BY <1>7 DEF Exit, Profile
  <2>2. Ranges'
    BY <1>1, <2>1 DEF Ranges
  <2> QED
    BY <1>1, <2>1, <2>2 DEF Listens, Known
<1>8. CASE \E t \in Threads : Notified(e, t)
  <2>1. PICK t \in Threads : Notified(e, t)
    BY <1>8
  <2> DEFINE r == [reader[e] EXCEPT !.step = "lookup", !.thread = t]
  <2>2. /\ r \in Reader /\ r.step = "lookup" /\ r.thread = t /\ r.why = reader[e].why
        /\ r.at = reader[e].at /\ r.left = reader[e].left
    BY <1>1 DEF Reader, ReadSteps
  <2>3. /\ reader' = [reader EXCEPT ![e] = r] /\ reader[e].step = "read"
        /\ UNCHANGED <<Profile, Process, start, obj, panicked>>
    BY <1>1, <2>1 DEF Notified
  <2> HIDE DEF r
  <2>4. /\ reader' \in [Engines -> Reader] /\ reader'[e] = r
        /\ \A f \in Engines \ {e} : reader'[f] = reader[f]
    BY <1>1, <2>2, <2>3
  <2>5. Ranges' /\ Known' /\ UNCHANGED <<sessions, start, obj, made>>
    BY <1>2, <2>3, <2>4
  <2>6. /\ reader'[e].step \in {"lookup", "read"} /\ reader'[e].thread \in Threads
        /\ reader'[e].why \in {reader[e].why, "notification"}
        /\ reader'[e].at \in {reader[e].at, None} /\ reader'[e].left \in {reader[e].left, {}}
    BY <2>2, <2>4
  <2> QED
    BY <2>3, <2>4, <2>5, <2>6 DEF Listens
<1> QED
  BY <1>3, <1>4, <1>5, <1>6, <1>7, <1>8

\* The callers that engine e will not answer.
LEMMA FailedEffect ==
  ASSUME Types, NEW e \in Engines, start' = Failed(e)
  PROVE  /\ start' \in [Starters -> Starter]
         /\ \A c \in Starters :
              \/ start'[c] = start[c]
              \/ /\ start[c].at \in {"handshake", "waiting"} /\ start'[c].at \in {"refused", "idle"}
                 /\ start'[c].engine \in {0, start[c].engine}
<1>1. \A c \in Starters : start[c] \in Starter
  BY DEF Types, Ranges
<1>2. ASSUME NEW c \in Starters
      PROVE  /\ start'[c] \in Starter
             /\ \/ start'[c] = start[c]
                \/ /\ start[c].at \in {"handshake", "waiting"} /\ start'[c].at \in {"refused", "idle"}
                   /\ start'[c].engine \in {0, start[c].engine}
  <2>1. CASE start[c].engine = e /\ start[c].at = "handshake"
    <3>1. start'[c] = [start[c] EXCEPT !.at = "refused"]
      BY <2>1 DEF Failed
    <3> QED
      BY <1>1, <2>1, <3>1 DEF Starter, StartSteps
  <2>2. CASE start[c].engine = e /\ start[c].at = "waiting"
    <3>1. start'[c] = Idle
      BY <2>2 DEF Failed
    <3>2. Idle \in Starter /\ Idle.at = "idle" /\ Idle.engine = 0
      BY EngineRange DEF Idle, Starter, StartSteps
    <3> QED
      BY <2>2, <3>1, <3>2
  <2>3. CASE start[c].engine # e \/ start[c].at \notin {"handshake", "waiting"}
    <3>1. start'[c] = start[c]
      BY <2>3 DEF Failed
    <3> QED
      BY <1>1, <3>1
  <2> QED
    BY <2>1, <2>2, <2>3
<1> QED
  BY <1>2 DEF Failed

\* The read loop after the last line, but for Close.
LEMMA DeathEffects ==
  ASSUME Types, NEW e \in Engines, EndOfLines(e) \/ Mourn(e) \/ NextOfSnapshot(e)
  PROVE  Ranges' /\ Known' /\ (Fails(e) \/ Mourns(e) \/ Turns(e))
<1>1. Ranges /\ reader[e] \in Reader /\ Known /\ made \in 0 .. MaxEngines /\ MaxEngines \in Nat
  BY EngineRange DEF Types, Ranges
<1>2. {"mourn", "next", "check", "over"} \subseteq ReadSteps
  BY DEF ReadSteps
<1>3. CASE EndOfLines(e)
  <2>1. /\ e \in 1 .. made /\ e \notin running /\ reader[e].step = "read"
        /\ reader' = [reader EXCEPT ![e].step = "mourn"] /\ dead' = dead \cup {e} /\ start' = Failed(e)
        /\ UNCHANGED <<holder, client, sessions, made, running, obj, panicked>>
    BY <1>3 DEF EndOfLines, Reads, Profile
  <2>2. Reading(e, "mourn", reader[e].why, reader[e].at, reader[e].left)
    BY <1>1, <1>2, <2>1, ReadsTo
  <2>3. /\ start' \in [Starters -> Starter]
        /\ \A c \in Starters :
              \/ start'[c] = start[c]
              \/ /\ start[c].at \in {"handshake", "waiting"} /\ start'[c].at \in {"refused", "idle"}
                 /\ start'[c].engine \in {0, start[c].engine}
    BY <2>1, FailedEffect
  <2>4. dead' \subseteq (1 .. made) \ running' /\ client' \in 0 .. made
    BY <1>1, <2>1 DEF Ranges
  <2>5. Ranges'
    BY <1>1, <2>1, <2>2, <2>3, <2>4, RangesByParts DEF Ranges, Reading
  <2> QED
    BY <1>1, <2>1, <2>2, <2>3, <2>5 DEF Fails, Known
<1>4. CASE Mourn(e)
  <2> DEFINE all == {o \in Objects : \E t \in Threads : sessions[t] = o}
  <2>1. /\ reader[e].step = "mourn" /\ sessions' = Empty /\ client' = 0
        /\ reader' = [reader EXCEPT ![e].step = "next", ![e].left = all]
        /\ UNCHANGED <<holder, made, running, dead, start, obj, panicked>>
    BY <1>4 DEF Mourn, Process
  <2> DEFINE r == [reader[e] EXCEPT !.step = "next", !.left = all]
  <2>2. all \in SUBSET Objects
    OBVIOUS
  <2> HIDE DEF all
  <2>3. /\ r \in Reader /\ r.step = "next" /\ r.why = reader[e].why /\ r.at = reader[e].at
        /\ r.left = all /\ r.thread = reader[e].thread
    BY <1>1, <1>2, <2>2 DEF Reader
  <2>4. reader' = [reader EXCEPT ![e] = r]
    BY <1>1, <2>1 DEF Ranges
  <2> HIDE DEF r
  <2>5. Reading(e, "next", reader[e].why, reader[e].at, all)
    BY <1>1, <2>3, <2>4 DEF Reading, Ranges
  <2>6. Empty \in [Threads -> Objects \cup {None}] /\ client' \in 0 .. made
    BY <1>1, <2>1 DEF Empty
  <2>7. Ranges'
    BY <1>1, <2>1, <2>5, <2>6, RangesByParts DEF Ranges, Reading
  <2> QED
    BY <1>1, <2>1, <2>5, <2>7 DEF Mourns, Known, all
<1>5. CASE NextOfSnapshot(e)
  <2>1. reader[e].step = "next" /\ UNCHANGED <<Profile, Process, start, obj, panicked>>
    BY <1>5 DEF NextOfSnapshot
  <2>2. ASSUME reader' \in [Engines -> Reader]
        PROVE  Ranges' /\ Known' /\ UNCHANGED <<sessions, start, obj, made>>
    BY <1>1, <2>1, <2>2 DEF Ranges, Known, Profile, Process
  <2>3. CASE reader[e].left = {}
    <3>1. reader' = [reader EXCEPT ![e].step = "over"]
      BY <1>5, <2>3 DEF NextOfSnapshot
    <3>2. Reading(e, "over", reader[e].why, reader[e].at, reader[e].left)
      BY <1>1, <1>2, <3>1, ReadsTo
    <3>3. Ranges' /\ Known' /\ UNCHANGED <<sessions, start, obj, made>>
      BY <2>2, <3>2 DEF Reading
    <3> QED
      BY <2>1, <2>3, <3>2, <3>3 DEF Turns
  <2>4. CASE reader[e].left # {}
    <3>1. PICK o \in reader[e].left :
            reader' = [reader EXCEPT ![e] = [reader[e] EXCEPT !.step = "check",
                       !.why = "error", !.at = o, !.left = reader[e].left \ {o}]]
      BY <1>5, <2>4 DEF NextOfSnapshot
    <3> DEFINE r == [reader[e] EXCEPT !.step = "check", !.why = "error", !.at = o,
                                      !.left = reader[e].left \ {o}]
    <3>2. reader[e].left \in SUBSET Objects
      BY <1>1 DEF Reader
    <3>3. /\ r \in Reader /\ r.step = "check" /\ r.why = "error" /\ r.at = o
          /\ r.left = reader[e].left \ {o} /\ r.thread = reader[e].thread
      BY <1>1, <1>2, <3>2 DEF Reader
    <3>4. reader' = [reader EXCEPT ![e] = r]
      BY <3>1
    <3> HIDE DEF r
    <3>5. Reading(e, "check", "error", o, reader[e].left \ {o})
      BY <1>1, <3>3, <3>4 DEF Reading, Ranges
    <3>6. Ranges' /\ Known' /\ UNCHANGED <<sessions, start, obj, made>>
      BY <2>2, <3>5 DEF Reading
    <3> QED
      BY <2>1, <3>1, <3>5, <3>6 DEF Turns
  <2> QED
    BY <2>3, <2>4
<1> QED
  BY <1>3, <1>4, <1>5

\* A session that begins to close.
LEMMA Closing ==
  ASSUME Ranges, NEW o \in Objects, NEW who \in {"manager", "reader"},
         obj' = [obj EXCEPT ![o].st = "closing", ![o].by = who]
  PROVE  /\ obj' \in [Objects -> Session] /\ obj'[o].st = "closing" /\ obj'[o].by = who
         /\ obj'[o].live = obj[o].live /\ obj'[o].thread = obj[o].thread
         /\ obj'[o].engine = obj[o].engine /\ obj'[o].fate = obj[o].fate
         /\ \A p \in Objects \ {o} : obj'[p] = obj[p]
<1> DEFINE s == [obj[o] EXCEPT !.st = "closing", !.by = who]
<1>1. obj[o] \in Session
  BY DEF Ranges
<1>2. /\ s \in Session /\ s.st = "closing" /\ s.by = who /\ s.live = obj[o].live
      /\ s.thread = obj[o].thread /\ s.engine = obj[o].engine /\ s.fate = obj[o].fate
  BY <1>1 DEF Session, States
<1>3. obj' = [obj EXCEPT ![o] = s]
  BY DEF Ranges
<1> HIDE DEF s
<1> QED
  BY <1>2, <1>3, ObjWith

\* Unregister takes one session off the map of its thread.
LEMMA Unlisting ==
  ASSUME Ranges, NEW o \in Objects, Unregister(o)
  PROVE  /\ obj' \in [Objects -> Session] /\ Unlists(o)
         /\ sessions' \in [Threads -> Objects \cup {None}]
<1> DEFINE table == [sessions EXCEPT ![obj[o].thread] = None]
<1>1. /\ sessions' = table
      /\ obj' = [Losing(Forgotten(table)) EXCEPT ![o].st = "unregistered"]
  BY DEF Unregister
<1>2. table \in [Threads -> Objects \cup {None}]
  BY DEF Ranges
<1>3. sessions' = [sessions EXCEPT ![obj[o].thread] = None]
  BY <1>1
<1> HIDE DEF table
<1>4. PICK losing : losing = Losing(Forgotten(table))
  OBVIOUS
<1>5. losing \in [Objects -> Session] /\ Objs(losing, Forgotten(table))
  BY <1>4, LosingEffect
<1> DEFINE s == [losing[o] EXCEPT !.st = "unregistered"]
<1>6. /\ s \in Session /\ s.st = "unregistered" /\ s.by = losing[o].by /\ s.fate = losing[o].fate
      /\ s.thread = losing[o].thread /\ s.engine = losing[o].engine /\ s.live = losing[o].live
  BY <1>5 DEF Session, States
<1>7. obj' = [losing EXCEPT ![o] = s]
  BY <1>1, <1>4
<1> HIDE DEF s
<1>8. obj' \in [Objects -> Session] /\ obj'[o] = s /\ \A p \in Objects \ {o} : obj'[p] = losing[p]
  BY <1>5, <1>6, <1>7
<1>9. ASSUME NEW p \in Objects
      PROVE  /\ obj'[p].st = (IF p = o THEN "unregistered" ELSE obj[p].st)
             /\ obj'[p].by = obj[p].by /\ obj'[p].live = obj[p].live
             /\ obj'[p].thread = obj[p].thread /\ obj'[p].engine = obj[p].engine
             /\ obj'[p].fate = IF p \in Forgotten(table) /\ obj[p].st = "open" THEN "dropped"
                               ELSE obj[p].fate
  BY <1>5, <1>6, <1>8 DEF Objs
<1> QED
  BY <1>1, <1>2, <1>3, <1>8, <1>9 DEF Unlists

\* Shut closes the channel of one session.
LEMMA Shutting ==
  ASSUME Ranges, NEW o \in Objects, Shut(o)
  PROVE  obj' \in [Objects -> Session] /\ Shuts(o)
<1> DEFINE s == [Unmade EXCEPT !.st = "shut", !.engine = obj[o].engine, !.live = obj[o].live]
<1>1. obj[o] \in Session
  BY DEF Ranges
<1>2. /\ s \in Session /\ s.st = "shut" /\ s.by = "nobody" /\ s.fate = "none"
      /\ s.live = obj[o].live /\ s.engine = obj[o].engine
  BY <1>1 DEF Unmade, Session, States, Fates
<1>3. obj' = [obj EXCEPT ![o] = s]
  BY DEF Shut
<1> HIDE DEF s
<1> QED
  BY <1>2, <1>3, ObjWith DEF Shuts

\* Close, by a read loop and by the manager.
LEMMA CloseEffects ==
  ASSUME Types, NEW e \in Engines, ReaderCloses(e) \/ ReaderUnregisters(e) \/ ReaderShuts(e)
  PROVE  Ranges' /\ Known' /\ (Ends(e) \/ ReaderUnlists(e) \/ ReaderShutsIt(e))
<1>1. /\ Ranges /\ reader[e] \in Reader /\ Known
      /\ reader[e].step \in {"close", "unregister", "shut"} => reader[e].at \in Objects
  BY DEF Types, Ranges, ReaderHolds
<1>2. {"unregister", "shut", "next"} \subseteq ReadSteps
  BY DEF ReadSteps
<1>3. PICK o : o = reader[e].at
  OBVIOUS
<1>4. CASE /\ Reads(e, "close", "unregister") /\ obj[o].st = "open"
           /\ obj' = [obj EXCEPT ![o].st = "closing", ![o].by = "reader"]
           /\ UNCHANGED <<Profile, Process, start, panicked>>
  <2>1. o \in Objects /\ reader[e].step = "close"
    BY <1>1, <1>3, <1>4 DEF Reads
  <2>2. Reading(e, "unregister", reader[e].why, reader[e].at, reader[e].left)
    BY <1>1, <1>2, <1>4, ReadsTo DEF Reads
  <2>3. /\ obj' \in [Objects -> Session] /\ obj'[o].st = "closing" /\ obj'[o].by = "reader"
        /\ obj'[o].live = obj[o].live /\ obj'[o].thread = obj[o].thread
        /\ obj'[o].engine = obj[o].engine /\ obj'[o].fate = obj[o].fate
        /\ \A p \in Objects \ {o} : obj'[p] = obj[p]
    BY <1>1, <1>4, <2>1, Closing
  <2>4. Ranges' /\ Known'
    BY <1>1, <1>4, <2>1, <2>2, <2>3 DEF Ranges, Known, Reading, Profile, Process
  <2> QED
    BY <1>3, <1>4, <2>1, <2>2, <2>3, <2>4 DEF Ends, Profile, Process
<1>5. CASE /\ Done(e, "close") /\ obj[o].st # "open"
           /\ UNCHANGED <<obj, Profile, Process, start, panicked>>
  <2>1. Reading(e, "next", "notification", None, reader[e].left) /\ reader[e].step = "close"
    BY <1>1, <1>5, ReadsNext
  <2>2. Ranges' /\ Known'
    BY <1>1, <1>5, <2>1 DEF Ranges, Known, Reading, Profile, Process
  <2> QED
    BY <1>3, <1>5, <2>1, <2>2 DEF Ends, Profile, Process
<1>6. CASE ReaderUnregisters(e)
  <2>1. reader[e].step = "unregister" /\ o \in Objects /\ Unregister(o)
    BY <1>1, <1>3, <1>6 DEF ReaderUnregisters, Reads
  <2>2. Reading(e, "shut", reader[e].why, reader[e].at, reader[e].left)
    BY <1>1, <1>2, <1>6, ReadsTo DEF ReaderUnregisters, Reads
  <2>3. /\ obj' \in [Objects -> Session] /\ Unlists(o)
        /\ sessions' \in [Threads -> Objects \cup {None}]
    BY <1>1, <2>1, Unlisting
  <2>4. UNCHANGED <<holder, client, made, running, dead, start, panicked>>
    BY <1>6 DEF ReaderUnregisters, Process
  <2>5. Ranges' /\ Known'
    BY <1>1, <2>2, <2>3, <2>4 DEF Ranges, Known, Reading, Unlists
  <2> QED
    BY <1>3, <2>1, <2>2, <2>3, <2>4, <2>5 DEF ReaderUnlists
<1>7. CASE ReaderShuts(e)
  <2>1. Reading(e, "next", "notification", None, reader[e].left) /\ reader[e].step = "shut"
    BY <1>1, <1>7, ReadsNext DEF ReaderShuts
  <2>2. o \in Objects /\ Shut(o) /\ UNCHANGED <<Profile, Process, start, panicked>>
    BY <1>1, <1>3, <1>7, <2>1 DEF ReaderShuts
  <2>3. obj' \in [Objects -> Session] /\ Shuts(o)
    BY <1>1, <2>2, Shutting
  <2>4. Ranges' /\ Known'
    BY <1>1, <2>1, <2>2, <2>3 DEF Ranges, Known, Reading, Shuts, Profile, Process
  <2> QED
    BY <1>3, <2>1, <2>2, <2>3, <2>4 DEF ReaderShutsIt, Profile, Process
<1> QED
  BY <1>3, <1>4, <1>5, <1>6, <1>7 DEF ReaderCloses

\* The manager's steps keep the types and have the effect of ManagerSteps.
LEMMA ManagerEffects ==
  ASSUME Types, NEW o \in Objects, ManagerCloses(o) \/ ManagerUnregisters(o) \/ ManagerShuts(o)
  PROVE  Ranges' /\ Known' /\ ManagerSteps(o)
<1>1. Ranges /\ Known
  BY DEF Types
<1>2. CASE ManagerCloses(o)
  <2>1. obj[o].live /\ obj[o].st = "open" /\ obj' = [obj EXCEPT ![o].st = "closing", ![o].by = "manager"]
        /\ UNCHANGED <<Profile, Process, reader, start, panicked>>
    BY <1>2 DEF ManagerCloses
  <2>2. /\ obj' \in [Objects -> Session] /\ obj'[o].st = "closing" /\ obj'[o].by = "manager"
        /\ obj'[o].live = obj[o].live /\ obj'[o].thread = obj[o].thread
        /\ obj'[o].engine = obj[o].engine /\ obj'[o].fate = obj[o].fate
        /\ \A p \in Objects \ {o} : obj'[p] = obj[p]
    BY <1>1, <2>1, Closing
  <2>3. Ranges' /\ Known'
    BY <1>1, <2>1, <2>2 DEF Ranges, Known, Profile, Process
  <2> QED
    BY <2>1, <2>2, <2>3 DEF ManagerEnds, ManagerSteps, Profile, Process
<1>3. CASE ManagerUnregisters(o)
  <2>1. /\ obj[o].st = "closing" /\ obj[o].by = "manager" /\ Unregister(o)
        /\ UNCHANGED <<holder, client, made, running, dead, reader, start, panicked>>
    BY <1>3 DEF ManagerUnregisters, Process
  <2>2. /\ obj' \in [Objects -> Session] /\ Unlists(o)
        /\ sessions' \in [Threads -> Objects \cup {None}]
    BY <1>1, <2>1, Unlisting
  <2>3. Ranges' /\ Known'
    BY <1>1, <2>1, <2>2 DEF Ranges, Known, Unlists
  <2> QED
    BY <2>1, <2>2, <2>3 DEF ManagerUnlists, ManagerSteps
<1>4. CASE ManagerShuts(o)
  <2>1. /\ obj[o].st = "unregistered" /\ obj[o].by = "manager" /\ Shut(o)
        /\ UNCHANGED <<Profile, Process, reader, start, panicked>>
    BY <1>4 DEF ManagerShuts
  <2>2. obj' \in [Objects -> Session] /\ Shuts(o)
    BY <1>1, <2>1, Shutting
  <2>3. Ranges' /\ Known'
    BY <1>1, <2>1, <2>2 DEF Ranges, Known, Shuts, Profile, Process
  <2> QED
    BY <2>1, <2>2, <2>3 DEF ManagerShutsIt, ManagerSteps, Profile, Process
<1> QED
  BY <1>2, <1>3, <1>4

Effects == \/ \E c \in Starters : StarterSteps(c) \/ \E e \in Engines : Receives(c, e)
           \/ \E e \in Engines : ReaderSteps(e)
           \/ \E o \in Objects : ManagerSteps(o)
           \/ UNCHANGED <<Shared, start, made>>

\* Every step keeps the ranges and is one of the Effects, which the other layers are
\* proved from.
LEMMA NextEffects ==
  ASSUME Types, [Next]_vars
  PROVE  Ranges' /\ Known' /\ Effects
<1>1. ASSUME NEW c \in Starters, Begin(c) \/ Proceeds(c) \/ Call(c) \/ CallFails(c)
                                   \/ \E o \in Objects : Fork(c, o)
      PROVE  Ranges' /\ Known' /\ Effects
  <2>1. \/ Begin(c) \/ Reuse(c) \/ Launch(c) \/ LaunchFails(c) \/ HandshakeFails(c) \/ Refuse(c)
        \/ Call(c) \/ CallFails(c) \/ StarterPanics(c) \/ \E o \in Objects : Fork(c, o)
        \/ StarterChecks(c) \/ StarterSends(c) \/ Install(c) \/ Register(c)
    BY <1>1 DEF Proceeds
  <2>2. Ranges' /\ Known' /\ StarterSteps(c)
    BY <2>1, ApproachEffects, SessionEffects DEF StarterSteps
  <2> QED
    BY <2>2 DEF Effects
<1>2. ASSUME NEW c \in Starters, NEW e \in Engines, Answer(e, c)
      PROVE  Ranges' /\ Known' /\ Effects
  <2>1. CASE start[c].at = "handshake"
    <3>1. Ranges' /\ Known' /\ Approaches(c)
      BY <1>2, <2>1, ApproachEffects
    <3> QED
      BY <3>1 DEF Effects, StarterSteps
  <2>2. CASE start[c].at # "handshake"
    <3>1. Ranges' /\ Known' /\ Receives(c, e)
      BY <1>2, <2>2, AnswerEffects
    <3> QED
      BY <3>1 DEF Effects
  <2> QED
    BY <2>1, <2>2
<1>3. ASSUME NEW e \in Engines, ReadLoop(e) \/ Exit(e) \/ \E t \in Threads : Notified(e, t)
      PROVE  Ranges' /\ Known' /\ Effects
  <2>1. \/ Route(e) \/ ReaderChecks(e) \/ ReaderSends(e) \/ ReaderPanics(e) \/ Exit(e)
        \/ \E t \in Threads : Notified(e, t)
        \/ EndOfLines(e) \/ Mourn(e) \/ NextOfSnapshot(e)
        \/ ReaderCloses(e) \/ ReaderUnregisters(e) \/ ReaderShuts(e)
    BY <1>3 DEF ReadLoop
  <2>2. Ranges' /\ Known' /\ ReaderSteps(e)
    BY <2>1, LoopEffects, DeathEffects, CloseEffects DEF ReaderSteps
  <2> QED
    BY <2>2 DEF Effects
<1>4. ASSUME NEW o \in Objects, ManagerCloses(o) \/ ManagerUnregisters(o) \/ ManagerShuts(o)
      PROVE  Ranges' /\ Known' /\ Effects
  BY <1>4, ManagerEffects DEF Effects
<1>5. CASE UNCHANGED vars
  BY <1>5 DEF vars, Types, Ranges, Known, Effects, Shared
<1> QED
  BY <1>1, <1>2, <1>3, <1>4, <1>5 DEF Next

\* A read loop at work on a session keeps having one,
LEMMA ReaderHoldsKept ==
  ASSUME Types, Effects, NEW f \in Engines
  PROVE  ReaderHolds(f)'
<1>1. ReaderHolds(f) /\ sessions \in [Threads -> Objects \cup {None}]
      /\ reader[f].left \subseteq Objects
  BY DEF Types, Ranges, Reader
<1>2. CASE reader' = reader
  BY <1>1, <1>2 DEF ReaderHolds
<1>3. CASE \E e \in Engines : ReaderSteps(e)
  <2>1. PICK e \in Engines : ReaderSteps(e)
    BY <1>3
  <2>2. CASE f # e
    <3>1. reader'[f] = reader[f]
      BY <2>1, <2>2 DEF ReaderSteps, Listens, Emits, Fails, Mourns, Turns, Ends, ReaderUnlists,
                        ReaderShutsIt, Reading
    <3> QED
      BY <1>1, <3>1 DEF ReaderHolds
  <2>3. CASE f = e
    <3>1. CASE Listens(e)
      BY <1>1, <2>3, <3>1 DEF Listens, Reading, ReaderHolds
    <3>2. CASE Emits(e) \/ Fails(e) \/ Mourns(e)
      BY <1>1, <2>3, <3>2 DEF Emits, Fails, Mourns, Reading, ReaderHolds
    <3>3. CASE Turns(e)
      BY <1>1, <2>3, <3>3 DEF Turns, Reading, ReaderHolds
    <3>4. CASE Ends(e) \/ ReaderUnlists(e) \/ ReaderShutsIt(e)
      BY <1>1, <2>3, <3>4 DEF Ends, ReaderUnlists, ReaderShutsIt, Reading, ReaderHolds
    <3> QED
      BY <2>1, <3>1, <3>2, <3>3, <3>4 DEF ReaderSteps
  <2> QED
    BY <2>2, <2>3
<1> QED
  BY <1>2, <1>3 DEF Effects, StarterSteps, Approaches, Announces, Installs, Registers, Receives,
                    ManagerSteps, ManagerEnds, ManagerUnlists, ManagerShutsIt, Shared

\* and so does a starter.
LEMMA StarterHoldsKept ==
  ASSUME Types, Ranges', Effects, NEW d \in Starters
  PROVE  StarterHolds(d)'
<1>1. /\ StarterHolds(d) /\ made \in Nat /\ made' \in Nat
      /\ \A e \in 0 .. made : made' \in made .. MaxEngines => e \in 0 .. made'
  BY EngineRange DEF Types, Ranges
<1>2. made' \in made .. MaxEngines \/ made' = made
  BY DEF Effects, StarterSteps, Approaches, Announces, Installs, Registers, Receives, ReaderSteps,
         Listens, Emits, Fails, Mourns, Turns, Ends, ReaderUnlists, ReaderShutsIt, ManagerSteps,
         ManagerEnds, ManagerUnlists, ManagerShutsIt
<1>3. CASE start'[d] = start[d]
  BY <1>1, <1>2, <1>3 DEF StarterHolds
<1>4. CASE \E e \in Engines : Fails(e)
  <2>1. \/ start'[d] = start[d]
        \/ start'[d].at \in {"refused", "idle"} /\ start'[d].engine \in {0, start[d].engine}
    BY <1>4 DEF Fails
  <2>2. start'[d].engine \in {0, start[d].engine} /\ 0 \in 0 .. made'
    BY <1>1, <2>1
  <2> QED
    BY <1>1, <1>2, <2>1, <2>2 DEF StarterHolds
<1>5. CASE StarterSteps(d)
  <2>1. CASE Approaches(d)
    <3>1. CASE start' = start
      BY <1>3, <3>1
    <3>2. CASE start' # start
      <4>1. PICK to \in StartSteps \ {"register", "check", "send"}, e \in 0 .. made',
                 o \in Objects \cup {None} : Starts(d, to, e, o)
        BY <2>1, <3>2 DEF Approaches
      <4>2. start'[d].at \notin {"register", "check", "send"} /\ start'[d].engine \in 0 .. made'
        BY <4>1 DEF Starts
      <4> QED
        BY <4>2 DEF StarterHolds
    <3> QED
      BY <3>1, <3>2
  <2>2. CASE Announces(d) \/ Installs(d)
    <3>1. made' = made
      BY <2>2 DEF Announces, Installs
    <3>3. 0 \in 0 .. made'
      BY <1>1
    <3>2. \/ start'[d].at = "idle" /\ start'[d].engine = 0
          \/ start'[d].at = "call" /\ start'[d].engine = start[d].engine
          \/ /\ start'[d].at = "send" /\ start[d].at = "check"
             /\ start'[d].engine = start[d].engine /\ start'[d].obj = start[d].obj
      BY <2>2 DEF Announces, Installs, Starts
    <3> QED
      BY <1>1, <3>1, <3>2, <3>3 DEF StarterHolds
  <2>3. CASE Registers(d)
    BY <1>1, <2>3 DEF Registers, Starts, StarterHolds
  <2> QED
    BY <1>5, <2>1, <2>2, <2>3 DEF StarterSteps
<1>6. CASE \E e \in Engines : Receives(d, e)
  BY <1>1, <1>6 DEF Receives, Starts, StarterHolds
<1>7. CASE \E c \in Starters \ {d} : StarterSteps(c) \/ \E e \in Engines : Receives(c, e)
  <2>1. start'[d] = start[d]
    BY <1>7 DEF StarterSteps, Approaches, Announces, Installs, Registers, Receives, Starts
  <2> QED
    BY <1>3, <2>1
<1> QED
  BY <1>3, <1>4, <1>5, <1>6, <1>7
     DEF Effects, ReaderSteps, Listens, Emits, Mourns, Turns, Ends, ReaderUnlists, ReaderShutsIt,
         ManagerSteps, ManagerEnds, ManagerUnlists, ManagerShutsIt

\* The types hold at first,
LEMMA InitTypes == Init => Types
<1> SUFFICES ASSUME Init PROVE Types
  OBVIOUS
<1>1. /\ Asleep \in Reader /\ Asleep.step = "read"
      /\ Unmade \in Session /\ Unmade.engine = 0
      /\ Idle \in Starter /\ Idle.at = "idle" /\ Idle.engine = 0
  BY EngineRange DEF Asleep, Reader, ReadSteps, Unmade, Session, States, Fates, Idle, Starter,
                     StartSteps
<1>2. /\ holder \in Starters \cup {None} /\ client \in 0 .. made /\ made \in 0 .. MaxEngines
      /\ running \subseteq 1 .. made /\ dead \subseteq (1 .. made) \ running /\ panicked \in BOOLEAN
      /\ sessions \in [Threads -> Objects \cup {None}]
  <2>1. holder = None /\ client = 0 /\ made = 0 /\ running = {} /\ dead = {} /\ panicked = FALSE
        /\ sessions = [t \in Threads |-> None]
    BY DEF Init
  <2>2. 0 \in 0 .. 0 /\ {} \subseteq 1 .. 0 /\ {} \subseteq (1 .. 0) \ {}
    OBVIOUS
  <2>3. sessions \in [Threads -> Objects \cup {None}]
    BY <2>1
  <2> QED
    BY <2>1, <2>2, <2>3, EngineRange
<1>3. reader \in [Engines -> Reader] /\ start \in [Starters -> Starter] /\ obj \in [Objects -> Session]
  BY <1>1 DEF Init
<1>4. 0 \in 0 .. made
  BY EngineRange DEF Init
<1> QED
  BY <1>1, <1>2, <1>3, <1>4 DEF Init, Types, Ranges, Known, ReaderHolds, StarterHolds

\* are kept by every step,
LEMMA NextTypes == Types /\ [Next]_vars => Types' /\ Effects
<1> SUFFICES ASSUME Types, [Next]_vars PROVE Types' /\ Effects
  OBVIOUS
<1>1. Ranges' /\ Known' /\ Effects
  BY NextEffects
<1>2. \A e \in Engines : ReaderHolds(e)'
  BY <1>1, ReaderHoldsKept
<1>3. \A c \in Starters : StarterHolds(c)'
  BY <1>1, StarterHoldsKept
<1> QED
  BY <1>1, <1>2, <1>3 DEF Types

\* and so hold throughout.
LEMMA AlwaysTypes == Spec => []Types
  BY InitTypes, NextTypes, PTL DEF Spec

\* Every variable stays in its range and who works on a session has one, for any number of
\* starters, sessions, threads and engines.
THEOREM TypeCorrect == Spec => []TypeOK
  BY AlwaysTypes, TypesImply, PTL
-----------------------------------------------------------------------------
(* What the steps have in common, part by part.                               *)

ReaderOf(e, o) == o = reader[e].at \/ o \in reader[e].left
Listed(o) == \E t \in Threads : sessions[t] = o
Working == {"register", "check", "send"}

\* A read loop gets its sessions from p.sessions.
LEMMA ReaderGets ==
  ASSUME Types, Effects, NEW e \in Engines, NEW o \in Objects, ReaderOf(e, o)'
  PROVE  ReaderOf(e, o) \/ Listed(o)
<1> None \notin Objects
  BY ConstantsOK
<1>1. CASE reader'[e] = reader[e]
  BY <1>1 DEF ReaderOf
<1>2. CASE Listens(e)
  <2>2. CASE reader'[e].at \in {reader[e].at, None} /\ reader'[e].left \in {reader[e].left, {}}
    BY <1>2, <2>2 DEF Listens, Reading, ReaderOf, Listed
  <2>3. CASE \E t \in Threads : Reading(e, "check", "notification", sessions[t], {})
    BY <2>3 DEF Reading, ReaderOf, Listed
  <2> QED
    BY <1>1, <1>2, <2>2, <2>3 DEF Listens
<1>3. CASE Emits(e) \/ Fails(e)
  BY <1>3 DEF Emits, Fails, Reading, ReaderOf
<1>4. CASE Mourns(e)
  BY <1>4 DEF Mourns, Reading, ReaderOf, Listed
<1>5. CASE Turns(e)
  BY <1>5 DEF Turns, Reading, ReaderOf
<1>6. CASE Ends(e) \/ ReaderUnlists(e) \/ ReaderShutsIt(e)
  BY <1>6 DEF Ends, ReaderUnlists, ReaderShutsIt, Reading, ReaderOf
<1>7. CASE \E f \in Engines \ {e} : ReaderSteps(f)
  <2>1. reader'[e] = reader[e]
    BY <1>7 DEF ReaderSteps, Listens, Emits, Fails, Mourns, Turns, Ends, ReaderUnlists,
                ReaderShutsIt, Reading
  <2> QED
    BY <1>1, <2>1
<1>8. CASE reader' = reader
  BY <1>1, <1>8
<1> QED
  BY <1>2, <1>3, <1>4, <1>5, <1>6, <1>7, <1>8
     DEF Effects, ReaderSteps, StarterSteps, Approaches, Announces, Installs, Registers, Receives,
         ManagerSteps, ManagerEnds, ManagerUnlists, ManagerShutsIt, Shared

\* A thread gets its session from a starter.
LEMMA ThreadGets ==
  ASSUME Types, Effects, NEW t \in Threads
  PROVE  \/ sessions'[t] = sessions[t]
         \/ sessions'[t] = None
         \/ \E c \in Starters : Registers(c) /\ sessions'[t] = start[c].obj
<1>1. sessions \in [Threads -> Objects \cup {None}] /\ Empty[t] = None
  BY DEF Types, Ranges, Empty
<1>2. CASE sessions' = sessions
  BY <1>2
<1>3. CASE sessions' = Empty
  BY <1>1, <1>3
<1>4. CASE \E o \in Objects : Unlists(o)
  BY <1>1, <1>4 DEF Unlists
<1>5. CASE \E c \in Starters : Registers(c)
  BY <1>1, <1>5 DEF Registers
<1>6. \A e \in Engines : ReaderUnlists(e) => \E o \in Objects : Unlists(o)
  BY DEF ReaderUnlists, Types, ReaderHolds
<1> QED
  BY <1>2, <1>3, <1>4, <1>5, <1>6
     DEF Effects, ReaderSteps, StarterSteps, Approaches, Announces, Installs, Receives, Listens,
         Emits, Fails, Mourns, Turns, Ends, ReaderShutsIt, ManagerSteps, ManagerEnds,
         ManagerUnlists, ManagerShutsIt, Shared

\* A starter gets its session from an answer.
LEMMA StarterGets ==
  ASSUME Types, Effects, NEW d \in Starters, start'[d].at \in Working
  PROVE  \/ /\ start[d].at \in Working /\ start'[d].obj = start[d].obj
            /\ start'[d].at = "register" => start[d].at = "register" /\ ~Registers(d)
         \/ \E e \in Engines : Receives(d, e)
<1>1. CASE start'[d] = start[d] /\ ~Registers(d)
  BY <1>1
<1>2. CASE \E e \in Engines : Fails(e)
  <2>1. start'[d] = start[d] \/ start'[d].at \in {"refused", "idle"}
    BY <1>2 DEF Fails
  <2>2. ~Registers(d)
    BY <1>2, <2>1 DEF Registers, Starts, Fails
  <2> QED
    BY <1>1, <2>1, <2>2 DEF Working
<1>3. CASE Approaches(d)
  <2>1. start' = start
    BY <1>3 DEF Approaches, Starts, Working
  <2> QED
    BY <1>1, <1>3, <2>1 DEF Approaches, Registers
<1>4. CASE Announces(d) \/ Installs(d)
  BY <1>4 DEF Announces, Installs, Starts, Working
<1>7. CASE Registers(d)
  BY <1>7 DEF Registers, Starts, Working
<1>5. CASE \E c \in Starters \ {d} : StarterSteps(c) \/ \E e \in Engines : Receives(c, e)
  <2>1. PICK c \in Starters \ {d} : StarterSteps(c) \/ \E e \in Engines : Receives(c, e)
    BY <1>5
  <2>2. start'[d] = start[d]
    BY <2>1 DEF StarterSteps, Approaches, Announces, Installs, Registers, Receives, Starts
  <2>3. start[d].at = "register" => ~Registers(d)
    BY <2>2 DEF Registers, Starts
  <2> QED
    BY <1>1, <2>2, <2>3 DEF Registers
<1>6. CASE start' = start
  <2>1. ~Registers(d)
    BY <1>6 DEF Registers, Starts
  <2> QED
    BY <1>1, <1>6, <2>1
<1> QED
  BY <1>2, <1>3, <1>4, <1>5, <1>6, <1>7
     DEF Effects, StarterSteps, ReaderSteps, Listens, Emits, Mourns, Turns, Ends, ReaderUnlists,
         ReaderShutsIt, ManagerSteps, ManagerEnds, ManagerUnlists, ManagerShutsIt

\* How the life of a session goes on.
Lives(o) ==
  \/ /\ obj'[o].st = obj[o].st /\ obj'[o].by = obj[o].by /\ obj'[o].thread = obj[o].thread
     /\ \/ obj'[o].live = obj[o].live
        \/ \E c \in Starters : start[c].at \in {"check", "send"} /\ start[c].obj = o
  \/ /\ obj[o].st = "unmade" /\ obj'[o].st = "open" /\ obj'[o].live = FALSE
     /\ obj'[o].thread \in Threads /\ \E c \in Starters, e \in Engines : Receives(c, e)
  \/ /\ obj[o].st = "open" /\ obj'[o].st = "closing" /\ obj'[o].thread = obj[o].thread
     /\ \/ obj[o].live /\ obj'[o].by = "manager"
        \/ \E e \in Engines : Ends(e) /\ o = reader[e].at /\ obj'[o].by = "reader"
  \/ /\ obj'[o].st = "unregistered" /\ obj'[o].by = obj[o].by
     /\ \A t \in Threads : (sessions'[t] = sessions[t] /\ t # obj[o].thread) \/ sessions'[t] = None
     /\ \/ obj[o].st = "closing" /\ obj[o].by = "manager"
        \/ \E e \in Engines : ReaderUnlists(e) /\ o = reader[e].at
  \/ /\ obj'[o].st = "shut" /\ sessions' = sessions
     /\ \/ obj[o].st = "unregistered" /\ obj[o].by = "manager"
        \/ \E e \in Engines : ReaderShutsIt(e) /\ o = reader[e].at

\* What any step does to one session: it begins, is listed, flagged, unlisted or shut.
LEMMA SessionLives ==
  ASSUME Types, Effects, NEW o \in Objects
  PROVE  Lives(o)
<1>1. sessions \in [Threads -> Objects \cup {None}] /\ \A e \in Engines : ReaderHolds(e)
  BY DEF Types, Ranges
<1>2. CASE obj'[o] = obj[o]
  BY <1>2 DEF Lives
<1>3. CASE \E c \in Starters : Announces(c) \/ Installs(c) \/ Registers(c)
  BY <1>3 DEF Announces, Installs, Registers, Objs, Lives
<1>4. CASE \E c \in Starters, e \in Engines : Receives(c, e)
  BY <1>2, <1>4 DEF Receives, Lives
<1>5. CASE \E e \in Engines : Ends(e)
  BY <1>1, <1>2, <1>5 DEF Ends, Lives
<1>6. ASSUME NEW p \in Objects, Unlists(p)
      PROVE  /\ o # p => obj'[o].st = obj[o].st /\ obj'[o].by = obj[o].by
                         /\ obj'[o].thread = obj[o].thread /\ obj'[o].live = obj[o].live
             /\ o = p => /\ obj'[o].st = "unregistered" /\ obj'[o].by = obj[o].by
                         /\ \A t \in Threads : \/ sessions'[t] = sessions[t] /\ t # obj[o].thread
                                               \/ sessions'[t] = None
  BY <1>1, <1>6 DEF Unlists
<1>7. CASE \E e \in Engines : ReaderUnlists(e)
  <2>1. PICK e \in Engines : ReaderUnlists(e)
    BY <1>7
  <2>2. reader[e].at \in Objects /\ Unlists(reader[e].at)
    BY <1>1, <2>1 DEF ReaderUnlists, ReaderHolds
  <2> QED
    BY <1>6, <2>1, <2>2 DEF Lives
<1>8. CASE \E p \in Objects : ManagerUnlists(p)
  <2>1. PICK p \in Objects : ManagerUnlists(p)
    BY <1>8
  <2>2. Unlists(p) /\ obj[p].st = "closing" /\ obj[p].by = "manager"
    BY <2>1 DEF ManagerUnlists
  <2> QED
    BY <1>6, <2>2 DEF Lives
<1>9. CASE \E e \in Engines : ReaderShutsIt(e)
  BY <1>1, <1>2, <1>9 DEF ReaderShutsIt, Shuts, ReaderHolds, Lives
<1>10. CASE \E p \in Objects : ManagerEnds(p) \/ ManagerShutsIt(p)
  BY <1>2, <1>10 DEF ManagerEnds, ManagerShutsIt, Shuts, Lives
<1>11. CASE obj' = obj
  BY <1>2, <1>11
<1> QED
  BY <1>3, <1>4, <1>5, <1>7, <1>8, <1>9, <1>10, <1>11
     DEF Effects, StarterSteps, Approaches, ReaderSteps, Listens, Emits, Fails, Mourns, Turns,
         ManagerSteps, Shared
-----------------------------------------------------------------------------
(* RoutedToItsThread and ClosedOnce.                                          *)

Routed(t) == sessions[t] # None => /\ obj[sessions[t]].thread = t
                                   /\ obj[sessions[t]].st \in {"open", "closing"}

\* A session that is not registered yet is its starter's alone.
Alone(o) == ~Listed(o) /\ \A e \in Engines : ~ReaderOf(e, o)
Owns(c) == /\ start[c].at \in Working => obj[start[c].obj].st # "unmade"
           /\ start[c].at = "register" => /\ obj[start[c].obj].st = "open"
                                          /\ obj[start[c].obj].live = FALSE
                                          /\ obj[start[c].obj].thread \in Threads
                                          /\ Alone(start[c].obj)
Apart(c, d) == c # d /\ start[c].at \in Working /\ start[d].at \in Working =>
                 start[c].obj # start[d].obj
Unknown(o) == obj[o].st = "unmade" => \A e \in Engines : ~ReaderOf(e, o)

\* A read loop that is within Close closes a session alone.
Ending == {"unregister", "shut"}
Closes(e) == /\ reader[e].step = "unregister" =>
                  obj[reader[e].at].st = "closing" /\ obj[reader[e].at].by = "reader"
             /\ reader[e].step = "shut" =>
                  obj[reader[e].at].st = "unregistered" /\ obj[reader[e].at].by = "reader"
Sole(e, f) == e # f /\ reader[e].step \in Ending /\ reader[f].step \in Ending =>
                reader[e].at # reader[f].at

SharedInv == /\ \A t \in Threads : Routed(t)
             /\ \A c \in Starters : Owns(c)
             /\ \A c, d \in Starters : Apart(c, d)
             /\ \A o \in Objects : Unknown(o)
             /\ \A e \in Engines : Closes(e)
             /\ \A e, f \in Engines : Sole(e, f)

\* The layer gives the two properties.
LEMMA SharedImplies == Types /\ SharedInv => RoutedToItsThread /\ ClosedOnce
<1> SUFFICES ASSUME Types, SharedInv PROVE RoutedToItsThread /\ ClosedOnce
  OBVIOUS
<1>1. RoutedToItsThread
  BY DEF SharedInv, Routed, RoutedToItsThread
<1>2. ASSUME NEW o \in Objects, NEW e \in Engines, reader[e].step \in Ending, reader[e].at = o
      PROVE  obj[o].by = "reader"
  BY <1>2 DEF SharedInv, Closes, Ending
<1>3. ClosedOnce
  BY <1>2 DEF SharedInv, Sole, ClosedOnce, Ending
<1> QED
  BY <1>1, <1>3

\* Alone means that no step but its starter's reaches a session.
LEMMA StaysAlone ==
  ASSUME Types, Effects, SharedInv, NEW d \in Starters, start[d].at = "register", ~Registers(d),
         NEW o \in Objects, o = start[d].obj
  PROVE  /\ Alone(o)'
         /\ obj'[o].st = "open" /\ obj'[o].live = FALSE /\ obj'[o].thread \in Threads
<1>1. o = start[d].obj
  OBVIOUS
<1>2. obj[o].st = "open" /\ obj[o].live = FALSE /\ obj[o].thread \in Threads /\ Alone(o)
      /\ \A e \in Engines : ~ReaderOf(e, o)
  BY <1>1 DEF SharedInv, Owns, Alone
<1>3. ASSUME NEW t \in Threads, sessions'[t] = o
      PROVE  FALSE
  <2>1. sessions[t] # o /\ o # None
    BY <1>2, ConstantsOK DEF Alone, Listed
  <2>2. PICK c \in Starters : Registers(c) /\ sessions'[t] = start[c].obj
    BY <1>3, <2>1, ThreadGets
  <2>3. c # d
    BY <2>2
  <2>4. start[c].at = "register"
    BY <2>2 DEF Registers
  <2> QED
    BY <1>1, <1>3, <2>2, <2>3, <2>4 DEF SharedInv, Apart, Working
<1>4. \A e \in Engines : ~ReaderOf(e, o)'
  BY <1>2, ReaderGets DEF Alone
<1>5. ~\E c \in Starters : start[c].at \in {"check", "send"} /\ start[c].obj = o
  BY <1>1 DEF SharedInv, Apart, Working
<1>6. \A e \in Engines : o # reader[e].at
  BY <1>2 DEF ReaderOf
<1>7. obj'[o].st = "open" /\ obj'[o].live = FALSE /\ obj'[o].thread \in Threads
  BY <1>2, <1>5, <1>6, SessionLives DEF Lives
<1> QED
  BY <1>1, <1>3, <1>4, <1>7 DEF Alone, Listed

\* Every step keeps the map of threads to open sessions of theirs,
LEMMA RoutedKept ==
  ASSUME Types, Effects, SharedInv, NEW t \in Threads
  PROVE  Routed(t)'
<1>1. CASE sessions'[t] = None
  BY <1>1 DEF Routed
<1>2. CASE sessions'[t] = sessions[t] /\ sessions[t] # None
  <2>1. PICK o \in Objects : o = sessions[t]
    BY <1>2 DEF Types, Ranges
  <2>2. obj[o].thread = t /\ obj[o].st \in {"open", "closing"}
    BY <1>2, <2>1 DEF SharedInv, Routed
  <2>3. obj'[o].thread = t /\ obj'[o].st \in {"open", "closing"}
    <3>1. \A e \in Engines : reader[e].at = o /\ ReaderShutsIt(e) => obj[o].st = "unregistered"
      BY DEF SharedInv, Closes, ReaderShutsIt
    <3> QED
      BY <1>2, <2>1, <2>2, <3>1, SessionLives DEF Lives
  <2> QED
    BY <1>2, <2>1, <2>3 DEF Routed
<1>3. CASE \E c \in Starters : Registers(c) /\ sessions'[t] = start[c].obj /\ sessions'[t] # sessions[t]
  <2>1. PICK c \in Starters : Registers(c) /\ sessions'[t] = start[c].obj /\ sessions'[t] # sessions[t]
    BY <1>3
  <2>2. PICK o \in Objects :
          /\ o = start[c].obj /\ start[c].at = "register"
          /\ sessions' = [sessions EXCEPT ![obj[o].thread] = o]
          /\ obj'[o].st = obj[o].st /\ obj'[o].thread = obj[o].thread
    BY <2>1 DEF Registers
  <2>3. obj[o].st = "open" /\ obj[o].thread = t
    BY <2>1, <2>2 DEF SharedInv, Owns, Types, Ranges
  <2> QED
    BY <2>1, <2>2, <2>3 DEF Routed
<1> QED
  BY <1>1, <1>2, <1>3, ThreadGets

\* A session that is made stays so, and nothing knew one that was not.
LEMMA MadeStays ==
  ASSUME Types, Effects, SharedInv, NEW o \in Objects
  PROVE  /\ obj'[o].st = "unmade" => obj[o].st = "unmade"
         /\ obj[o].st = "unmade" => Alone(o)
         /\ Unknown(o)'
<1>1. obj'[o].st = "unmade" => obj[o].st = "unmade"
  BY SessionLives DEF Lives
<1>2. obj[o].st = "unmade" => Alone(o)
  BY ConstantsOK DEF SharedInv, Unknown, Alone, Listed, Routed
<1>3. Unknown(o)'
  BY <1>1, <1>2, ReaderGets DEF Unknown, Alone
<1> QED
  BY <1>1, <1>2, <1>3

\* a starter the only one at work on the session it makes,
LEMMA OwnsKept ==
  ASSUME Types, Effects, SharedInv, NEW d \in Starters
  PROVE  Owns(d)'
<1>1. CASE \E e \in Engines : Receives(d, e)
  <2>1. PICK o \in Objects, t \in Threads :
          /\ obj[o].st = "unmade" /\ start'[d].at = "register" /\ start'[d].obj = o
          /\ obj'[o].st = "open" /\ obj'[o].live = FALSE /\ obj'[o].thread = t
          /\ UNCHANGED <<sessions, reader>>
    BY <1>1 DEF Receives, Starts
  <2>2. Alone(o)
    BY <2>1, MadeStays
  <2>3. Alone(o)'
    BY <2>1, <2>2 DEF Alone, Listed, ReaderOf
  <2> QED
    BY <2>1, <2>3 DEF Owns
<1>2. CASE /\ start[d].at \in Working /\ start'[d].obj = start[d].obj
           /\ start'[d].at = "register" => start[d].at = "register" /\ ~Registers(d)
  <2>1. start[d].obj \in Objects /\ obj[start[d].obj].st # "unmade"
    BY <1>2 DEF Types, StarterHolds, SharedInv, Owns, Working
  <2>2. obj'[start[d].obj].st # "unmade"
    BY <2>1, MadeStays
  <2>3. CASE start'[d].at # "register"
    BY <1>2, <2>2, <2>3 DEF Owns
  <2>4. CASE start'[d].at = "register"
    <3>1. PICK o \in Objects : o = start[d].obj
      BY <2>1
    <3>2. /\ Alone(o)'
          /\ obj'[o].st = "open" /\ obj'[o].live = FALSE /\ obj'[o].thread \in Threads
      BY <1>2, <2>4, <3>1, StaysAlone
    <3>3. o = start'[d].obj
      BY <1>2, <3>1
    <3> QED
      BY <1>2, <2>2, <3>1, <3>2, <3>3 DEF Owns
  <2> QED
    BY <2>3, <2>4
<1>3. CASE start'[d].at \notin Working
  BY <1>3 DEF Owns, Working
<1> QED
  BY <1>1, <1>2, <1>3, StarterGets

\* two starters at work on two sessions,
LEMMA ApartKept ==
  ASSUME Types, Effects, SharedInv, NEW c \in Starters, NEW d \in Starters
  PROVE  Apart(c, d)'
<1> SUFFICES ASSUME c # d, start'[c].at \in Working, start'[d].at \in Working
             PROVE  start'[c].obj # start'[d].obj
  BY DEF Apart
<1>1. ASSUME NEW x \in Starters, NEW y \in Starters, x # y, start'[y].at \in Working,
             \E e \in Engines : Receives(x, e)
      PROVE  start'[x].obj # start'[y].obj
  <2>1. start'[y] = start[y] /\ obj[start'[x].obj].st = "unmade"
    BY <1>1 DEF Receives, Starts
  <2> QED
    BY <1>1, <2>1 DEF SharedInv, Owns
<1>2. CASE \E e \in Engines : Receives(c, e) \/ Receives(d, e)
  BY <1>1, <1>2
<1>3. CASE ~\E e \in Engines : Receives(c, e) \/ Receives(d, e)
  <2>1. start[c].at \in Working /\ start'[c].obj = start[c].obj
    BY <1>3, StarterGets
  <2>2. start[d].at \in Working /\ start'[d].obj = start[d].obj
    BY <1>3, StarterGets
  <2> QED
    BY <2>1, <2>2 DEF SharedInv, Apart
<1> QED
  BY <1>2, <1>3

\* A read loop gets into Close by finding the session open.
LEMMA ReaderEnds ==
  ASSUME Types, Effects, NEW e \in Engines, reader'[e].step \in Ending
  PROVE  \/ reader'[e] = reader[e] /\ ~ReaderUnlists(e)
         \/ /\ reader[e].step = "close" /\ reader'[e].step = "unregister" /\ reader'[e].at = reader[e].at
            /\ obj[reader[e].at].st = "open"
            /\ obj'[reader[e].at].st = "closing" /\ obj'[reader[e].at].by = "reader"
         \/ /\ ReaderUnlists(e) /\ reader'[e].step = "shut" /\ reader'[e].at = reader[e].at
            /\ obj'[reader[e].at].st = "unregistered" /\ obj'[reader[e].at].by = obj[reader[e].at].by
<1>1. CASE Listens(e)
  <2>1. reader' = reader
    BY <1>1 DEF Listens, Reading, Ending
  <2> QED
    BY <2>1 DEF ReaderUnlists, Reading
<1>2. CASE Emits(e) \/ Fails(e) \/ Mourns(e) \/ ReaderShutsIt(e)
  BY <1>2 DEF Emits, Fails, Mourns, ReaderShutsIt, Reading, Ending
<1>3. CASE Turns(e)
  BY <1>3 DEF Turns, Reading, Ending
<1>4. CASE Ends(e)
  BY <1>4 DEF Ends, Reading, Ending
<1>5. CASE ReaderUnlists(e)
  <2>1. reader[e].at \in Objects /\ Unlists(reader[e].at) /\ reader'[e].step = "shut"
        /\ reader'[e].at = reader[e].at
    BY <1>5 DEF ReaderUnlists, Types, ReaderHolds, Reading
  <2> QED
    BY <1>5, <2>1 DEF Unlists
<1>6. CASE reader'[e] = reader[e]
  BY <1>6 DEF ReaderUnlists, Reading
<1>7. CASE \E f \in Engines \ {e} : ReaderSteps(f)
  <2>1. reader'[e] = reader[e]
    BY <1>7 DEF ReaderSteps, Listens, Emits, Fails, Mourns, Turns, Ends, ReaderUnlists,
                ReaderShutsIt, Reading
  <2> QED
    BY <1>6, <2>1
<1> QED
  BY <1>1, <1>2, <1>3, <1>4, <1>5, <1>6, <1>7
     DEF Effects, ReaderSteps, StarterSteps, Approaches, Announces, Installs, Registers, Receives,
         ManagerSteps, ManagerEnds, ManagerUnlists, ManagerShutsIt, Shared

\* and a read loop the only one that closes its session.
LEMMA ClosesKept ==
  ASSUME Types, Effects, SharedInv, NEW e \in Engines
  PROVE  Closes(e)' /\ \A f \in Engines : Sole(e, f)'
<1>1. \A f \in Engines : Closes(f) /\ \A g \in Engines : Sole(f, g)
  BY DEF SharedInv
<1>2. ASSUME NEW f \in Engines, reader'[f].step \in Ending
      PROVE  /\ Closes(f)'
             /\ reader'[f].at = reader[f].at /\ reader'[f].at \in Objects
             /\ \/ reader[f].step \in Ending
                \/ /\ obj[reader[f].at].st = "open"
                   /\ obj'[reader[f].at].st = "closing" /\ obj'[reader[f].at].by = "reader"
  <2>1. CASE reader'[f] = reader[f] /\ ~ReaderUnlists(f)
    <3>1. PICK o \in Objects : o = reader[f].at
      BY <1>2, <2>1 DEF Types, ReaderHolds, Ending
    <3>2. \A g \in Engines : ReaderUnlists(g) \/ ReaderShutsIt(g) => g = f \/ reader[g].at # o
      BY <1>1, <1>2, <2>1, <3>1 DEF Sole, ReaderUnlists, ReaderShutsIt, Ending
    <3>3. ~ReaderShutsIt(f)
      BY <1>2, <2>1 DEF ReaderShutsIt, Reading, Ending
    <3>4. /\ obj[o].by = "reader" /\ obj[o].st \in {"closing", "unregistered"}
          /\ obj[o].st = IF reader[f].step = "unregister" THEN "closing" ELSE "unregistered"
      BY <1>1, <1>2, <2>1, <3>1 DEF Closes, Ending
    <3>5. obj'[o].st = obj[o].st /\ obj'[o].by = obj[o].by
      BY <2>1, <3>1, <3>2, <3>3, <3>4, SessionLives DEF Lives
    <3> QED
      BY <1>2, <2>1, <3>1, <3>4, <3>5 DEF Closes, Ending
  <2>2. CASE /\ reader[f].step = "close" /\ reader'[f].step = "unregister"
             /\ reader'[f].at = reader[f].at /\ obj[reader[f].at].st = "open"
             /\ obj'[reader[f].at].st = "closing" /\ obj'[reader[f].at].by = "reader"
    BY <2>2 DEF Types, ReaderHolds, Closes
  <2>3. CASE /\ ReaderUnlists(f) /\ reader'[f].step = "shut" /\ reader'[f].at = reader[f].at
             /\ obj'[reader[f].at].st = "unregistered" /\ obj'[reader[f].at].by = obj[reader[f].at].by
    BY <1>1, <2>3 DEF Types, ReaderHolds, Closes, ReaderUnlists, Ending
  <2> QED
    BY <1>2, <2>1, <2>2, <2>3, ReaderEnds
<1>3. Closes(e)'
  BY <1>2 DEF Closes, Ending
<1>4. ASSUME NEW f \in Engines
      PROVE  Sole(e, f)'
  <2> SUFFICES ASSUME e # f, reader'[e].step \in Ending, reader'[f].step \in Ending,
                      reader'[e].at = reader'[f].at
               PROVE  FALSE
    BY DEF Sole
  <2>1. CASE reader[e].step \in Ending /\ reader[f].step \in Ending
    BY <1>1, <1>2, <2>1 DEF Sole
  <2>2. ASSUME NEW g \in Engines, NEW h \in Engines, reader[g].step \in Ending, reader[g].at = reader[h].at
        PROVE  obj[reader[h].at].st # "open"
    BY <1>1, <2>2 DEF Closes, Ending
  <2>3. CASE reader[e].step \notin Ending /\ reader[f].step \notin Ending
    <3>1. reader'[e] # reader[e] /\ reader'[f] # reader[f]
      BY <2>3
    <3>2. \A g \in Engines : ReaderSteps(g) => \A h \in Engines \ {g} : reader'[h] = reader[h]
      BY DEF ReaderSteps, Listens, Emits, Fails, Mourns, Turns, Ends, ReaderUnlists,
             ReaderShutsIt, Reading
    <3> QED
      BY <3>1, <3>2 DEF Effects, StarterSteps, Approaches, Announces, Installs, Registers, Receives,
         ManagerSteps, ManagerEnds, ManagerUnlists, ManagerShutsIt, Shared
  <2> QED
    BY <1>2, <2>1, <2>2, <2>3
<1> QED
  BY <1>3, <1>4

\* The layer holds at first,
LEMMA InitShared == Init => SharedInv
<1> SUFFICES ASSUME Init PROVE SharedInv
  OBVIOUS
<1>1. /\ \A t \in Threads : sessions[t] = None
      /\ \A c \in Starters : start[c].at = "idle"
      /\ \A e \in Engines : reader[e].step = "read" /\ reader[e].at = None /\ reader[e].left = {}
  BY DEF Init, Idle, Asleep
<1> QED
  BY <1>1, ConstantsOK
     DEF SharedInv, Routed, Owns, Apart, Unknown, Closes, Sole, Working, Ending, ReaderOf

\* is kept by every step,
LEMMA NextShared == Types /\ SharedInv /\ Effects => SharedInv'
  BY RoutedKept, OwnsKept, ApartKept, MadeStays, ClosesKept DEF SharedInv

\* and so holds throughout.
LEMMA AlwaysShared == Spec => []SharedInv
<1>1. Types /\ SharedInv /\ [Next]_vars => SharedInv'
  BY NextTypes, NextShared
<1> QED
  BY <1>1, InitShared, AlwaysTypes, PTL DEF Spec

\* A notification is routed to a session of its thread that Close has not unregistered, for
\* any number of starters, sessions, threads and engines.
THEOREM RoutedCorrect == Spec => []RoutedToItsThread
  BY AlwaysTypes, AlwaysShared, SharedImplies, PTL

\* The channel of a session is closed by its manager or by one read loop, never by two: the
\* second close would take the daemon down.
THEOREM ClosedOnceCorrect == Spec => []ClosedOnce
  BY AlwaysTypes, AlwaysShared, SharedImplies, PTL
-----------------------------------------------------------------------------
(* DeathEndsSessions.                                                         *)

\* What a read loop has in hand at each step.
Calm(e) == /\ reader[e].step \in {"read", "lookup", "mourn"} => reader[e].why = "notification"
           /\ reader[e].step \in {"read", "lookup", "mourn", "next", "over"} => reader[e].at = None
           /\ reader[e].step \in {"close", "unregister", "shut"} => reader[e].why = "done"

\* Where an open session that a death can reach is to be found.
Found(o) == obj[o].st = "open" /\ obj[o].fate = "none" =>
              \/ \E c \in Starters : start[c].at = "register" /\ start[c].obj = o
              \/ Listed(o)
              \/ \E f \in Engines : Mourning(f, o)

\* None that is registered is on an engine whose death came first.
InTime(t) == sessions[t] # None =>
  \A e \in Engines : obj[sessions[t]].engine = e /\ Mourned(e) => obj[sessions[t]].fate # "none"

DeathInv == /\ \A e \in Engines : Calm(e)
            /\ \A o \in Objects : Found(o)
            /\ \A t \in Threads : InTime(t)

\* The layer gives the property.
LEMMA DeathImplies == Types /\ SharedInv /\ DeathInv => DeathEndsSessions
<1> SUFFICES ASSUME Types, SharedInv, DeathInv, NEW e \in Engines, NEW o \in Objects,
                    reader[e].step = "over", obj[o].engine = e, obj[o].live,
                    obj[o].st = "open", obj[o].fate = "none",
                    ~\E f \in Engines : Mourning(f, o)
             PROVE  FALSE
  BY DEF DeathEndsSessions
<1>1. ~\E c \in Starters : start[c].at = "register" /\ start[c].obj = o
  BY DEF SharedInv, Owns
<1>2. PICK t \in Threads : sessions[t] = o
  BY <1>1 DEF DeathInv, Found, Listed
<1>3. Mourned(e) /\ o # None
  BY ConstantsOK DEF Mourned
<1> QED
  BY <1>2, <1>3 DEF DeathInv, InTime

\* The steps of one read loop leave the others alone.
LEMMA OneReader ==
  ASSUME Effects, NEW e \in Engines, ~ReaderSteps(e)
  PROVE  reader'[e] = reader[e]
<1>1. CASE \E f \in Engines \ {e} : ReaderSteps(f)
  BY <1>1 DEF ReaderSteps, Listens, Emits, Fails, Mourns, Turns, Ends, ReaderUnlists,
              ReaderShutsIt, Reading
<1>2. CASE reader' = reader
  BY <1>2
<1> QED
  BY <1>1, <1>2 DEF Effects, StarterSteps, Approaches, Announces, Installs, Registers, Receives,
                    ManagerSteps, ManagerEnds, ManagerUnlists, ManagerShutsIt, Shared

\* A death is taken up in the step Mourns, and for good.
LEMMA CalmKept ==
  ASSUME Effects, NEW e \in Engines, Calm(e)
  PROVE  /\ Calm(e)'
         /\ Mourned(e) => Mourned(e)'
         /\ Mourned(e)' => Mourned(e) \/ Mourns(e)
<1>1. CASE ~ReaderSteps(e)
  <2>1. reader'[e] = reader[e]
    BY <1>1, OneReader
  <2> QED
    BY <2>1 DEF Calm, Mourned
<1>2. CASE Listens(e)
  BY <1>2 DEF Listens, Reading, Calm, Mourned
<1>3. CASE Emits(e)
  BY <1>3 DEF Emits, Reading, Calm, Mourned
<1>4. CASE Fails(e) \/ Mourns(e)
  BY <1>4 DEF Fails, Mourns, Reading, Calm, Mourned
<1>5. CASE Turns(e)
  BY <1>5 DEF Turns, Reading, Calm, Mourned
<1>6. CASE Ends(e) \/ ReaderUnlists(e) \/ ReaderShutsIt(e)
  BY <1>6 DEF Ends, ReaderUnlists, ReaderShutsIt, Reading, Calm, Mourned
<1> QED
  BY <1>1, <1>2, <1>3, <1>4, <1>5, <1>6 DEF ReaderSteps

\* A session that a death has in hand stays there until it is not open any more.
LEMMA MourningKept ==
  ASSUME Types, Effects, SharedInv, NEW e \in Engines, Calm(e), NEW o \in Objects,
         Mourning(e, o), obj'[o].st = "open"
  PROVE  Mourning(e, o)'
<1>1. Mourned(e) /\ Mourned(e)' /\ o # None
  BY CalmKept, ConstantsOK DEF Mourning
<1>2. CASE ~ReaderSteps(e)
  <2>1. reader'[e] = reader[e]
    BY <1>2, OneReader
  <2> QED
    BY <1>1, <2>1 DEF Mourning
<1>3. CASE Listens(e)
  <2>1. reader' = reader
    BY <1>1, <1>3 DEF Listens, Reading, Calm, Mourned
  <2> QED
    BY <1>1, <2>1 DEF Mourning
<1>4. CASE Emits(e)
  <2>1. reader'[e].at = reader[e].at /\ reader'[e].left = reader[e].left
    BY <1>1, <1>4 DEF Emits, Reading, Mourned
  <2> QED
    BY <1>1, <2>1 DEF Mourning
<1>5. CASE Fails(e) \/ Mourns(e)
  BY <1>1, <1>5 DEF Fails, Mourns, Calm, Mourned
<1>6. CASE Turns(e)
  BY <1>1, <1>6 DEF Turns, Reading, Calm, Mourning
<1>7. CASE Ends(e)
  BY <1>1, <1>7 DEF Ends, Reading, Mourning
<1>8. CASE ReaderUnlists(e)
  <2>1. reader'[e].at = reader[e].at /\ reader'[e].left = reader[e].left
    BY <1>8 DEF ReaderUnlists, Reading
  <2> QED
    BY <1>1, <2>1 DEF Mourning
<1>9. CASE ReaderShutsIt(e)
  <2>1. reader'[e].left = reader[e].left /\ obj'[reader[e].at].st = "shut"
    BY <1>9 DEF ReaderShutsIt, Reading, Shuts
  <2> QED
    BY <1>1, <2>1 DEF Mourning
<1> QED
  BY <1>2, <1>3, <1>4, <1>5, <1>6, <1>7, <1>8, <1>9 DEF ReaderSteps

\* What can happen to a session that stays open.
Goes(o) ==
  \/ obj'[o].st # "open" \/ obj'[o].fate = "dropped"
  \/ \E c \in Starters : /\ Registers(c) /\ o = start[c].obj /\ Listed(o)'
                         /\ obj'[o].engine = obj[o].engine
                         /\ Mourned(obj[o].engine) => obj'[o].fate # "none"
  \/ \E c \in Starters : start'[c].at = "register" /\ start'[c].obj = o
  \/ /\ obj[o].st = "open" /\ obj'[o].fate = obj[o].fate /\ obj'[o].engine = obj[o].engine
     /\ Listed(o) => Listed(o)' \/ \E e \in Engines : Mourns(e)
     /\ \A c \in Starters : start[c].at = "register" /\ start[c].obj = o =>
                              start'[c].at = "register" /\ start'[c].obj = o

\* What any step does to a session that stays open.
LEMMA SessionGoes ==
  ASSUME Types, Effects, SharedInv, NEW o \in Objects
  PROVE  Goes(o)
<1>1. sessions \in [Threads -> Objects \cup {None}] /\ o # None
      /\ \A e \in Engines : ReaderHolds(e)
  BY ConstantsOK DEF Types, Ranges
<1>2. ASSUME obj'[o] = obj[o], sessions' = sessions \/ \E e \in Engines : Mourns(e),
             \A c \in Starters : start[c].at = "register" => start'[c] = start[c]
      PROVE  Goes(o)
  BY <1>2 DEF Goes, Listed
<1>3. ASSUME obj'[o].st = obj[o].st, obj'[o].engine = obj[o].engine,
             obj'[o].fate = IF o \in Forgotten(sessions') /\ obj[o].st = "open" THEN "dropped"
                            ELSE obj[o].fate,
             \A c \in Starters : start[c].at = "register" /\ start[c].obj = o => start'[c] = start[c]
      PROVE  Goes(o)
  <2>1. o \in Forgotten(sessions') <=> Listed(o) /\ ~Listed(o)'
    BY DEF Forgotten, Listed
  <2> QED
    BY <1>3, <2>1 DEF Goes
<1>4. ASSUME NEW c \in Starters, Approaches(c) \/ Announces(c) \/ Installs(c)
      PROVE  \A d \in Starters : start[d].at = "register" => start'[d] = start[d]
  BY <1>4 DEF Approaches, Announces, Installs, Starts
<1>5. CASE \E c \in Starters : Approaches(c)
  BY <1>2, <1>4, <1>5 DEF Approaches, Shared
<1>6. CASE \E c \in Starters : Announces(c)
  <2>1. obj'[o].st = obj[o].st /\ obj'[o].fate = obj[o].fate /\ obj'[o].engine = obj[o].engine
        /\ sessions' = sessions
    BY <1>6 DEF Announces
  <2>2. \A d \in Starters : start[d].at = "register" => start'[d] = start[d]
    BY <1>4, <1>6
  <2> QED
    BY <2>1, <2>2 DEF Goes, Listed
<1>7. CASE \E c \in Starters : Installs(c)
  <2>1. sessions' = Empty /\ Objs(obj', Forgotten(Empty))
    BY <1>7 DEF Installs
  <2>2. /\ obj'[o].st = obj[o].st /\ obj'[o].engine = obj[o].engine
        /\ obj'[o].fate = IF o \in Forgotten(Empty) /\ obj[o].st = "open" THEN "dropped"
                          ELSE obj[o].fate
    BY <2>1 DEF Objs
  <2>3. \A d \in Starters : start[d].at = "register" => start'[d] = start[d]
    BY <1>4, <1>7
  <2> QED
    BY <1>3, <2>1, <2>2, <2>3
<1>8. CASE \E c \in Starters : Registers(c)
  <2>1. PICK c \in Starters : Registers(c)
    BY <1>8
  <2>2. PICK p \in Objects :
          /\ reader' = reader /\ start[c].at = "register" /\ p = start[c].obj
          /\ Starts(c, "check", start[c].engine, p)
          /\ sessions' = [sessions EXCEPT ![obj[p].thread] = p]
          /\ \A q \in Objects :
               /\ obj'[q].st = obj[q].st /\ obj'[q].engine = obj[q].engine
               /\ obj'[q].fate = IF q = p THEN IF Mourned(obj[p].engine) THEN "late" ELSE "none"
                                 ELSE IF q \in Forgotten(sessions') /\ obj[q].st = "open" THEN "dropped"
                                 ELSE obj[q].fate
    BY <2>1 DEF Registers
  <2>3. CASE p = o
    <3>1. obj[o].thread \in Threads
      BY <2>2, <2>3 DEF SharedInv, Owns
    <3>2. Listed(o)'
      BY <1>1, <2>2, <2>3, <3>1 DEF Listed
    <3>3. /\ obj'[o].engine = obj[o].engine
          /\ obj'[o].fate = IF Mourned(obj[o].engine) THEN "late" ELSE "none"
      BY <2>2, <2>3
    <3> QED
      BY <2>1, <2>2, <2>3, <3>2, <3>3 DEF Goes
  <2>4. CASE p # o
    <3>1. \A d \in Starters : start[d].at = "register" /\ start[d].obj = o => start'[d] = start[d]
      BY <2>2, <2>4 DEF Starts
    <3>2. /\ obj'[o].st = obj[o].st /\ obj'[o].engine = obj[o].engine
          /\ obj'[o].fate = IF o \in Forgotten(sessions') /\ obj[o].st = "open" THEN "dropped"
                            ELSE obj[o].fate
      BY <2>2, <2>4
    <3> QED
      BY <1>3, <3>1, <3>2
  <2> QED
    BY <2>3, <2>4
<1>9. CASE \E c \in Starters, e \in Engines : Receives(c, e)
  <2>1. PICK c \in Starters, e \in Engines : Receives(c, e)
    BY <1>9
  <2>2. PICK p \in Objects : /\ start'[c].at = "register" /\ start'[c].obj = p
                             /\ \A q \in Objects \ {p} : obj'[q] = obj[q]
                             /\ \A d \in Starters : start[d].at = "register" => start'[d] = start[d]
                             /\ sessions' = sessions
    BY <2>1 DEF Receives, Starts
  <2>3. CASE p = o
    BY <2>2, <2>3 DEF Goes
  <2>4. CASE p # o
    BY <1>2, <2>2, <2>4
  <2> QED
    BY <2>3, <2>4
<1>10. CASE \E e \in Engines : Listens(e) \/ Emits(e) \/ Fails(e) \/ Mourns(e) \/ Turns(e)
  <2>1. obj' = obj /\ (sessions' = sessions \/ \E e \in Engines : Mourns(e))
    BY <1>10 DEF Listens, Emits, Fails, Mourns, Turns
  <2>2. \A c \in Starters : start[c].at = "register" => start'[c] = start[c]
    BY <1>10 DEF Listens, Emits, Fails, Mourns, Turns
  <2> QED
    BY <1>2, <2>1, <2>2
<1>11. CASE \E e \in Engines : Ends(e)
  <2>1. PICK e \in Engines : Ends(e)
    BY <1>11
  <2>2. reader[e].at \in Objects /\ start' = start /\ sessions' = sessions
        /\ (obj'[reader[e].at].st # "open")
        /\ \A p \in Objects \ {reader[e].at} : obj'[p] = obj[p]
    BY <1>1, <2>1 DEF Ends, ReaderHolds
  <2> QED
    BY <1>2, <2>2 DEF Goes
<1>12. ASSUME NEW p \in Objects, Unlists(p), start' = start
       PROVE  Goes(o)
  <2>1. CASE o = p
    BY <1>12, <2>1 DEF Unlists, Goes
  <2>2. CASE o # p
    <3>1. /\ obj'[o].st = obj[o].st /\ obj'[o].engine = obj[o].engine
          /\ obj'[o].fate = IF o \in Forgotten(sessions') /\ obj[o].st = "open" THEN "dropped"
                            ELSE obj[o].fate
      BY <1>12, <2>2 DEF Unlists
    <3> QED
      BY <1>3, <1>12, <3>1
  <2> QED
    BY <2>1, <2>2
<1>13. ASSUME NEW p \in Objects, Shuts(p), start' = start, sessions' = sessions
       PROVE  Goes(o)
  <2>1. CASE o = p
    BY <1>13, <2>1 DEF Shuts, Goes
  <2>2. CASE o # p
    BY <1>2, <1>13, <2>2 DEF Shuts
  <2> QED
    BY <2>1, <2>2
<1>14. CASE \E e \in Engines : ReaderUnlists(e) \/ ReaderShutsIt(e)
  BY <1>1, <1>12, <1>13, <1>14 DEF ReaderUnlists, ReaderShutsIt, ReaderHolds
<1>15. CASE \E p \in Objects : ManagerUnlists(p) \/ ManagerShutsIt(p)
  BY <1>12, <1>13, <1>15 DEF ManagerUnlists, ManagerShutsIt
<1>16. CASE \E p \in Objects : ManagerEnds(p)
  <2>1. PICK p \in Objects : ManagerEnds(p)
    BY <1>16
  <2>2. start' = start /\ sessions' = sessions /\ obj'[p].st # "open"
        /\ \A q \in Objects \ {p} : obj'[q] = obj[q]
    BY <2>1 DEF ManagerEnds
  <2> QED
    BY <1>2, <2>2 DEF Goes
<1>17. CASE UNCHANGED <<Shared, start, made>>
  BY <1>2, <1>17 DEF Shared
<1> QED
  BY <1>5, <1>6, <1>7, <1>8, <1>9, <1>10, <1>11, <1>14, <1>15, <1>16, <1>17
     DEF Effects, StarterSteps, ReaderSteps, ManagerSteps

\* Every step keeps an open session with its starter, in the map, or with a death handler,
LEMMA FoundKept ==
  ASSUME Types, Effects, SharedInv, DeathInv, NEW o \in Objects
  PROVE  Found(o)'
<1> SUFFICES ASSUME obj'[o].st = "open", obj'[o].fate = "none"
             PROVE  \/ \E c \in Starters : start'[c].at = "register" /\ start'[c].obj = o
                    \/ Listed(o)'
                    \/ \E f \in Engines : Mourning(f, o)'
  BY DEF Found, Listed
<1>1. CASE \/ \E c \in Starters : Registers(c) /\ o = start[c].obj /\ Listed(o)'
           \/ \E c \in Starters : start'[c].at = "register" /\ start'[c].obj = o
  BY <1>1
<1>2. CASE /\ obj[o].st = "open" /\ obj[o].fate = "none"
           /\ Listed(o) => Listed(o)' \/ \E e \in Engines : Mourns(e)
           /\ \A c \in Starters : start[c].at = "register" /\ start[c].obj = o =>
                                    start'[c].at = "register" /\ start'[c].obj = o
  <2>1. CASE \E c \in Starters : start[c].at = "register" /\ start[c].obj = o
    BY <1>2, <2>1
  <2>2. CASE \E f \in Engines : Mourning(f, o)
    BY <2>2, MourningKept DEF DeathInv
  <2>3. CASE Listed(o)
    <3>1. ASSUME NEW e \in Engines, Mourns(e)
          PROVE  Mourning(e, o)'
      BY <2>3, <3>1 DEF Mourns, Reading, Mourning, Mourned, Listed
    <3> QED
      BY <1>2, <2>3, <3>1
  <2> QED
    BY <1>2, <2>1, <2>2, <2>3 DEF DeathInv, Found
<1> QED
  BY <1>1, <1>2, SessionGoes DEF Goes

\* and the map free of sessions whose engine was mourned before, but for the late ones.
LEMMA InTimeKept ==
  ASSUME Types, Effects, SharedInv, DeathInv, NEW t \in Threads
  PROVE  InTime(t)'
<1> SUFFICES ASSUME NEW o, o = sessions'[t], o # None, NEW e \in Engines, obj'[o].engine = e,
                    Mourned(e)'
             PROVE  obj'[o].fate # "none"
  BY DEF InTime
<1>1. ~Mourns(e) /\ Mourned(e)
  <2>1. ~Mourns(e)
    BY DEF Mourns, Empty
  <2> QED
    BY <2>1, CalmKept DEF DeathInv
<1>2. CASE \E c \in Starters : Registers(c) /\ o = start[c].obj
  BY <1>1, <1>2 DEF Registers
<1>3. CASE sessions[t] = o
  <2>1. o \in Objects /\ obj[o].st \in {"open", "closing"} /\ Listed(o)
    BY <1>3 DEF SharedInv, Routed, Types, Ranges, Listed
  <2>2. \A c \in Starters : ~(start[c].at = "register" /\ start[c].obj = o)
    BY <2>1 DEF SharedInv, Owns, Alone
  <2>3. obj'[o].engine = obj[o].engine /\ (obj'[o].fate = obj[o].fate \/ obj'[o].fate = "dropped")
    <3>1. ASSUME NEW p \in Objects, Unlists(p)
          PROVE  obj'[o].engine = obj[o].engine /\ (obj'[o].fate = obj[o].fate \/ obj'[o].fate = "dropped")
      BY <2>1, <3>1 DEF Unlists
    <3>2. ASSUME NEW p \in Objects, Shuts(p), obj[p].st = "unregistered"
          PROVE  obj'[o].engine = obj[o].engine /\ obj'[o].fate = obj[o].fate
      BY <2>1, <3>2 DEF Shuts
    <3>3. CASE \E f \in Engines : ReaderUnlists(f) \/ ReaderShutsIt(f)
      BY <3>1, <3>2, <3>3 DEF ReaderUnlists, ReaderShutsIt, Types, ReaderHolds, SharedInv, Closes
    <3>4. CASE \E p \in Objects : ManagerUnlists(p) \/ ManagerShutsIt(p)
      BY <3>1, <3>2, <3>4 DEF ManagerUnlists, ManagerShutsIt
    <3>5. CASE \E p \in Objects : ManagerEnds(p)
      BY <2>1, <3>5 DEF ManagerEnds
    <3>6. CASE \E f \in Engines : Ends(f)
      BY <2>1, <3>6 DEF Ends
    <3>7. CASE \E c \in Starters : Announces(c) \/ Installs(c)
      BY <2>1, <3>7 DEF Announces, Installs, Objs
    <3>8. CASE \E c \in Starters : Registers(c)
      BY <2>1, <2>2, <3>8 DEF Registers
    <3>9. CASE \E c \in Starters, f \in Engines : Receives(c, f)
      BY <2>1, <3>9 DEF Receives
    <3>10. CASE obj' = obj
      BY <3>10
    <3> QED
      BY <3>3, <3>4, <3>5, <3>6, <3>7, <3>8, <3>9, <3>10
         DEF Effects, StarterSteps, Approaches, ReaderSteps, Listens, Emits, Fails, Mourns, Turns,
             ManagerSteps, Shared
  <2>4. obj[o].fate # "none"
    BY <1>1, <1>3, <2>3 DEF DeathInv, InTime
  <2> QED
    BY <2>3, <2>4
<1> QED
  BY <1>2, <1>3, ThreadGets

\* The layer holds at first,
LEMMA InitDeath == Init => DeathInv
<1> SUFFICES ASSUME Init PROVE DeathInv
  OBVIOUS
<1>1. /\ \A t \in Threads : sessions[t] = None
      /\ \A o \in Objects : obj[o].st = "unmade"
      /\ \A e \in Engines : reader[e].step = "read" /\ reader[e].at = None
                            /\ reader[e].why = "notification"
  BY DEF Init, Unmade, Asleep
<1> QED
  BY <1>1 DEF DeathInv, Calm, Found, InTime

\* and is kept by every step.
LEMMA NextDeath == Types /\ SharedInv /\ DeathInv /\ Effects => DeathInv'
  BY CalmKept, FoundKept, InTimeKept DEF DeathInv

\* When the death of an engine has been handled, its sessions are closed but for those that
\* p.sessions had lost before, those registered too late, and those that the death of another
\* engine took and is about to close; for any number of engines.
THEOREM DeathCorrect == Spec => []DeathEndsSessions
<1>1. Types /\ SharedInv /\ DeathInv /\ [Next]_vars => DeathInv'
  BY NextTypes, NextDeath
<1> QED
  BY <1>1, InitDeath, DeathImplies, AlwaysTypes, AlwaysShared, PTL DEF Spec
=============================================================================
