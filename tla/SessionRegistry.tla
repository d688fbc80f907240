--------------------------- MODULE SessionRegistry ---------------------------
(***************************************************************************)
(* session.Manager: the registry of live sessions over the sessions table.   *)
(* Handlers run concurrently and take m.mu for one map access at a time, so  *)
(* that Create, Resolve, Fork and Close are sequences of steps here, one for *)
(* each critical section, store call or adapter call.  A Session object is   *)
(* what StartSession and a pump goroutine make: an id has one only while it  *)
(* is live, but nothing in the types says so.                                *)
(***************************************************************************)
EXTENDS Integers, FiniteSets

CONSTANTS Callers,    \* goroutines serving requests, one call each at a time
          Ids,        \* session ids
          Objects,    \* bound: the Session objects one daemon process may make
          None        \* no session, no caller

ASSUME ConstantsOK == None \notin Objects \cup Callers \cup Ids

VARIABLES
  row,       \* row[i]: the sessions table: "absent", "open" or "ended"
  sessions,  \* sessions[i]: m.sessions
  reviving,  \* reviving[i]: m.reviving, as the caller whose call it is
  obj,       \* obj[o]: a Session object and its pump
  pc,        \* pc[c]: where caller c is
  arg,       \* arg[c]: the session id it was called with
  held       \* held[c]: the Session object in its hands, or the caller it waits for

vars == <<row, sessions, reviving, obj, pc, arg, held>>

\* fresh: not made.  idle: adapter session started, no pump.  live: pump running.
\* closing: inner.Close called.  ended: s.ended.  over: pump returned.
ObjStates == {"fresh", "idle", "live", "closing", "ended", "over"}

\* Why a live object is out of the registry's reach (history).  late: published once a
\* Close had looked.  replaced: another was published over it.  leaked: dropped by a
\* Close that failed.
Fates == {"none", "late", "replaced", "leaked"}

\* Resolve:  idle, check, drop, enter, wait | load, start, publish, finish
\* Create:   idle, save, announce      Fork: Resolve, then branch, save, announce
\* Close:    idle, markGone | mark, stop
Steps == {"idle", "check", "drop", "enter", "wait", "load", "start", "publish",
          "finish", "branch", "save", "announce", "markGone", "mark", "stop"}

\* Where a caller owns the entry reviving[arg[c]].
Reviving == {"load", "start", "publish", "finish"}

Unmade == [id |-> None, st |-> "fresh", revived |-> FALSE, fate |-> "none"]

Init ==
  /\ row \in [Ids -> {"absent", "open", "ended"}]
  /\ sessions = [i \in Ids |-> None]
  /\ reviving = [i \in Ids |-> None]
  /\ obj = [o \in Objects |-> Unmade]
  /\ pc = [c \in Callers |-> "idle"]
  /\ arg = [c \in Callers |-> None]
  /\ held = [c \in Callers |-> None]
-----------------------------------------------------------------------------
Goto(c, step) == pc' = [pc EXCEPT ![c] = step]

Return(c) == /\ Goto(c, "idle")
             /\ arg' = [arg EXCEPT ![c] = None]
             /\ held' = [held EXCEPT ![c] = None]

Table == <<row, sessions, reviving, obj>>

\* StartSession of an adapter, or Fork of a session: a new object for id i.
Fresh == {o \in Objects : obj[o].st = "fresh"}

Make(c, i, revived) ==
  /\ Fresh # {}
  /\ LET o == CHOOSE o \in Fresh : TRUE IN
     /\ obj' = [obj EXCEPT ![o] = [Unmade EXCEPT !.id = i, !.st = "idle",
                                                !.revived = revived]]
     /\ held' = [held EXCEPT ![c] = o]

\* A Close of i has looked into the registry already.
CloseHasLooked(i) ==
  \/ row[i] = "ended"
  \/ \E c \in Callers : arg[c] = i /\ pc[c] \in {"markGone", "mark"}

\* m.sessions[s.ID] = s; go s.pump()
Register(i, o) ==
  /\ sessions' = [sessions EXCEPT ![i] = o]
  /\ obj' = [x \in Objects |->
               IF x = o
               THEN [obj[x] EXCEPT !.st = "live",
                                   !.fate = IF CloseHasLooked(i) THEN "late" ELSE @]
               ELSE IF x = sessions[i] THEN [obj[x] EXCEPT !.fate = "replaced"]
               ELSE obj[x]]
-----------------------------------------------------------------------------
(* Resolve.  A fork resolves its parent first: pc goes on to "branch".  An id    *)
(* that no row has ever had is refused without a change of state.                *)

Lookup(c, i) ==
  /\ pc[c] = "idle"
  /\ row[i] # "absent"
  /\ arg' = [arg EXCEPT ![c] = i]
  /\ held' = [held EXCEPT ![c] = sessions[i]]
  /\ Goto(c, IF sessions[i] = None THEN "enter" ELSE "check")
  /\ UNCHANGED <<Table>>

\* isEnded takes s.mu, with m.mu released in between.  A live session is the
\* answer; the caller returns with it, or forks it.
Check(c) ==
  /\ pc[c] = "check"
  /\ IF obj[held[c]].st \in {"ended", "over"}
     THEN Goto(c, "drop") /\ UNCHANGED <<arg, held>>
     ELSE \/ Return(c)
          \/ /\ Goto(c, "branch")
             /\ held' = [held EXCEPT ![c] = None]
             /\ UNCHANGED arg
  /\ UNCHANGED <<Table>>

Drop(c) ==
  /\ pc[c] = "drop"
  /\ sessions' = [sessions EXCEPT ![arg[c]] = IF @ = held[c] THEN None ELSE @]
  /\ held' = [held EXCEPT ![c] = None]
  /\ Goto(c, "enter")
  /\ UNCHANGED <<row, reviving, obj, arg>>

\* Mutant of Enter: without the single-flight map.
EnterAlone(c) ==
  /\ pc[c] = "enter"
  /\ Goto(c, "load")
  /\ reviving' = [reviving EXCEPT ![arg[c]] = c]
  /\ UNCHANGED <<row, sessions, obj, arg, held>>

\* Join the revival under way, or own a new one.
Enter(c) ==
  /\ pc[c] = "enter"
  /\ IF reviving[arg[c]] # None
     THEN /\ Goto(c, "wait")
          /\ held' = [held EXCEPT ![c] = reviving[arg[c]]]
          /\ UNCHANGED reviving
     ELSE /\ Goto(c, "load")
          /\ reviving' = [reviving EXCEPT ![arg[c]] = c]
          /\ UNCHANGED held
  /\ UNCHANGED <<row, sessions, obj, arg>>

\* Mutant of Load: an early return that forgets the entry and its waiters.
LoadReturns(c) ==
  /\ pc[c] = "load"
  /\ IF row[arg[c]] = "open" THEN Goto(c, "start") /\ UNCHANGED <<arg, held>>
                             ELSE Return(c)
  /\ UNCHANGED Table

\* LoadSession.  An ended session is refused.
Load(c) ==
  /\ pc[c] = "load"
  /\ Goto(c, IF row[arg[c]] = "open" THEN "start" ELSE "finish")
  /\ UNCHANGED <<Table, arg, held>>

\* StartSession, resuming the native conversation.
Start(c) ==
  /\ pc[c] = "start"
  /\ Make(c, arg[c], TRUE)
  /\ Goto(c, "publish")
  /\ UNCHANGED <<row, sessions, reviving, arg>>

\* Mutant of StartFails: the error is not looked at.
StartUnchecked(c) ==
  /\ pc[c] = "start"
  /\ Goto(c, "publish")
  /\ UNCHANGED <<Table, arg, held>>

\* The agent is not registered, or StartSession fails.
StartFails(c) ==
  /\ pc[c] = "start"
  /\ Goto(c, "finish")
  /\ UNCHANGED <<Table, arg, held>>

Publish(c) ==
  /\ pc[c] = "publish"
  /\ Register(arg[c], held[c])
  /\ Goto(c, "finish")
  /\ UNCHANGED <<row, reviving, arg, held>>

\* The deferred function: the entry is removed and the waiters of this call get its
\* session or its error.  With a session, those that came to fork it go on.
Finish(c) ==
  /\ pc[c] = "finish"
  /\ reviving' = [reviving EXCEPT ![arg[c]] = None]
  /\ LET done == {c} \cup {w \in Callers : pc[w] = "wait" /\ held[w] = c} IN
     \E forks \in SUBSET done :
       /\ held[c] = None => forks = {}
       /\ pc' = [w \in Callers |-> IF w \in forks THEN "branch"
                                   ELSE IF w \in done THEN "idle" ELSE pc[w]]
       /\ arg' = [w \in Callers |-> IF w \in done \ forks THEN None ELSE arg[w]]
       /\ held' = [w \in Callers |-> IF w \in done THEN None ELSE held[w]]
  /\ UNCHANGED <<row, sessions, obj>>
-----------------------------------------------------------------------------
(* Create and Fork.  The id is in the table, and so in List, before the session *)
(* is in the registry.                                                           *)

NewId == {i \in Ids : row[i] = "absent" /\ \A c \in Callers : arg[c] # i}

Create(c) ==
  /\ pc[c] = "idle"
  /\ \E i \in NewId : /\ arg' = [arg EXCEPT ![c] = i]
                      /\ Make(c, i, FALSE)
  /\ Goto(c, "save")
  /\ UNCHANGED <<row, sessions, reviving>>

Branch(c) ==
  /\ pc[c] = "branch"
  /\ \/ /\ \E i \in NewId : /\ arg' = [arg EXCEPT ![c] = i]
                            /\ Make(c, i, FALSE)
        /\ Goto(c, "save")
     \/ Return(c) /\ UNCHANGED obj     \* no Forker, or Fork fails
  /\ UNCHANGED <<row, sessions, reviving>>

Save(c) ==
  /\ pc[c] = "save"
  /\ row' = [row EXCEPT ![arg[c]] = "open"]
  /\ Goto(c, "announce")
  /\ UNCHANGED <<sessions, reviving, obj, arg, held>>

\* SaveSession fails, perhaps after its INSERT, in the chmod of the database files.
SaveFails(c) ==
  /\ pc[c] = "save"
  /\ row' \in {row, [row EXCEPT ![arg[c]] = "open"]}
  /\ obj' = [obj EXCEPT ![held[c]] = [Unmade EXCEPT !.st = "over"]]
  /\ Return(c)
  /\ UNCHANGED <<sessions, reviving>>

Announce(c) ==
  /\ pc[c] = "announce"
  /\ Register(arg[c], held[c])
  /\ Return(c)
  /\ UNCHANGED <<row, reviving>>
-----------------------------------------------------------------------------
(* Close.                                                                     *)

Remove(c, i) ==
  /\ pc[c] = "idle"
  /\ row[i] # "absent"
  /\ arg' = [arg EXCEPT ![c] = i]
  /\ held' = [held EXCEPT ![c] = sessions[i]]
  /\ sessions' = [sessions EXCEPT ![i] = None]
  /\ Goto(c, IF sessions[i] = None THEN "markGone" ELSE "mark")
  /\ UNCHANGED <<row, reviving, obj>>

\* Nothing live: LoadSession, and MarkEnded of a known id.
MarkGone(c) ==
  /\ pc[c] = "markGone"
  /\ row' \in {row, [row EXCEPT ![arg[c]] = "ended"]}
  /\ Return(c)
  /\ UNCHANGED <<sessions, reviving, obj>>

\* Mutant of Mark: Close returns before it has closed the adapter session.
MarkOnly(c) ==
  /\ pc[c] = "mark"
  /\ row' = [row EXCEPT ![arg[c]] = "ended"]
  /\ Return(c)
  /\ UNCHANGED <<sessions, reviving, obj>>

Mark(c) ==
  /\ pc[c] = "mark"
  /\ row' = [row EXCEPT ![arg[c]] = "ended"]
  /\ Goto(c, "stop")
  /\ UNCHANGED <<sessions, reviving, obj, arg, held>>

\* MarkEnded fails: Close returns before inner.Close, the registry has already let go.
MarkFails(c) ==
  /\ pc[c] = "mark"
  /\ row' \in {row, [row EXCEPT ![arg[c]] = "ended"]}
  /\ obj' = [obj EXCEPT ![held[c]].fate = "leaked"]
  /\ Return(c)
  /\ UNCHANGED <<sessions, reviving>>

Stop(c) ==
  /\ pc[c] = "stop"
  /\ obj' = [obj EXCEPT ![held[c]] =
               IF @.st = "live" THEN [@ EXCEPT !.st = "closing", !.fate = "none"] ELSE @]
  /\ Return(c)
  /\ UNCHANGED <<row, sessions, reviving>>
-----------------------------------------------------------------------------
(* The pumps, and the daemon.                                                 *)

\* The event stream of o ends: its agent exited, or it was closed.
StreamEnds(o) ==
  /\ obj[o].st \in {"live", "closing"}
  /\ obj' = [obj EXCEPT ![o].st = "ended", ![o].fate = "none"]
  /\ UNCHANGED <<row, sessions, reviving, pc, arg, held>>

\* Mutant of ForgetEnded: the entry goes, whichever session it holds by now.
ForgetAny(o) ==
  /\ obj[o].st = "ended"
  /\ obj' = [obj EXCEPT ![o] = [Unmade EXCEPT !.st = "over"]]
  /\ sessions' = [sessions EXCEPT ![obj[o].id] = None]
  /\ UNCHANGED <<row, reviving, pc, arg, held>>

ForgetEnded(o) ==
  /\ obj[o].st = "ended"
  /\ obj' = [obj EXCEPT ![o] = [Unmade EXCEPT !.st = "over"]]
  /\ sessions' = [sessions EXCEPT ![obj[o].id] = IF @ = o THEN None ELSE @]
  /\ UNCHANGED <<row, reviving, pc, arg, held>>

\* The daemon dies and starts again: only the table is left.
Crash ==
  /\ sessions' = [i \in Ids |-> None]
  /\ reviving' = [i \in Ids |-> None]
  /\ obj' = [o \in Objects |-> Unmade]
  /\ pc' = [c \in Callers |-> "idle"]
  /\ arg' = [c \in Callers |-> None]
  /\ held' = [c \in Callers |-> None]
  /\ UNCHANGED row
-----------------------------------------------------------------------------
Step(c) == \/ Check(c) \/ Drop(c) \/ Enter(c) \/ Load(c)
           \/ Start(c) \/ StartFails(c) \/ Publish(c) \/ Finish(c)
           \/ Branch(c) \/ Save(c) \/ SaveFails(c) \/ Announce(c)
           \/ MarkGone(c) \/ Mark(c) \/ MarkFails(c) \/ Stop(c)

Next == \/ \E c \in Callers :
             \/ \E i \in Ids : Lookup(c, i) \/ Remove(c, i)
             \/ Create(c)
             \/ Step(c)
        \/ \E o \in Objects : StreamEnds(o) \/ ForgetEnded(o)
        \/ Crash

Spec == Init /\ [][Next]_vars

\* Its next step is a call of an adapter, which nothing bounds: a Codex thread/resume,
\* thread/start or thread/fork waits for its answer or for the end of its connection.
AtAdapter(c) == pc[c] \in {"start", "branch"}

\* A call goes on by itself at every other step: m.mu is held for map accesses only, the
\* store answers, and inner.Close returns as CancelAndCloseEnd of TurnSession says.
FairSpec == Spec /\ \A c \in Callers : WF_vars(Step(c) /\ ~AtAdapter(c))
-----------------------------------------------------------------------------
(* Properties.                                                               *)

\* The steps that use a Session object.
Holding == {"check", "drop", "publish", "save", "announce", "mark", "stop"}

\* Every variable stays in its range, and a caller holds what its step works on: an
\* object where it uses one, the caller it waits for, and otherwise nothing.
TypeOK ==
  /\ row \in [Ids -> {"absent", "open", "ended"}]
  /\ sessions \in [Ids -> Objects \cup {None}]
  /\ reviving \in [Ids -> Callers \cup {None}]
  /\ obj \in [Objects -> [id : Ids \cup {None}, st : ObjStates,
                       revived : BOOLEAN, fate : Fates]]
  /\ pc \in [Callers -> Steps]
  /\ arg \in [Callers -> Ids \cup {None}]
  /\ held \in [Callers -> Objects \cup Callers \cup {None}]
  /\ \A c \in Callers :
       /\ pc[c] \in Holding => held[c] \in Objects
       /\ pc[c] = "wait" => held[c] \in Callers
       /\ pc[c] # "idle" => arg[c] \in Ids

\* The revivals of an id are one at a time, the entry in m.reviving is there for as long
\* as its owner works on it, failures included, and nobody waits for a revival that is
\* already over, or for one of another session.
OneRevivalPerId ==
  /\ \A i \in Ids, c \in Callers :
       reviving[i] = c <=> pc[c] \in Reviving /\ arg[c] = i
  /\ \A w \in Callers : pc[w] = "wait" =>
       held[w] \in Callers /\ pc[held[w]] \in Reviving /\ arg[held[w]] = arg[w]

\* The registry holds sessions of that id that are in the table, so that a restart loses
\* none, with the pump started and not told to stop: no cleanup of an older session, and
\* no Close, leaves it with a stale one.  And no live session gets lost: it is in the
\* registry, or a Close is about to stop it, or it is one of those that were published
\* over or that a failed Close dropped.
LiveIsAccountedFor ==
  /\ \A i \in Ids : sessions[i] # None =>
       /\ row[i] # "absent"
       /\ obj[sessions[i]].id = i /\ obj[sessions[i]].st \in {"live", "ended"}
  /\ \A o \in Objects : obj[o].st = "live" =>
       \/ sessions[obj[o].id] = o
       \/ \E c \in Callers : held[c] = o /\ pc[c] \in {"mark", "stop"}
       \/ obj[o].fate \in {"replaced", "leaked"}

\* A closed session is over: under a row marked ended a session is live only while a
\* Close is on its way to stop it, or because a handler in flight published it once the
\* Close had looked, or because it was lost before as LiveIsAccountedFor says.
ClosedIsOver ==
  \A o \in Objects : obj[o].st = "live" /\ row[obj[o].id] = "ended" =>
    \/ \E c \in Callers : held[c] = o /\ pc[c] \in {"mark", "stop"}
    \/ obj[o].fate # "none"

\* internal/session/store_test.go:328, TestConcurrentResolveRevivesOnce ("startCount =
\* %d, want 1"): callers that resolve one stored session concurrently revive it once.
RevivesOnce ==
  \A o, p \in Objects :
    /\ obj[o].st = "live" /\ obj[o].revived /\ obj[o].fate # "leaked"
    /\ obj[p].st = "live" /\ obj[p].revived /\ obj[p].fate # "leaked"
    /\ obj[o].id = obj[p].id
    => o = p

\* Every call returns, owner and waiters, whatever fails and whatever is closed meanwhile:
\* a caller comes to rest again and again, or stays with a call of an adapter that does
\* not return, its own or that of the revival it waits for (manager.go:140).
Stuck(c) == AtAdapter(c) \/ (pc[c] = "wait" /\ AtAdapter(held[c]))
CallsReturn == \A c \in Callers : []<>(pc[c] = "idle") \/ <>[]Stuck(c)
=============================================================================
