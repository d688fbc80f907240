------------------------------ MODULE SessionLog ------------------------------
(***************************************************************************)
(* The event log of one session: the pump that stamps, persists and         *)
(* broadcasts adapter events (session.Session), the SQLite events table     *)
(* (session.Store), the clients that subscribe, fall behind, drop and       *)
(* re-attach (server.subscribe), and the restarts in between.               *)
(*                                                                          *)
(* The pump handles an event, and Subscribe builds its replay, with s.mu    *)
(* held: each is one action.  A subscriber is a goroutine that runs outside *)
(* of the lock.  A crash can fall between the store write and the broadcast.*)
(***************************************************************************)
EXTENDS Integers, Sequences, FiniteSets

CONSTANTS Clients,      \* subscribers of the session, one attachment each at a time
          SubBuffer,    \* subBuffer: room of a subscriber's channel beyond its replay
          MaxBuffer,    \* maxBuffer: length of the in-memory ring
          Faults,       \* which store calls may fail, a subset of FaultKinds
          MaxEvents,    \* bound: events ever stamped, over all restarts
          MaxRevivals   \* bound: times the session is revived

FaultKinds == {"append",     \* AppendEvent of the pump, its INSERT or the chmod after it
               "native",     \* SetNativeID after a stored session.started, likewise
               "replay",     \* LoadEvents inside Subscribe
               "revive"}     \* LoadRecentEvents and NextSeq of one revival, both

ASSUME ConstantsOK == /\ SubBuffer \in Nat \ {0}
                      /\ MaxBuffer \in Nat \ {0}
                      /\ Faults \subseteq FaultKinds
                      /\ MaxEvents \in Nat \ {0}
                      /\ MaxRevivals \in Nat

\* "persistError" is the notice the pump makes up when a write fails.
Kinds == {"started", "output", "persistError", "ended"}

\* id tells two events with the same seq apart; it stands for type and data.
Event == [seq : 0 .. MaxEvents - 1, id : 1 .. MaxEvents, kind : Kinds]

\* off: no goroutine.  on: in s.subs.  cut: dropped by broadcastLocked, overflow
\* closed.  eos: closed at the end of the stream.  replay: attached to an ended
\* session, closed after its replay.
SubStates == {"off", "on", "cut", "eos", "replay"}

VARIABLES
  phase,     \* "live": pump running; "ended": stream over, not yet forgotten; "gone"
  nextSeq,   \* s.nextSeq
  buf,       \* s.buf, as the set of its events
  log,       \* the rows of the events table, as a set keyed by seq
  nativeId,  \* sessions.native_id: id of the session.started it came from, 0 if none
  made,      \* events stamped so far (their ids)
  revivals,  \* revivals so far
  sub,       \* sub[c]: the subscriber of client c, its channel included
  pos,       \* pos[c]: seq of the newest event c was handed, or where it attached
  seen,      \* seen[c]: all events handed to c            (history)
  since,     \* since[c]: c asked for everything from here (history)
  lost       \* events stamped but not stored              (history)

vars == <<phase, nextSeq, buf, log, nativeId, made, revivals, sub, pos, seen,
          since, lost>>
-----------------------------------------------------------------------------
(* The channel of a subscriber.  Its first Len(replay) places are the replay, *)
(* kept as the set backlog because LoadEvents returns it ORDER BY seq.        *)

Off == [st |-> "off", backlog |-> {}, ch |-> <<>>, cap |-> 0]

\* Mutant of Full: one event too many is let in.
FullLate(s) == Cardinality(s.backlog) + Len(s.ch) > s.cap

Full(s) == Cardinality(s.backlog) + Len(s.ch) >= s.cap

\* Mutant of Offer: a full subscriber loses the event and is kept.
OfferDrops(s, e) ==
  IF s.st # "on" \/ Full(s) THEN s ELSE [s EXCEPT !.ch = Append(@, e)]

Offer(s, e) ==
  IF s.st # "on" THEN s
  ELSE IF Full(s) THEN [s EXCEPT !.st = "cut"]
  ELSE [s EXCEPT !.ch = Append(@, e)]

Broadcast(subs, e) == [c \in Clients |-> Offer(subs[c], e)]

\* The end of the stream: the event if it fits, and the channel is closed.
SendEnd(s, e) ==
  IF s.st # "on" THEN s
  ELSE [s EXCEPT !.st = "eos", !.ch = IF Full(s) THEN @ ELSE Append(@, e)]
-----------------------------------------------------------------------------
(* The store.                                                                *)

\* The newest MaxBuffer events: LoadRecentEvents, and the trim of the ring.
Newest(S) == {e \in S : Cardinality({x \in S : x.seq > e.seq}) < MaxBuffer}

\* Mutant of AppendEvent: the table is trimmed as the ring is.
AppendTrimmed(rows, e) == Newest(rows \cup {e})

\* INSERT OR IGNORE on the primary key (session_id, seq).
AppendEvent(rows, e) ==
  IF \E x \in rows : x.seq = e.seq THEN rows ELSE rows \cup {e}

\* Mutant of Follows: the seq of the last event instead of the one after it.
FollowsSame(n, S) == \/ S = {} /\ n = 0
                     \/ \E x \in S : n = x.seq /\ \A y \in S : y.seq <= n

\* n is the seq after the last one in S: NextSeq, and buf[len-1].Seq + 1.
Follows(n, S) == /\ \A x \in S : x.seq < n
                 /\ IF S = {} THEN n = 0 ELSE \E x \in S : n = x.seq + 1

\* Mutant of Stored: fromSeq taken as the last event seen.
StoredAfter(f) == {x \in log : f < x.seq /\ x.seq < nextSeq}

\* LoadEvents from f up to nextSeq.
Stored(f) == {x \in log : f <= x.seq /\ x.seq < nextSeq}
-----------------------------------------------------------------------------
Init == /\ phase = "live"
        /\ nextSeq = 0
        /\ buf = {}
        /\ log = {}
        /\ nativeId = 0
        /\ made = 0
        /\ revivals = 0
        /\ sub = [c \in Clients |-> Off]
        /\ pos = [c \in Clients |-> -1]
        /\ seen = [c \in Clients |-> {}]
        /\ since = [c \in Clients |-> 0]
        /\ lost = {}

Stamp(n, k) == [seq |-> nextSeq + n, id |-> made + 1 + n, kind |-> k]

ClientHistory == <<pos, seen, since>>

\* One iteration of the pump, every store call succeeding.
PumpStored(kind) ==
  LET ev == Stamp(0, kind) IN
  /\ phase = "live"
  /\ made + 1 <= MaxEvents
  /\ log' = AppendEvent(log, ev)
  /\ nativeId' = IF kind = "started" THEN ev.id ELSE nativeId
  /\ sub' = Broadcast(sub, ev)
  /\ buf' = Newest(buf \cup {ev})
  /\ nextSeq' = nextSeq + 1
  /\ made' = made + 1
  /\ UNCHANGED <<phase, revivals, lost, ClientHistory>>

\* The write of ev fails, be it before the row is in or in the chmod that follows.
WriteFails(ev) == \/ log' = log /\ lost' = lost \cup {ev, Stamp(1, "persistError")}
                  \/ /\ log' = AppendEvent(log, ev)
                     /\ lost' = lost \cup {Stamp(1, "persistError")}

\* One iteration in which persist fails: the event is broadcast all the same, and
\* after it a notice that takes the next seq and is not persisted at all.
PumpUnstored(kind, fault) ==
  LET ev  == Stamp(0, kind)
      err == Stamp(1, "persistError")
  IN
  /\ phase = "live"
  /\ made + 2 <= MaxEvents
  /\ fault \in Faults
  /\ \/ /\ fault = "append"
        /\ WriteFails(ev)
        /\ UNCHANGED nativeId
     \/ /\ fault = "native"
        /\ kind = "started"
        /\ log' = AppendEvent(log, ev)
        /\ lost' = lost \cup {err}
        /\ nativeId' \in {nativeId, ev.id}
  /\ sub' = Broadcast(Broadcast(sub, ev), err)
  /\ buf' = Newest(Newest(buf \cup {ev}) \cup {err})
  /\ nextSeq' = nextSeq + 2
  /\ made' = made + 2
  /\ UNCHANGED <<phase, revivals, ClientHistory>>

\* The adapter stream is over.  The end event is appended to the ring untrimmed.
PumpEndStored ==
  LET end == Stamp(0, "ended") IN
  /\ phase = "live"
  /\ made + 1 <= MaxEvents
  /\ phase' = "ended"
  /\ log' = AppendEvent(log, end)
  /\ sub' = [c \in Clients |-> SendEnd(sub[c], end)]
  /\ buf' = buf \cup {end}
  /\ nextSeq' = nextSeq + 1
  /\ made' = made + 1
  /\ UNCHANGED <<nativeId, revivals, lost, ClientHistory>>

\* Persisting the end fails: the notice, seq n + 1, is broadcast before the end, seq n.
PumpEndUnstored ==
  LET end == Stamp(0, "ended")
      err == Stamp(1, "persistError")
  IN
  /\ phase = "live"
  /\ made + 2 <= MaxEvents
  /\ "append" \in Faults
  /\ phase' = "ended"
  /\ WriteFails(end)
  /\ sub' = [c \in Clients |-> SendEnd(Broadcast(sub, err)[c], end)]
  /\ buf' = buf \cup {end, err}
  /\ nextSeq' = nextSeq + 2
  /\ made' = made + 2
  /\ UNCHANGED <<nativeId, revivals, ClientHistory>>

\* The pump's last act: the registry lets go of the ended session.
ForgetEnded ==
  /\ phase = "ended"
  /\ phase' = "gone"
  /\ nextSeq' = 0
  /\ buf' = {}
  /\ UNCHANGED <<log, nativeId, made, revivals, sub, lost, ClientHistory>>

\* The daemon dies: the session, the goroutines and their channels with it.
Vanish ==
  /\ phase' = "gone"
  /\ nextSeq' = 0
  /\ buf' = {}
  /\ sub' = [c \in Clients |-> Off]
  /\ UNCHANGED <<revivals, pos, seen, since, lost>>

Crash == /\ phase # "gone"
         /\ Vanish
         /\ UNCHANGED <<log, nativeId, made>>

\* It dies inside persist: the row is in, nobody was told, native_id may be unset.
CrashInPersist(kind) ==
  LET ev == Stamp(0, kind) IN
  /\ phase = "live"
  /\ made + 1 <= MaxEvents
  /\ log' = AppendEvent(log, ev)
  /\ nativeId' \in IF kind = "started" THEN {nativeId, ev.id} ELSE {nativeId}
  /\ made' = made + 1
  /\ Vanish

\* The tail of Resolve: the ring and the next seq are read back from the store.
\* Either read may fail and the other makes up for it, unless both do.  One Session of an
\* id is live at a time here.  A Resolve that was overtaken (RevivesOnce of
\* SessionRegistry), that comes after a Close whose MarkEnded failed, or before the
\* MarkEnded of one under way, leaves two, which number their events alike: INSERT OR
\* IGNORE keeps the first of each number.
Revive ==
  /\ phase = "gone"
  /\ revivals < MaxRevivals
  /\ revivals' = revivals + 1
  /\ phase' = "live"
  /\ \/ /\ buf' \in {Newest(log), {}}
        /\ nextSeq' \in 0 .. MaxEvents
        /\ Follows(nextSeq', log)
     \/ /\ buf' = Newest(log)
        /\ nextSeq' \in 0 .. MaxEvents
        /\ Follows(nextSeq', buf')
     \/ /\ "revive" \in Faults
        /\ buf' = {}
        /\ nextSeq' = 0
  /\ UNCHANGED <<log, nativeId, made, sub, lost, ClientHistory>>
-----------------------------------------------------------------------------
(* The subscriber goroutine of server.subscribe, and the client behind it.   *)

\* A full replay, a resume after the newest event seen, or a live tail.
FromSeqs(c) == {0, pos[c] + 1, nextSeq}

Attach(c, f) ==
  /\ phase \in {"live", "ended"}
  /\ sub[c].st = "off"
  /\ \E n \in 0 .. nextSeq :
       /\ n = nextSeq \/ "replay" \in Faults   \* a page that cannot be read ends the replay
       /\ LET replay == {x \in Stored(f) : x.seq < n} IN
          sub' = [sub EXCEPT ![c] =
                    [st |-> IF phase = "ended" THEN "replay" ELSE "on",
                     backlog |-> replay,
                     ch |-> <<>>,
                     cap |-> Cardinality(replay) + SubBuffer]]
  /\ pos' = [pos EXCEPT ![c] = (IF f < nextSeq THEN f ELSE nextSeq) - 1]
  /\ since' = [since EXCEPT ![c] = IF f = pos[c] + 1 THEN @ ELSE f]
  /\ UNCHANGED <<phase, nextSeq, buf, log, nativeId, made, revivals, seen, lost>>

Session == <<phase, nextSeq, buf, log, nativeId, made, revivals, lost>>

\* e was received from the channel and accepted by client.notify.
Hand(c, e) ==
  /\ pos' = [pos EXCEPT ![c] = IF e.seq > @ THEN e.seq ELSE @]
  /\ seen' = [seen EXCEPT ![c] = @ \cup {e}]
  /\ UNCHANGED <<Session, since>>

\* Mutant of DeliverReplay: LoadEvents without its ORDER BY.
DeliverUnordered(c) ==
  \E e \in sub[c].backlog :
    /\ sub' = [sub EXCEPT ![c].backlog = @ \ {e}]
    /\ Hand(c, e)

DeliverReplay(c) ==
  \E e \in sub[c].backlog :
    /\ \A x \in sub[c].backlog : e.seq <= x.seq
    /\ sub' = [sub EXCEPT ![c].backlog = @ \ {e}]
    /\ Hand(c, e)

DeliverLive(c) ==
  /\ sub[c].backlog = {}
  /\ sub[c].ch # <<>>
  /\ sub' = [sub EXCEPT ![c].ch = Tail(@)]
  /\ Hand(c, Head(sub[c].ch))

\* The goroutine returns.
Exit(c) ==
  /\ sub' = [sub EXCEPT ![c] = Off]
  /\ UNCHANGED <<Session, pos, seen, since>>

\* The channel is closed and empty: the goroutine returns without a word.
Drained(c) ==
  /\ sub[c].st \in {"cut", "eos", "replay"}
  /\ sub[c].backlog = {}
  /\ sub[c].ch = <<>>
  /\ Exit(c)

\* The overflow channel is closed: select may pick it while events are still queued.
Overflowed(c) == sub[c].st = "cut" /\ Exit(c)

\* notify found the client's queue full, or the connection went away.
Disconnect(c) == sub[c].st # "off" /\ Exit(c)

Goroutine(c) == DeliverReplay(c) \/ DeliverLive(c) \/ Drained(c) \/ Overflowed(c)
-----------------------------------------------------------------------------
Next ==
  \/ \E k \in {"started", "output"} : PumpStored(k)
  \/ \E k \in {"started", "output"}, f \in {"append", "native"} : PumpUnstored(k, f)
  \/ PumpEndStored
  \/ PumpEndUnstored
  \/ ForgetEnded
  \/ Crash
  \/ \E k \in {"started", "output", "ended"} : CrashInPersist(k)
  \/ Revive
  \/ \E c \in Clients :
       \/ \E f \in FromSeqs(c) : Attach(c, f)
       \/ DeliverReplay(c)
       \/ DeliverLive(c)
       \/ Drained(c)
       \/ Overflowed(c)
       \/ Disconnect(c)

Spec == Init /\ [][Next]_vars

\* The runtime keeps scheduling a goroutine whose select has a ready case.
FairSpec == Spec /\ \A c \in Clients : WF_vars(Goroutine(c))
-----------------------------------------------------------------------------
(* Properties.                                                               *)

Sub == [st : SubStates, backlog : SUBSET Event, ch : Seq(Event), cap : Nat]

\* Every variable stays in its range, and a channel within its capacity: it is what
\* keeps broadcastLocked, which sends with s.mu held, from ever blocking the pump.
TypeOK ==
  /\ phase \in {"live", "ended", "gone"}
  /\ nextSeq \in 0 .. MaxEvents
  /\ buf \subseteq Event
  /\ log \subseteq Event
  /\ nativeId \in 0 .. MaxEvents
  /\ made \in 0 .. MaxEvents
  /\ nextSeq <= made
  /\ revivals \in 0 .. MaxRevivals
  /\ sub \in [Clients -> Sub]
  /\ \A c \in Clients : Cardinality(sub[c].backlog) + Len(sub[c].ch) <= sub[c].cap
  /\ pos \in [Clients -> -1 .. MaxEvents - 1]
  /\ seen \in [Clients -> SUBSET Event]
  /\ since \in [Clients -> 0 .. MaxEvents]
  /\ lost \subseteq Event

\* The seq a live session stamps next is above every stored one, so that the INSERT
\* OR IGNORE of AppendEvent never drops an event: what Resolve restores after a
\* restart is right whichever one of its two reads failed.
SeqAheadOfLog == phase # "gone" => \A x \in log : x.seq < nextSeq

\* What a client was handed is stored, unchanged, under the seq it was handed with,
\* or is one of the events whose write failed (which it was also told of).
HandedIsDurable == \A c \in Clients : seen[c] \subseteq log \cup lost

\* "reconnect with session/attach {fromSeq} and miss nothing": a stored event between
\* where a client began and where it now is was handed to it, whatever overflows,
\* disconnects and restarts lie in between.  The exceptions are a seq that was first
\* given to an event whose write failed and then, after a revival, to another; and an
\* end of the stream whose write was reported to have failed, by a notice that went first.
NothingMissed ==
  \A c \in Clients : \A x \in log :
    since[c] <= x.seq /\ x.seq <= pos[c] =>
      \/ x \in seen[c]
      \/ \E y \in lost : y.seq = x.seq \/ (x.kind = "ended" /\ y.seq = x.seq + 1)

\* The native conversation a revival resumes is one whose session.started is stored:
\* the row is written before sessions.native_id is.
NativeIdStored == nativeId # 0 => \E x \in log : x.id = nativeId /\ x.kind = "started"

\* A subscriber that stays is handed every stored event.
EventuallyHanded ==
  \A c \in Clients : \A q \in 0 .. MaxEvents - 1 :
    (sub[c].st = "on" /\ pos[c] < q /\ \E x \in log : x.seq = q)
      ~> (pos[c] >= q \/ sub[c].st = "off")

EndOf(e) == e.kind = "ended"
Tailed == INSTANCE TailedLog WITH Clients <- Clients, Event <- Event, EndOf <- EndOf,
                                  log <- log, pos <- pos, seen <- seen

\* The clients of a session tail one durable log, as TailedLog specifies it: the pump,
\* the channels, the overflows and the restarts add nothing that a client could tell.
TailsLog == Tailed!Spec
=============================================================================
