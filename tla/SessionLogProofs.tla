--------------------------- MODULE SessionLogProofs ---------------------------
(***************************************************************************)
(* What holds of SessionLog for every number of clients, every capacity and *)
(* every bound, checked by TLAPS.  The inductive invariant comes in layers,   *)
(* each resting on those before it:                                          *)
(*                                                                           *)
(*   TypeInv      the types, what a channel may hold, seqs below made        *)
(*   SeqAheadOfLog  the next seq is above the log, if no revival loses both  *)
(*                of its reads                                               *)
(*   DurableInv   queued and handed events are stored or known to be lost    *)
(*   TailInv      a channel is a piece of the log, if reads do not fail      *)
(*   WholeInv     a stored event that a channel leaves out is excused, and   *)
(*                every seq below the next was given to an event once        *)
(***************************************************************************)
EXTENDS SessionLog, FiniteSetTheorems, SequenceTheorems, WellFoundedInduction, TLAPS

-----------------------------------------------------------------------------
(* Channels.                                                                  *)

\* A subscriber whose channel holds members of T only; Sub is SubOf(Event).
SubOf(T) == [st : SubStates, backlog : SUBSET T, ch : Seq(T), cap : Nat]

\* Its channel is within its capacity.
Fits(s) == /\ IsFiniteSet(s.backlog)
           /\ Cardinality(s.backlog) + Len(s.ch) <= s.cap

\* Offering a channel an event keeps it within its capacity, and in T.
LEMMA OfferFits ==
  ASSUME NEW T, NEW s \in SubOf(T), NEW e \in T
  PROVE  /\ Offer(s, e) \in SubOf(T)
         /\ Fits(s) => Fits(Offer(s, e))
<1>1. CASE s.st # "on"
  BY <1>1 DEF Offer
<1>2. CASE s.st = "on" /\ Full(s)
  BY <1>2 DEF Offer, SubOf, SubStates, Fits
<1>3. CASE s.st = "on" /\ ~Full(s)
  <2>1. Offer(s, e) = [s EXCEPT !.ch = Append(@, e)]
    BY <1>3 DEF Offer
  <2>2. /\ Append(s.ch, e) \in Seq(T)
        /\ Len(Append(s.ch, e)) = Len(s.ch) + 1
    BY AppendProperties DEF SubOf
  <2>3. Offer(s, e) \in SubOf(T)
    BY <2>1, <2>2 DEF SubOf
  <2>4. ASSUME Fits(s) PROVE Fits(Offer(s, e))
    <3>1. Cardinality(s.backlog) \in Nat
      BY <2>4, FS_CardinalityType DEF Fits
    <3>2. /\ Offer(s, e).backlog = s.backlog
          /\ Offer(s, e).cap = s.cap
          /\ Offer(s, e).ch = Append(s.ch, e)
      BY <2>1 DEF SubOf
    <3>3. Len(s.ch) \in Nat /\ s.cap \in Nat
      BY LenProperties DEF SubOf
    <3> QED
      BY <1>3, <2>2, <2>4, <3>1, <3>2, <3>3 DEF Fits, Full
  <2> QED
    BY <2>3, <2>4
<1> QED
  BY <1>1, <1>2, <1>3

\* So does sending it the end of the stream.
LEMMA SendEndFits ==
  ASSUME NEW T, NEW s \in SubOf(T), NEW e \in T
  PROVE  /\ SendEnd(s, e) \in SubOf(T)
         /\ Fits(s) => Fits(SendEnd(s, e))
<1>1. CASE s.st # "on"
  BY <1>1 DEF SendEnd
<1>2. CASE s.st = "on" /\ Full(s)
  BY <1>2 DEF SendEnd, SubOf, SubStates, Fits
<1>3. CASE s.st = "on" /\ ~Full(s)
  <2>1. SendEnd(s, e) = [s EXCEPT !.st = "eos", !.ch = Append(@, e)]
    BY <1>3 DEF SendEnd
  <2>2. /\ Append(s.ch, e) \in Seq(T)
        /\ Len(Append(s.ch, e)) = Len(s.ch) + 1
    BY AppendProperties DEF SubOf
  <2>3. SendEnd(s, e) \in SubOf(T)
    BY <2>1, <2>2 DEF SubOf, SubStates
  <2>4. ASSUME Fits(s) PROVE Fits(SendEnd(s, e))
    <3>1. Cardinality(s.backlog) \in Nat
      BY <2>4, FS_CardinalityType DEF Fits
    <3>2. /\ SendEnd(s, e).backlog = s.backlog
          /\ SendEnd(s, e).cap = s.cap
          /\ SendEnd(s, e).ch = Append(s.ch, e)
      BY <2>1 DEF SubOf
    <3>3. Len(s.ch) \in Nat /\ s.cap \in Nat
      BY LenProperties DEF SubOf
    <3> QED
      BY <1>3, <2>2, <2>4, <3>1, <3>2, <3>3 DEF Fits, Full
  <2> QED
    BY <2>3, <2>4
<1> QED
  BY <1>1, <1>2, <1>3

\* A subscriber of T is one of every larger set.
LEMMA SubOfMonotonic ==
  ASSUME NEW T, NEW U, T \subseteq U, NEW s \in SubOf(T)
  PROVE  s \in SubOf(U)
  BY SeqMonotonic DEF SubOf
-----------------------------------------------------------------------------
(* The store.                                                                 *)

\* A finite, non-empty set of events has a newest one.
LEMMA NewestExists ==
  ASSUME NEW S \in SUBSET Event, S # {}
  PROVE  \E e \in S : \A x \in S : x.seq <= e.seq
<1> DEFINE D == {MaxEvents - x.seq : x \in S}
<1>1. \A x \in S : x.seq \in Int /\ x.seq < MaxEvents /\ x.seq >= 0
  BY ConstantsOK DEF Event
<1>2. D \subseteq Nat /\ D # {}
  BY <1>1, ConstantsOK
<1>3. PICK d \in D : \A b \in D : ~(<<b, d>> \in OpToRel(<, Nat))
  BY <1>2, NatLessThanWellFounded, WFMin
<1>4. PICK e \in S : d = MaxEvents - e.seq
  OBVIOUS
<1>5. ASSUME NEW x \in S PROVE x.seq <= e.seq
  <2>1. ~(<<MaxEvents - x.seq, d>> \in OpToRel(<, Nat))
    BY <1>3
  <2>2. MaxEvents - x.seq \in Nat /\ d \in Nat
    BY <1>2
  <2>3. ~(MaxEvents - x.seq < d)
    BY <2>1, <2>2 DEF OpToRel
  <2> QED
    BY <1>1, <1>4, <2>3, ConstantsOK
<1> QED
  BY <1>5

\* The next seq read off the ring is right for the whole log: trimming keeps the newest.
LEMMA FollowsNewest ==
  ASSUME NEW S \in SUBSET Event, NEW n \in Nat, Follows(n, Newest(S))
  PROVE  Follows(n, S)
<1>1. Newest(S) \subseteq S
  BY DEF Newest
<1>2. CASE S = {}
  BY <1>1, <1>2 DEF Follows
<1>3. CASE S # {}
  <2>1. PICK e \in S : \A x \in S : x.seq <= e.seq
    BY <1>3, NewestExists
  <2>2. {x \in S : x.seq > e.seq} = {}
    BY <2>1, ConstantsOK DEF Event
  <2>3. e \in Newest(S)
    BY <2>2, FS_EmptySet, ConstantsOK DEF Newest
  <2>4. \A x \in S : x.seq < n
    BY <2>1, <2>3, ConstantsOK DEF Follows, Event
  <2> QED
    BY <1>1, <1>3, <2>3, <2>4 DEF Follows
<1> QED
  BY <1>2, <1>3
-----------------------------------------------------------------------------
(* Layer 1: types.  Seqs and the next seq are at most the number of events    *)
(* stamped, which is what bounds the seq a revival reads back.                *)

Scalars ==
  /\ phase \in {"live", "ended", "gone"}
  /\ nextSeq \in Nat /\ nextSeq <= made
  /\ buf \subseteq Event
  /\ log \subseteq Event /\ IsFiniteSet(log)
  /\ \A x \in log : x.seq < made
  /\ nativeId \in 0 .. MaxEvents
  /\ made \in 0 .. MaxEvents
  /\ revivals \in 0 .. MaxRevivals
  /\ lost \subseteq Event

Channels == /\ sub \in [Clients -> SubOf(Event)]
            /\ \A c \in Clients : Fits(sub[c])

Views == /\ pos \in [Clients -> -1 .. MaxEvents - 1]
         /\ seen \in [Clients -> SUBSET Event]
         /\ since \in [Clients -> 0 .. MaxEvents]

TypeInv == Scalars /\ Channels /\ Views

\* The type layer of the invariant gives TypeOK.
LEMMA TypeInvImpliesTypeOK == TypeInv => TypeOK
<1>1. Sub = SubOf(Event)
  BY DEF Sub, SubOf
<1>2. Scalars => nextSeq \in 0 .. MaxEvents
  BY ConstantsOK DEF Scalars
<1> QED
  BY <1>1, <1>2 DEF TypeInv, Scalars, Channels, Views, TypeOK, Fits

\* What the pump stamps is an event.
LEMMA StampIsEvent ==
  ASSUME Scalars, NEW n \in 0 .. 1, NEW k \in Kinds, made + 1 + n <= MaxEvents
  PROVE  /\ Stamp(n, k) \in Event
         /\ Stamp(n, k).seq = nextSeq + n
         /\ Stamp(n, k).id = made + 1 + n
         /\ Stamp(n, k).kind = k
  BY ConstantsOK DEF Scalars, Stamp, Event

\* A row more in the table.
LEMMA AppendScalars ==
  ASSUME Scalars, NEW e \in Event, e.seq <= made
  PROVE  /\ AppendEvent(log, e) \subseteq Event
         /\ IsFiniteSet(AppendEvent(log, e))
         /\ \A x \in AppendEvent(log, e) : x.seq < made + 1
<1>1. \A x \in log : x.seq < made + 1
  BY ConstantsOK DEF Scalars, Event
<1>2. IsFiniteSet(log \cup {e})
  BY FS_AddElement DEF Scalars
<1> QED
  BY <1>1, <1>2, ConstantsOK DEF Scalars, AppendEvent, Event

\* A broadcast keeps every channel within its capacity, and its events events.
LEMMA BroadcastChannels ==
  ASSUME NEW T, NEW subs \in [Clients -> SubOf(T)], NEW e \in T
  PROVE  /\ Broadcast(subs, e) \in [Clients -> SubOf(T)]
         /\ (\A c \in Clients : Fits(subs[c]))
              => \A c \in Clients : Fits(Broadcast(subs, e)[c])
<1>1. \A c \in Clients : Broadcast(subs, e)[c] = Offer(subs[c], e)
  BY DEF Broadcast
<1>2. \A c \in Clients : /\ Offer(subs[c], e) \in SubOf(T)
                         /\ Fits(subs[c]) => Fits(Offer(subs[c], e))
  BY OfferFits
<1> QED
  BY <1>1, <1>2 DEF Broadcast

\* The type layer holds of a session just created.
LEMMA TypeInvInit == Init => TypeInv
<1> SUFFICES ASSUME Init PROVE TypeInv
  OBVIOUS
<1>1. Scalars
  BY FS_EmptySet, ConstantsOK DEF Init, Scalars
<1>2. Off \in SubOf(Event)
  BY EmptySeq DEF Off, SubOf, SubStates
<1>3. Fits(Off)
  BY FS_EmptySet, EmptySeq DEF Off, Fits
<1>4. Channels
  BY <1>2, <1>3 DEF Init, Channels
<1>5. Views
  BY ConstantsOK DEF Init, Views
<1> QED
  BY <1>1, <1>4, <1>5 DEF TypeInv

\* The pump: a write that succeeds, one that fails, and the end of the stream.
LEMMA TypeInvPumpStored ==
  ASSUME TypeInv, NEW kind \in {"started", "output"}, PumpStored(kind)
  PROVE  TypeInv'
<1> DEFINE ev == Stamp(0, kind)
<1>1. ev \in Event /\ ev.seq = nextSeq /\ ev.id = made + 1
  BY StampIsEvent, ConstantsOK DEF TypeInv, Scalars, PumpStored, Kinds
<1>2. Scalars'
  <2>1. ev.seq <= made
    BY <1>1 DEF TypeInv, Scalars
  <2>2. /\ log' \subseteq Event /\ IsFiniteSet(log')
        /\ \A x \in log' : x.seq < made'
    BY <1>1, <2>1, AppendScalars DEF TypeInv, PumpStored
  <2>3. buf' \subseteq Event
    BY <1>1 DEF TypeInv, Scalars, PumpStored, Newest
  <2>4. nativeId' \in 0 .. MaxEvents
    BY <1>1, ConstantsOK DEF TypeInv, Scalars, PumpStored
  <2>5. /\ phase' \in {"live", "ended", "gone"}
        /\ nextSeq' \in Nat /\ nextSeq' <= made'
        /\ made' \in 0 .. MaxEvents
        /\ revivals' \in 0 .. MaxRevivals
        /\ lost' \subseteq Event
    BY ConstantsOK DEF TypeInv, Scalars, PumpStored
  <2> QED
    BY <2>2, <2>3, <2>4, <2>5 DEF Scalars
<1>3. Channels'
  BY <1>1, BroadcastChannels DEF TypeInv, Channels, PumpStored
<1>4. Views'
  BY DEF TypeInv, Views, PumpStored, ClientHistory
<1> QED
  BY <1>2, <1>3, <1>4 DEF TypeInv

\* An iteration whose write fails keeps the type layer.
LEMMA TypeInvPumpUnstored ==
  ASSUME TypeInv, NEW kind \in {"started", "output"}, NEW fault \in {"append", "native"},
         PumpUnstored(kind, fault)
  PROVE  TypeInv'
<1> DEFINE ev == Stamp(0, kind)
           err == Stamp(1, "persistError")
<1>1. ev \in Event /\ ev.seq = nextSeq /\ ev.id = made + 1
  BY StampIsEvent, ConstantsOK DEF TypeInv, Scalars, PumpUnstored, Kinds
<1>2. err \in Event
  BY StampIsEvent, ConstantsOK DEF TypeInv, Scalars, PumpUnstored, Kinds
<1>3. Scalars'
  <2>1. ev.seq <= made
    BY <1>1 DEF TypeInv, Scalars
  <2>2. log' \in {log, AppendEvent(log, ev)} /\ lost' \subseteq lost \cup {ev, err}
    BY DEF PumpUnstored, WriteFails
  <2>3. /\ log' \subseteq Event /\ IsFiniteSet(log')
        /\ \A x \in log' : x.seq < made + 1
    <3>1. CASE log' = log
      BY <3>1, ConstantsOK DEF TypeInv, Scalars, Event
    <3>2. CASE log' = AppendEvent(log, ev)
      BY <1>1, <2>1, <3>2, AppendScalars DEF TypeInv
    <3> QED
      BY <2>2, <3>1, <3>2
  <2>4. \A x \in log' : x.seq < made'
    BY <2>3, ConstantsOK DEF TypeInv, Scalars, PumpUnstored, Event
  <2>5. buf' \subseteq Event
    BY <1>1, <1>2 DEF TypeInv, Scalars, PumpUnstored, Newest
  <2>6. nativeId' \in 0 .. MaxEvents
    BY <1>1, ConstantsOK DEF TypeInv, Scalars, PumpUnstored
  <2>7. lost' \subseteq Event
    BY <1>1, <1>2, <2>2 DEF TypeInv, Scalars
  <2>8. /\ phase' \in {"live", "ended", "gone"}
        /\ nextSeq' \in Nat /\ nextSeq' <= made'
        /\ made' \in 0 .. MaxEvents
        /\ nativeId' \in 0 .. MaxEvents
        /\ revivals' \in 0 .. MaxRevivals
    BY <2>6, ConstantsOK DEF TypeInv, Scalars, PumpUnstored
  <2> QED
    BY <2>3, <2>4, <2>5, <2>7, <2>8 DEF Scalars
<1>4. Channels'
  <2>1. /\ Broadcast(sub, ev) \in [Clients -> SubOf(Event)]
        /\ \A c \in Clients : Fits(Broadcast(sub, ev)[c])
    BY <1>1, BroadcastChannels DEF TypeInv, Channels
  <2> QED
    BY <1>2, <2>1, BroadcastChannels DEF Channels, PumpUnstored
<1>5. Views'
  BY DEF TypeInv, Views, PumpUnstored, ClientHistory
<1> QED
  BY <1>3, <1>4, <1>5 DEF TypeInv

\* So does every channel when it is sent the end of the stream.
LEMMA EndChannels ==
  ASSUME NEW T, NEW subs \in [Clients -> SubOf(T)], NEW e \in T,
         \A c \in Clients : Fits(subs[c])
  PROVE  /\ [c \in Clients |-> SendEnd(subs[c], e)] \in [Clients -> SubOf(T)]
         /\ \A c \in Clients : Fits([d \in Clients |-> SendEnd(subs[d], e)][c])
<1>1. \A c \in Clients : SendEnd(subs[c], e) \in SubOf(T) /\ Fits(SendEnd(subs[c], e))
  BY SendEndFits
<1> QED
  BY <1>1

\* The end of the stream keeps the type layer when its write succeeds ...
LEMMA TypeInvPumpEndStored ==
  ASSUME TypeInv, PumpEndStored
  PROVE  TypeInv'
<1> DEFINE end == Stamp(0, "ended")
<1>1. end \in Event /\ end.seq = nextSeq
  BY StampIsEvent, ConstantsOK DEF TypeInv, Scalars, PumpEndStored, Kinds
<1>2. Scalars'
  <2>1. end.seq <= made
    BY <1>1 DEF TypeInv, Scalars
  <2>2. /\ log' \subseteq Event /\ IsFiniteSet(log')
        /\ \A x \in log' : x.seq < made'
    BY <1>1, <2>1, AppendScalars DEF TypeInv, PumpEndStored
  <2>3. buf' \subseteq Event
    BY <1>1 DEF TypeInv, Scalars, PumpEndStored
  <2> QED
    BY <2>2, <2>3, ConstantsOK DEF TypeInv, Scalars, PumpEndStored
<1>3. Channels'
  BY <1>1, EndChannels DEF TypeInv, Channels, PumpEndStored
<1>4. Views'
  BY DEF TypeInv, Views, PumpEndStored, ClientHistory
<1> QED
  BY <1>2, <1>3, <1>4 DEF TypeInv

\* ... and when it fails.
LEMMA TypeInvPumpEndUnstored ==
  ASSUME TypeInv, PumpEndUnstored
  PROVE  TypeInv'
<1> DEFINE end == Stamp(0, "ended")
           err == Stamp(1, "persistError")
<1>1. end \in Event /\ end.seq = nextSeq
  BY StampIsEvent, ConstantsOK DEF TypeInv, Scalars, PumpEndUnstored, Kinds
<1>2. err \in Event
  BY StampIsEvent, ConstantsOK DEF TypeInv, Scalars, PumpEndUnstored, Kinds
<1>3. Scalars'
  <2>1. end.seq <= made
    BY <1>1 DEF TypeInv, Scalars
  <2>2. log' \in {log, AppendEvent(log, end)} /\ lost' \subseteq lost \cup {end, err}
    BY DEF PumpEndUnstored, WriteFails
  <2>3. /\ log' \subseteq Event /\ IsFiniteSet(log')
        /\ \A x \in log' : x.seq < made + 1
    <3>1. CASE log' = log
      BY <3>1, ConstantsOK DEF TypeInv, Scalars, Event
    <3>2. CASE log' = AppendEvent(log, end)
      BY <1>1, <2>1, <3>2, AppendScalars DEF TypeInv
    <3> QED
      BY <2>2, <3>1, <3>2
  <2>4. \A x \in log' : x.seq < made'
    BY <2>3, ConstantsOK DEF TypeInv, Scalars, PumpEndUnstored, Event
  <2>5. buf' \subseteq Event
    BY <1>1, <1>2 DEF TypeInv, Scalars, PumpEndUnstored
  <2>6. lost' \subseteq Event
    BY <1>1, <1>2, <2>2 DEF TypeInv, Scalars
  <2>7. /\ phase' \in {"live", "ended", "gone"}
        /\ nextSeq' \in Nat /\ nextSeq' <= made'
        /\ made' \in 0 .. MaxEvents
        /\ nativeId' \in 0 .. MaxEvents
        /\ revivals' \in 0 .. MaxRevivals
    BY ConstantsOK DEF TypeInv, Scalars, PumpEndUnstored
  <2> QED
    BY <2>3, <2>4, <2>5, <2>6, <2>7 DEF Scalars
<1>4. Channels'
  <2>1. /\ Broadcast(sub, err) \in [Clients -> SubOf(Event)]
        /\ \A c \in Clients : Fits(Broadcast(sub, err)[c])
    BY <1>2, BroadcastChannels DEF TypeInv, Channels
  <2> QED
    BY <1>1, <2>1, EndChannels DEF Channels, PumpEndUnstored
<1>5. Views'
  BY DEF TypeInv, Views, PumpEndUnstored, ClientHistory
<1> QED
  BY <1>3, <1>4, <1>5 DEF TypeInv

\* A subscriber that is gone has a channel like any other.
LEMMA OffChannels == Off \in SubOf(Event) /\ Fits(Off)
  BY FS_EmptySet, EmptySeq DEF Off, SubOf, SubStates, Fits

\* The daemon's death, and the return of the session.
LEMMA TypeInvForgetEnded ==
  ASSUME TypeInv, ForgetEnded
  PROVE  TypeInv'
<1>1. Scalars'
  BY ConstantsOK DEF TypeInv, Scalars, ForgetEnded
<1>2. Channels' /\ Views'
  BY DEF TypeInv, Channels, Views, ForgetEnded, ClientHistory
<1> QED
  BY <1>1, <1>2 DEF TypeInv

\* What a dying daemon leaves behind is well typed.
LEMMA TypeInvVanish ==
  ASSUME TypeInv, Vanish
  PROVE  Channels' /\ Views' /\ phase' = "gone" /\ nextSeq' = 0 /\ buf' = {}
  BY OffChannels DEF TypeInv, Channels, Views, Vanish

\* A crash between two actions keeps the type layer ...
LEMMA TypeInvCrash ==
  ASSUME TypeInv, Crash
  PROVE  TypeInv'
<1>1. Channels' /\ Views' /\ phase' = "gone" /\ nextSeq' = 0 /\ buf' = {}
  BY TypeInvVanish DEF Crash
<1>2. Scalars'
  BY <1>1, ConstantsOK DEF TypeInv, Scalars, Crash, Vanish
<1> QED
  BY <1>1, <1>2 DEF TypeInv

\* ... and so does one inside persist.
LEMMA TypeInvCrashInPersist ==
  ASSUME TypeInv, NEW kind \in {"started", "output", "ended"}, CrashInPersist(kind)
  PROVE  TypeInv'
<1> DEFINE ev == Stamp(0, kind)
<1>1. ev \in Event /\ ev.seq = nextSeq /\ ev.id = made + 1
  BY StampIsEvent, ConstantsOK DEF TypeInv, Scalars, CrashInPersist, Kinds
<1>2. Channels' /\ Views' /\ phase' = "gone" /\ nextSeq' = 0 /\ buf' = {}
  BY TypeInvVanish DEF CrashInPersist
<1>3. Scalars'
  <2>1. ev.seq <= made
    BY <1>1 DEF TypeInv, Scalars
  <2>2. /\ log' \subseteq Event /\ IsFiniteSet(log')
        /\ \A x \in log' : x.seq < made'
    BY <1>1, <2>1, AppendScalars DEF TypeInv, CrashInPersist
  <2>3. nativeId' \in 0 .. MaxEvents
    BY <1>1, ConstantsOK DEF TypeInv, Scalars, CrashInPersist
  <2> QED
    BY <1>2, <2>2, <2>3, ConstantsOK DEF TypeInv, Scalars, CrashInPersist, Vanish
<1> QED
  BY <1>2, <1>3 DEF TypeInv

\* What Resolve reads back after a restart is well typed.
LEMMA TypeInvRevive ==
  ASSUME TypeInv, Revive
  PROVE  TypeInv'
<1>1. Channels' /\ Views'
  BY DEF TypeInv, Channels, Views, Revive, ClientHistory
<1>2. buf' \subseteq Event
  BY DEF TypeInv, Scalars, Revive, Newest
<1>3. nextSeq' \in Nat
  BY DEF Revive
<1>4. Follows(nextSeq', log) \/ nextSeq' = 0
  BY <1>3, FollowsNewest DEF TypeInv, Scalars, Revive
<1>5. nextSeq' <= made
  BY <1>3, <1>4, ConstantsOK DEF TypeInv, Scalars, Follows, Event
<1>6. Scalars'
  BY <1>2, <1>3, <1>5, ConstantsOK DEF TypeInv, Scalars, Revive
<1> QED
  BY <1>1, <1>6 DEF TypeInv

\* The subscriber goroutine leaves the session alone.
LEMMA TypeInvAttach ==
  ASSUME TypeInv, NEW c \in Clients, NEW f \in FromSeqs(c), Attach(c, f)
  PROVE  TypeInv'
<1>1. f \in 0 .. MaxEvents
  BY ConstantsOK DEF TypeInv, Scalars, Views, FromSeqs
<1>2. Scalars'
  BY DEF TypeInv, Scalars, Attach
<1>3. Channels'
  <2>1. PICK n \in 0 .. nextSeq :
          sub' = [sub EXCEPT ![c] =
                    [st |-> IF phase = "ended" THEN "replay" ELSE "on",
                     backlog |-> {x \in Stored(f) : x.seq < n},
                     ch |-> <<>>,
                     cap |-> Cardinality({x \in Stored(f) : x.seq < n}) + SubBuffer]]
    BY DEF Attach
  <2> DEFINE replay == {x \in Stored(f) : x.seq < n}
             new == [st |-> IF phase = "ended" THEN "replay" ELSE "on",
                     backlog |-> replay, ch |-> <<>>, cap |-> Cardinality(replay) + SubBuffer]
  <2>2. replay \subseteq log
    BY DEF Stored
  <2>3. IsFiniteSet(replay) /\ Cardinality(replay) \in Nat
    BY <2>2, FS_Subset, FS_CardinalityType DEF TypeInv, Scalars
  <2>4. replay \subseteq Event
    BY <2>2 DEF TypeInv, Scalars
  <2>5. new \in SubOf(Event)
    BY <2>3, <2>4, EmptySeq, ConstantsOK DEF SubOf, SubStates
  <2>6. Fits(new)
    BY <2>3, EmptySeq, ConstantsOK DEF Fits
  <2>7. sub' = [sub EXCEPT ![c] = new]
    BY <2>1
  <2> HIDE DEF new
  <2> QED
    BY <2>5, <2>6, <2>7 DEF TypeInv, Channels
<1>4. Views'
  <2>1. pos' \in [Clients -> -1 .. MaxEvents - 1]
    BY <1>1, ConstantsOK DEF TypeInv, Scalars, Views, Attach
  <2>2. since' \in [Clients -> 0 .. MaxEvents]
    BY <1>1, ConstantsOK DEF TypeInv, Scalars, Views, Attach
  <2> QED
    BY <2>1, <2>2 DEF TypeInv, Views, Attach
<1> QED
  BY <1>2, <1>3, <1>4 DEF TypeInv

\* Handing a client an event keeps its history well typed.
LEMMA TypeInvHand ==
  ASSUME TypeInv, NEW c \in Clients, NEW e \in Event, Hand(c, e)
  PROVE  Scalars' /\ Views'
<1>1. Scalars'
  BY DEF TypeInv, Scalars, Hand, Session
<1>2. pos' \in [Clients -> -1 .. MaxEvents - 1]
  BY ConstantsOK DEF TypeInv, Views, Hand, Event
<1>3. Views'
  BY <1>2 DEF TypeInv, Views, Hand
<1> QED
  BY <1>1, <1>3

\* Taking an event off the replay keeps the type layer ...
LEMMA TypeInvDeliverReplay ==
  ASSUME TypeInv, NEW c \in Clients, DeliverReplay(c)
  PROVE  TypeInv'
<1>1. PICK e \in sub[c].backlog :
        /\ sub' = [sub EXCEPT ![c].backlog = @ \ {e}]
        /\ Hand(c, e)
  BY DEF DeliverReplay
<1>2. sub[c] \in SubOf(Event) /\ Fits(sub[c])
  BY DEF TypeInv, Channels
<1>3. e \in Event
  BY <1>2 DEF SubOf
<1> DEFINE new == [sub[c] EXCEPT !.backlog = @ \ {e}]
<1>4. new \in SubOf(Event)
  BY <1>2 DEF SubOf
<1>5. Fits(new)
  <2>1. /\ new.backlog = sub[c].backlog \ {e}
        /\ new.ch = sub[c].ch /\ new.cap = sub[c].cap
    BY <1>2 DEF SubOf
  <2>2. /\ IsFiniteSet(sub[c].backlog \ {e})
        /\ Cardinality(sub[c].backlog \ {e}) = Cardinality(sub[c].backlog) - 1
    BY <1>2, FS_RemoveElement DEF Fits
  <2>3. /\ Cardinality(sub[c].backlog) \in Nat
        /\ Len(sub[c].ch) \in Nat
        /\ sub[c].cap \in Nat
    BY <1>2, FS_CardinalityType, LenProperties DEF Fits, SubOf
  <2> HIDE DEF new
  <2> QED
    BY <1>2, <2>1, <2>2, <2>3 DEF Fits
<1>6. sub' = [sub EXCEPT ![c] = new]
  BY <1>1
<1> HIDE DEF new
<1>7. Channels'
  BY <1>4, <1>5, <1>6 DEF TypeInv, Channels
<1> QED
  BY <1>1, <1>3, <1>7, TypeInvHand DEF TypeInv

\* ... and so does taking one off the live part of the channel.
LEMMA TypeInvDeliverLive ==
  ASSUME TypeInv, NEW c \in Clients, DeliverLive(c)
  PROVE  TypeInv'
<1>1. sub[c] \in SubOf(Event) /\ Fits(sub[c])
  BY DEF TypeInv, Channels
<1>2. /\ Head(sub[c].ch) \in Event
      /\ Tail(sub[c].ch) \in Seq(Event)
      /\ Len(Tail(sub[c].ch)) = Len(sub[c].ch) - 1
      /\ Len(sub[c].ch) \in Nat
  BY <1>1, HeadTailProperties, LenProperties DEF DeliverLive, SubOf
<1> DEFINE new == [sub[c] EXCEPT !.ch = Tail(@)]
<1>3. new \in SubOf(Event)
  BY <1>1, <1>2 DEF SubOf
<1>4. Fits(new)
  <2>1. /\ new.backlog = sub[c].backlog
        /\ new.ch = Tail(sub[c].ch) /\ new.cap = sub[c].cap
    BY <1>1 DEF SubOf
  <2>2. Cardinality(sub[c].backlog) \in Nat /\ sub[c].cap \in Nat
    BY <1>1, FS_CardinalityType DEF Fits, SubOf
  <2> HIDE DEF new
  <2> QED
    BY <1>1, <1>2, <2>1, <2>2 DEF Fits
<1>5. sub' = [sub EXCEPT ![c] = new]
  BY DEF DeliverLive
<1> HIDE DEF new
<1>6. Channels'
  BY <1>3, <1>4, <1>5 DEF TypeInv, Channels
<1> QED
  BY <1>2, <1>6, TypeInvHand DEF TypeInv, DeliverLive

\* A goroutine that leaves keeps the type layer.
LEMMA TypeInvExit ==
  ASSUME TypeInv, NEW c \in Clients, Exit(c)
  PROVE  TypeInv'
<1>1. Scalars'
  BY DEF TypeInv, Scalars, Exit, Session
<1>2. Channels'
  BY OffChannels DEF TypeInv, Channels, Exit
<1>3. Views'
  BY DEF TypeInv, Views, Exit
<1> QED
  BY <1>1, <1>2, <1>3 DEF TypeInv

\* Every step keeps the type layer: one case per action.
LEMMA TypeInvNext == TypeInv /\ [Next]_vars => TypeInv'
<1> SUFFICES ASSUME TypeInv, [Next]_vars PROVE TypeInv'
  OBVIOUS
<1>1. CASE \E k \in {"started", "output"} : PumpStored(k)
  BY <1>1, TypeInvPumpStored
<1>2. CASE \E k \in {"started", "output"}, f \in {"append", "native"} : PumpUnstored(k, f)
  BY <1>2, TypeInvPumpUnstored
<1>3. CASE PumpEndStored
  BY <1>3, TypeInvPumpEndStored
<1>4. CASE PumpEndUnstored
  BY <1>4, TypeInvPumpEndUnstored
<1>5. CASE ForgetEnded
  BY <1>5, TypeInvForgetEnded
<1>6. CASE Crash
  BY <1>6, TypeInvCrash
<1>7. CASE \E k \in {"started", "output", "ended"} : CrashInPersist(k)
  BY <1>7, TypeInvCrashInPersist
<1>8. CASE Revive
  BY <1>8, TypeInvRevive
<1>9. ASSUME NEW c \in Clients, \E f \in FromSeqs(c) : Attach(c, f)
      PROVE  TypeInv'
  BY <1>9, TypeInvAttach
<1>10. ASSUME NEW c \in Clients, DeliverReplay(c) \/ DeliverLive(c)
       PROVE  TypeInv'
  BY <1>10, TypeInvDeliverReplay, TypeInvDeliverLive
<1>11. ASSUME NEW c \in Clients, Drained(c) \/ Overflowed(c) \/ Disconnect(c)
       PROVE  TypeInv'
  BY <1>11, TypeInvExit DEF Drained, Overflowed, Disconnect
<1>12. CASE UNCHANGED vars
  BY <1>12 DEF vars, TypeInv, Scalars, Channels, Views
<1> QED
  BY <1>1, <1>2, <1>3, <1>4, <1>5, <1>6, <1>7, <1>8, <1>9, <1>10, <1>11, <1>12 DEF Next

\* Every variable of a session stays in its range, and no channel is ever over its
\* capacity: broadcastLocked never blocks the pump, whatever clients do.
THEOREM TypeCorrect == Spec => []TypeOK
<1>1. Init => TypeInv
  BY TypeInvInit
<1>2. TypeInv /\ [Next]_vars => TypeInv'
  BY TypeInvNext
<1>3. TypeInv => TypeOK
  BY TypeInvImpliesTypeOK
<1> QED
  BY <1>1, <1>2, <1>3, PTL DEF Spec
-----------------------------------------------------------------------------
(* Layer 2: the next seq is above the log.  A revival that can read neither its *)
(* history nor its next seq starts again at 0, so that fault is excluded.       *)

\* A new session is ahead of its empty log.
LEMMA SeqAheadInit == Init => SeqAheadOfLog
  BY DEF Init, SeqAheadOfLog

\* A row more, and a next seq above it.
LEMMA SeqAheadAppend ==
  ASSUME Scalars, \A x \in log : x.seq < nextSeq,
         NEW e \in Event, e.seq = nextSeq, NEW n \in Nat, n > nextSeq
  PROVE  \A x \in AppendEvent(log, e) : x.seq < n
  BY ConstantsOK DEF Scalars, AppendEvent, Event

\* Every step keeps the next seq ahead of the log: one case per action.
LEMMA SeqAheadNext ==
  ASSUME "revive" \notin Faults, TypeInv, SeqAheadOfLog, [Next]_vars
  PROVE  SeqAheadOfLog'
<1> USE DEF SeqAheadOfLog
<1>1. ASSUME NEW k \in {"started", "output"}, PumpStored(k)
      PROVE  SeqAheadOfLog'
  <2>1. Stamp(0, k) \in Event /\ Stamp(0, k).seq = nextSeq
    BY <1>1, StampIsEvent, ConstantsOK DEF TypeInv, Scalars, PumpStored, Kinds
  <2>2. nextSeq' \in Nat /\ nextSeq' > nextSeq
    BY <1>1 DEF TypeInv, Scalars, PumpStored
  <2>3. log' = AppendEvent(log, Stamp(0, k)) /\ \A x \in log : x.seq < nextSeq
    BY <1>1 DEF PumpStored
  <2> QED
    BY <2>1, <2>2, <2>3, SeqAheadAppend DEF TypeInv
<1>2. ASSUME NEW k \in {"started", "output"}, NEW f \in {"append", "native"},
             PumpUnstored(k, f)
      PROVE  SeqAheadOfLog'
  <2>1. Stamp(0, k) \in Event /\ Stamp(0, k).seq = nextSeq
    BY <1>2, StampIsEvent, ConstantsOK DEF TypeInv, Scalars, PumpUnstored, Kinds
  <2>2. nextSeq' \in Nat /\ nextSeq' > nextSeq
    BY <1>2 DEF TypeInv, Scalars, PumpUnstored
  <2>3. log' \in {log, AppendEvent(log, Stamp(0, k))} /\ \A x \in log : x.seq < nextSeq
    BY <1>2 DEF PumpUnstored, WriteFails
  <2>4. \A x \in log : x.seq < nextSeq'
    BY <2>2, <2>3, ConstantsOK DEF TypeInv, Scalars, Event
  <2> QED
    BY <2>1, <2>2, <2>3, <2>4, SeqAheadAppend DEF TypeInv
<1>3. ASSUME PumpEndStored
      PROVE  SeqAheadOfLog'
  <2>1. Stamp(0, "ended") \in Event /\ Stamp(0, "ended").seq = nextSeq
    BY <1>3, StampIsEvent, ConstantsOK DEF TypeInv, Scalars, PumpEndStored, Kinds
  <2>2. nextSeq' \in Nat /\ nextSeq' > nextSeq
    BY <1>3 DEF TypeInv, Scalars, PumpEndStored
  <2>3. log' = AppendEvent(log, Stamp(0, "ended")) /\ \A x \in log : x.seq < nextSeq
    BY <1>3 DEF PumpEndStored
  <2> QED
    BY <2>1, <2>2, <2>3, SeqAheadAppend DEF TypeInv
<1>4. ASSUME PumpEndUnstored
      PROVE  SeqAheadOfLog'
  <2>1. Stamp(0, "ended") \in Event /\ Stamp(0, "ended").seq = nextSeq
    BY <1>4, StampIsEvent, ConstantsOK DEF TypeInv, Scalars, PumpEndUnstored, Kinds
  <2>2. nextSeq' \in Nat /\ nextSeq' > nextSeq
    BY <1>4 DEF TypeInv, Scalars, PumpEndUnstored
  <2>3. /\ log' \in {log, AppendEvent(log, Stamp(0, "ended"))}
        /\ \A x \in log : x.seq < nextSeq
    BY <1>4 DEF PumpEndUnstored, WriteFails
  <2>4. \A x \in log : x.seq < nextSeq'
    BY <2>2, <2>3, ConstantsOK DEF TypeInv, Scalars, Event
  <2> QED
    BY <2>1, <2>2, <2>3, <2>4, SeqAheadAppend DEF TypeInv
<1>5. ASSUME ForgetEnded \/ Crash \/ \E k \in {"started", "output", "ended"} : CrashInPersist(k)
      PROVE  SeqAheadOfLog'
  BY <1>5 DEF ForgetEnded, Crash, CrashInPersist, Vanish
<1>6. ASSUME Revive
      PROVE  SeqAheadOfLog'
  <2>1. Follows(nextSeq', log)
    BY <1>6, FollowsNewest DEF TypeInv, Scalars, Revive
  <2> QED
    BY <1>6, <2>1 DEF Revive, Follows
<1>7. ASSUME NEW c \in Clients,
             \/ \E f \in FromSeqs(c) : Attach(c, f)
             \/ DeliverReplay(c) \/ DeliverLive(c)
             \/ Drained(c) \/ Overflowed(c) \/ Disconnect(c)
      PROVE  SeqAheadOfLog'
  BY <1>7 DEF Attach, DeliverReplay, DeliverLive, Drained, Overflowed, Disconnect,
              Hand, Exit, Session
<1>8. CASE UNCHANGED vars
  BY <1>8 DEF vars
<1> QED
  BY <1>1, <1>2, <1>3, <1>4, <1>5, <1>6, <1>7, <1>8 DEF Next

\* Unless both reads of a revival fail, a live session never stamps an event with a seq
\* that is in the table: INSERT OR IGNORE never drops one.
THEOREM SeqAheadCorrect == "revive" \notin Faults => (Spec => []SeqAheadOfLog)
<1> SUFFICES ASSUME "revive" \notin Faults PROVE Spec => []SeqAheadOfLog
  OBVIOUS
<1>1. Init => TypeInv /\ SeqAheadOfLog
  BY TypeInvInit, SeqAheadInit
<1>2. TypeInv /\ SeqAheadOfLog /\ [Next]_vars => (TypeInv /\ SeqAheadOfLog)'
  BY TypeInvNext, SeqAheadNext
<1> QED
  BY <1>1, <1>2, PTL DEF Spec
-----------------------------------------------------------------------------
(* Layer 3: what is queued or was handed is stored, or known to be lost.         *)

Known == log \cup lost

DurableInv == /\ sub \in [Clients -> SubOf(Known)]
              /\ \A c \in Clients : seen[c] \subseteq Known
              /\ NativeIdStored

\* An event of a live session goes into the table: no row has its seq.
LEMMA AppendAdds ==
  ASSUME Scalars, phase # "gone", SeqAheadOfLog, NEW e \in Event, e.seq = nextSeq
  PROVE  AppendEvent(log, e) = log \cup {e}
  BY DEF Scalars, SeqAheadOfLog, AppendEvent, Event

\* More is known than before: subscribers and what they saw are still within it.
LEMMA KnownGrows ==
  ASSUME DurableInv, Known \subseteq Known'
  PROVE  /\ sub \in [Clients -> SubOf(Known')]
         /\ \A c \in Clients : seen[c] \subseteq Known'
<1>1. \A c \in Clients : sub[c] \in SubOf(Known')
  <2>1. \A c \in Clients : sub[c] \in SubOf(Known)
    BY DEF DurableInv
  <2>2. \A s \in SubOf(Known) : s \in SubOf(Known')
    BY SubOfMonotonic
  <2> QED
    BY <2>1, <2>2
<1> QED
  BY <1>1 DEF DurableInv

\* Nobody was handed anything at first.
LEMMA DurableInit == Init => DurableInv
<1> SUFFICES ASSUME Init PROVE DurableInv
  OBVIOUS
<1>1. Off \in SubOf(Known)
  BY EmptySeq DEF Off, SubOf, SubStates
<1> QED
  BY <1>1 DEF Init, DurableInv, NativeIdStored

\* What the pump stores and broadcasts is known ...
LEMMA DurablePumpStored ==
  ASSUME TypeInv, SeqAheadOfLog, DurableInv,
         NEW k \in {"started", "output"}, PumpStored(k)
  PROVE  DurableInv'
<1> DEFINE ev == Stamp(0, k)
<1>1. ev \in Event /\ ev.seq = nextSeq /\ ev.id = made + 1 /\ ev.kind = k
  BY StampIsEvent, ConstantsOK DEF TypeInv, Scalars, PumpStored, Kinds
<1>2. log' = log \cup {ev}
  BY <1>1, AppendAdds DEF TypeInv, PumpStored
<1>3. Known \subseteq Known' /\ ev \in Known'
  BY <1>2 DEF Known, PumpStored
<1>4. sub' \in [Clients -> SubOf(Known')]
  BY <1>3, KnownGrows, BroadcastChannels DEF PumpStored
<1>5. \A c \in Clients : seen'[c] \subseteq Known'
  BY <1>3, KnownGrows DEF PumpStored, ClientHistory
<1>6. NativeIdStored'
  BY <1>1, <1>2 DEF DurableInv, NativeIdStored, PumpStored
<1> QED
  BY <1>4, <1>5, <1>6 DEF DurableInv

\* ... and so is what it broadcasts when the write fails.
LEMMA DurablePumpUnstored ==
  ASSUME TypeInv, SeqAheadOfLog, DurableInv,
         NEW k \in {"started", "output"}, NEW f \in {"append", "native"}, PumpUnstored(k, f)
  PROVE  DurableInv'
<1> DEFINE ev == Stamp(0, k)
           err == Stamp(1, "persistError")
<1>1. ev \in Event /\ ev.seq = nextSeq /\ ev.id = made + 1 /\ ev.kind = k
  BY StampIsEvent, ConstantsOK DEF TypeInv, Scalars, PumpUnstored, Kinds
<1>2. AppendEvent(log, ev) = log \cup {ev}
  BY <1>1, AppendAdds DEF TypeInv, PumpUnstored
<1>3. /\ log \subseteq log'
      /\ lost \subseteq lost' /\ err \in lost'
      /\ ev \in log' \/ ev \in lost'
      /\ nativeId' = nativeId \/ (k = "started" /\ nativeId' = ev.id /\ ev \in log')
  BY <1>2 DEF PumpUnstored, WriteFails
<1> HIDE DEF ev, err
<1>4. Known \subseteq Known' /\ ev \in Known' /\ err \in Known'
  BY <1>3 DEF Known
<1>5. sub' \in [Clients -> SubOf(Known')]
  <2>1. Broadcast(sub, ev) \in [Clients -> SubOf(Known')]
    BY <1>4, KnownGrows, BroadcastChannels
  <2>2. sub' = Broadcast(Broadcast(sub, ev), err)
    BY DEF PumpUnstored, ev, err
  <2> QED
    BY <1>4, <2>1, <2>2, BroadcastChannels
<1>6. \A c \in Clients : seen'[c] \subseteq Known'
  BY <1>4, KnownGrows DEF PumpUnstored, ClientHistory
<1>7. NativeIdStored'
  BY <1>1, <1>3 DEF DurableInv, NativeIdStored
<1> QED
  BY <1>5, <1>6, <1>7 DEF DurableInv

\* EndChannels without the capacity.
LEMMA EndKnown ==
  ASSUME NEW T, NEW subs \in [Clients -> SubOf(T)], NEW e \in T
  PROVE  [c \in Clients |-> SendEnd(subs[c], e)] \in [Clients -> SubOf(T)]
  BY SendEndFits

\* The end of a stream is known when it is stored ...
LEMMA DurablePumpEndStored ==
  ASSUME TypeInv, SeqAheadOfLog, DurableInv, PumpEndStored
  PROVE  DurableInv'
<1> DEFINE end == Stamp(0, "ended")
<1>1. end \in Event /\ end.seq = nextSeq
  BY StampIsEvent, ConstantsOK DEF TypeInv, Scalars, PumpEndStored, Kinds
<1>2. log' = log \cup {end}
  BY <1>1, AppendAdds DEF TypeInv, PumpEndStored
<1>3. Known \subseteq Known' /\ end \in Known'
  BY <1>2 DEF Known, PumpEndStored
<1>4. sub' \in [Clients -> SubOf(Known')]
  BY <1>3, KnownGrows, EndKnown DEF PumpEndStored
<1>5. \A c \in Clients : seen'[c] \subseteq Known'
  BY <1>3, KnownGrows DEF PumpEndStored, ClientHistory
<1>6. NativeIdStored'
  BY <1>2 DEF DurableInv, NativeIdStored, PumpEndStored
<1> QED
  BY <1>4, <1>5, <1>6 DEF DurableInv

\* ... and when it is not.
LEMMA DurablePumpEndUnstored ==
  ASSUME TypeInv, SeqAheadOfLog, DurableInv, PumpEndUnstored
  PROVE  DurableInv'
<1> DEFINE end == Stamp(0, "ended")
           err == Stamp(1, "persistError")
<1>1. end \in Event /\ end.seq = nextSeq
  BY StampIsEvent, ConstantsOK DEF TypeInv, Scalars, PumpEndUnstored, Kinds
<1>2. AppendEvent(log, end) = log \cup {end}
  BY <1>1, AppendAdds DEF TypeInv, PumpEndUnstored
<1>3. /\ log \subseteq log'
      /\ lost \subseteq lost' /\ err \in lost'
      /\ end \in log' \/ end \in lost'
  BY <1>2 DEF PumpEndUnstored, WriteFails
<1>4. sub' = [c \in Clients |-> SendEnd(Broadcast(sub, err)[c], end)]
  BY DEF PumpEndUnstored
<1> HIDE DEF end, err
<1>5. Known \subseteq Known' /\ end \in Known' /\ err \in Known'
  BY <1>3 DEF Known
<1>6. sub' \in [Clients -> SubOf(Known')]
  <2>1. Broadcast(sub, err) \in [Clients -> SubOf(Known')]
    BY <1>5, KnownGrows, BroadcastChannels
  <2> QED
    BY <1>4, <1>5, <2>1, EndKnown
<1>7. \A c \in Clients : seen'[c] \subseteq Known'
  BY <1>5, KnownGrows DEF PumpEndUnstored, ClientHistory
<1>8. NativeIdStored'
  BY <1>3 DEF DurableInv, NativeIdStored, PumpEndUnstored
<1> QED
  BY <1>6, <1>7, <1>8 DEF DurableInv

\* A daemon that dies leaves no subscriber, and a log that has lost nothing.
LEMMA DurableVanish ==
  ASSUME DurableInv, Vanish, log \subseteq log',
         nativeId' = nativeId \/ \E x \in log' : x.id = nativeId' /\ x.kind = "started"
  PROVE  DurableInv'
<1>1. Known \subseteq Known'
  BY DEF Known, Vanish
<1>2. Off \in SubOf(Known')
  BY EmptySeq DEF Off, SubOf, SubStates
<1>3. sub' \in [Clients -> SubOf(Known')]
  BY <1>2 DEF Vanish
<1>4. \A c \in Clients : seen'[c] \subseteq Known'
  BY <1>1, KnownGrows DEF Vanish
<1>5. NativeIdStored'
  BY DEF DurableInv, NativeIdStored
<1> QED
  BY <1>3, <1>4, <1>5 DEF DurableInv

\* A crash inside persist leaves native_id unset, or set to a stored start.
LEMMA DurableCrashInPersist ==
  ASSUME TypeInv, SeqAheadOfLog, DurableInv,
         NEW k \in {"started", "output", "ended"}, CrashInPersist(k)
  PROVE  DurableInv'
<1> DEFINE ev == Stamp(0, k)
<1>1. ev \in Event /\ ev.seq = nextSeq /\ ev.id = made + 1 /\ ev.kind = k
  BY StampIsEvent, ConstantsOK DEF TypeInv, Scalars, CrashInPersist, Kinds
<1>2. log' = log \cup {ev}
  BY <1>1, AppendAdds DEF TypeInv, CrashInPersist
<1>3. nativeId' = nativeId \/ (k = "started" /\ nativeId' = ev.id)
  BY DEF CrashInPersist
<1> HIDE DEF ev
<1> QED
  BY <1>1, <1>2, <1>3, DurableVanish DEF CrashInPersist

\* A replay is made of stored events.
LEMMA DurableAttach ==
  ASSUME TypeInv, DurableInv, NEW c \in Clients, NEW f \in FromSeqs(c), Attach(c, f)
  PROVE  DurableInv'
<1>1. PICK n \in 0 .. nextSeq :
        sub' = [sub EXCEPT ![c] =
                  [st |-> IF phase = "ended" THEN "replay" ELSE "on",
                   backlog |-> {x \in Stored(f) : x.seq < n},
                   ch |-> <<>>,
                   cap |-> Cardinality({x \in Stored(f) : x.seq < n}) + SubBuffer]]
  BY DEF Attach
<1> DEFINE replay == {x \in Stored(f) : x.seq < n}
           new == [st |-> IF phase = "ended" THEN "replay" ELSE "on",
                   backlog |-> replay, ch |-> <<>>, cap |-> Cardinality(replay) + SubBuffer]
<1>2. replay \subseteq log
  BY DEF Stored
<1>3. Cardinality(replay) \in Nat
  BY <1>2, FS_Subset, FS_CardinalityType DEF TypeInv, Scalars
<1>4. new \in SubOf(Known)
  BY <1>2, <1>3, EmptySeq, ConstantsOK DEF SubOf, SubStates, Known
<1>5. sub' = [sub EXCEPT ![c] = new]
  BY <1>1
<1> HIDE DEF new
<1>6. Known' = Known /\ seen' = seen /\ log' = log /\ nativeId' = nativeId
  BY DEF Attach, Known
<1>7. sub' \in [Clients -> SubOf(Known')]
  BY <1>4, <1>5, <1>6 DEF DurableInv
<1> QED
  BY <1>6, <1>7 DEF DurableInv, NativeIdStored

\* Handing over a member of Known, with a channel that has lost it.
LEMMA DurableHand ==
  ASSUME DurableInv, NEW c \in Clients, NEW e \in Known, Hand(c, e),
         NEW new \in SubOf(Known), sub' = [sub EXCEPT ![c] = new],
         seen \in [Clients -> SUBSET Event]
  PROVE  DurableInv'
<1>1. Known' = Known /\ log' = log /\ nativeId' = nativeId
  BY DEF Hand, Session, Known
<1>2. sub' \in [Clients -> SubOf(Known')]
  BY <1>1 DEF DurableInv
<1>3. \A d \in Clients : seen'[d] \subseteq Known'
  BY <1>1 DEF DurableInv, Hand
<1> QED
  BY <1>1, <1>2, <1>3 DEF DurableInv, NativeIdStored

\* What is taken off a channel was known already.
LEMMA DurableDeliver ==
  ASSUME TypeInv, DurableInv, NEW c \in Clients, DeliverReplay(c) \/ DeliverLive(c)
  PROVE  DurableInv'
<1>1. sub[c] \in SubOf(Known)
  BY DEF DurableInv
<1>2. CASE DeliverReplay(c)
  <2>1. PICK e \in sub[c].backlog :
          /\ sub' = [sub EXCEPT ![c].backlog = @ \ {e}]
          /\ Hand(c, e)
    BY <1>2 DEF DeliverReplay
  <2> DEFINE new == [sub[c] EXCEPT !.backlog = @ \ {e}]
  <2>2. e \in Known /\ new \in SubOf(Known)
    BY <1>1 DEF SubOf
  <2>3. sub' = [sub EXCEPT ![c] = new]
    BY <2>1
  <2> HIDE DEF new
  <2> QED
    BY <2>1, <2>2, <2>3, DurableHand DEF TypeInv, Views
<1>3. CASE DeliverLive(c)
  <2> DEFINE new == [sub[c] EXCEPT !.ch = Tail(@)]
  <2>1. Head(sub[c].ch) \in Known /\ Tail(sub[c].ch) \in Seq(Known)
    BY <1>1, <1>3, HeadTailProperties DEF DeliverLive, SubOf
  <2>2. new \in SubOf(Known)
    BY <1>1, <2>1 DEF SubOf
  <2>3. sub' = [sub EXCEPT ![c] = new]
    BY <1>3 DEF DeliverLive
  <2> HIDE DEF new
  <2> QED
    BY <1>3, <2>1, <2>2, <2>3, DurableHand DEF TypeInv, Views, DeliverLive
<1> QED
  BY <1>2, <1>3

\* A goroutine that leaves takes nothing away.
LEMMA DurableExit ==
  ASSUME DurableInv, NEW c \in Clients, Exit(c)
  PROVE  DurableInv'
<1>1. Off \in SubOf(Known)
  BY EmptySeq DEF Off, SubOf, SubStates
<1>2. Known' = Known /\ log' = log /\ nativeId' = nativeId /\ seen' = seen
  BY DEF Exit, Session, Known
<1> QED
  BY <1>1, <1>2 DEF DurableInv, NativeIdStored, Exit

\* Every step keeps the durability layer: one case per action.
LEMMA DurableNext ==
  ASSUME TypeInv, SeqAheadOfLog, DurableInv, [Next]_vars
  PROVE  DurableInv'
<1>1. CASE \E k \in {"started", "output"} : PumpStored(k)
  BY <1>1, DurablePumpStored
<1>2. CASE \E k \in {"started", "output"}, f \in {"append", "native"} : PumpUnstored(k, f)
  BY <1>2, DurablePumpUnstored
<1>3. CASE PumpEndStored
  BY <1>3, DurablePumpEndStored
<1>4. CASE PumpEndUnstored
  BY <1>4, DurablePumpEndUnstored
<1>5. CASE ForgetEnded \/ Revive \/ UNCHANGED vars
  <2>1. Known' = Known /\ sub' = sub /\ seen' = seen /\ log' = log /\ nativeId' = nativeId
    BY <1>5 DEF ForgetEnded, Revive, vars, ClientHistory, Known
  <2> QED
    BY <2>1 DEF DurableInv, NativeIdStored
<1>6. CASE Crash
  BY <1>6, DurableVanish DEF Crash
<1>7. CASE \E k \in {"started", "output", "ended"} : CrashInPersist(k)
  BY <1>7, DurableCrashInPersist
<1>8. ASSUME NEW c \in Clients, \E f \in FromSeqs(c) : Attach(c, f)
      PROVE  DurableInv'
  BY <1>8, DurableAttach
<1>9. ASSUME NEW c \in Clients, DeliverReplay(c) \/ DeliverLive(c)
      PROVE  DurableInv'
  BY <1>9, DurableDeliver
<1>10. ASSUME NEW c \in Clients, Drained(c) \/ Overflowed(c) \/ Disconnect(c)
       PROVE  DurableInv'
  BY <1>10, DurableExit DEF Drained, Overflowed, Disconnect
<1> QED
  BY <1>1, <1>2, <1>3, <1>4, <1>5, <1>6, <1>7, <1>8, <1>9, <1>10 DEF Next

\* The three layers together.
LEMMA AllInvariant ==
  "revive" \notin Faults => (Spec => [](TypeInv /\ SeqAheadOfLog /\ DurableInv))
<1> SUFFICES ASSUME "revive" \notin Faults
             PROVE  Spec => [](TypeInv /\ SeqAheadOfLog /\ DurableInv)
  OBVIOUS
<1>1. Init => TypeInv /\ SeqAheadOfLog /\ DurableInv
  BY TypeInvInit, SeqAheadInit, DurableInit
<1>2. TypeInv /\ SeqAheadOfLog /\ DurableInv /\ [Next]_vars
        => (TypeInv /\ SeqAheadOfLog /\ DurableInv)'
  BY TypeInvNext, SeqAheadNext, DurableNext
<1> QED
  BY <1>1, <1>2, PTL DEF Spec

\* Whatever a client was ever handed is in the table, the same event under the same seq,
\* or is one whose write failed: the store is never behind what clients were told.
THEOREM HandedIsDurableCorrect == "revive" \notin Faults => (Spec => []HandedIsDurable)
<1>1. DurableInv => HandedIsDurable
  BY DEF DurableInv, HandedIsDurable, Known
<1> QED
  BY <1>1, AllInvariant, PTL

\* A revival resumes a native conversation whose session.started is in the table.
THEOREM NativeIdStoredCorrect == "revive" \notin Faults => (Spec => []NativeIdStored)
<1>1. DurableInv => NativeIdStored
  BY DEF DurableInv
<1> QED
  BY <1>1, AllInvariant, PTL
-----------------------------------------------------------------------------
(* SessionLog implements TailedLog.  What is added to the invariant says that  *)
(* the channel of a subscriber is a piece of the log: of the stored events     *)
(* after the client's position it holds all up to the last it holds (Gapless), *)
(* and as long as it is subscribed, all there are (Complete); in their order,  *)
(* but for an end of the stream whose write was reported to have failed.       *)

Has(s, e) == e \in s.backlog \/ \E i \in 1 .. Len(s.ch) : s.ch[i] = e

\* The notice that the end could not be written goes before the end.
NoticeFirst(x, y) == x.kind = "persistError" /\ y.kind = "ended" /\ y.seq < x.seq

Sorted(s) == /\ \A i, j \in 1 .. Len(s.ch) :
                  i < j => s.ch[i].seq < s.ch[j].seq \/ NoticeFirst(s.ch[i], s.ch[j])
             /\ \A b \in s.backlog : \A i \in 1 .. Len(s.ch) : b.seq < s.ch[i].seq

\* Of the events it holds the client, at p, was handed none; p is past an end whose notice
\* it was handed.
After(s, p) == /\ \A b \in s.backlog : b.seq > p
               /\ \A i \in 1 .. Len(s.ch) :
                    s.ch[i].seq > p \/ (s.ch[i].kind = "ended" /\ s.ch[i].seq < p)

Gapless(s, p, L) == \A e \in L, x \in L :
                      Has(s, e) /\ p < x.seq /\ x.seq <= e.seq => Has(s, x)

Complete(s, p, L, n) == s.st = "on" => /\ p < n
                                       /\ \A x \in L : x.seq > p => Has(s, x)
                                       /\ \A x \in Event : Has(s, x) => x.seq < n

\* s, of a client at p, tails the log L of a session whose next seq is n.
Tailing(s, p, L, n) == /\ s.backlog \subseteq L
                       /\ Sorted(s) /\ After(s, p) /\ Gapless(s, p, L) /\ Complete(s, p, L, n)

\* Rows have their own seq, and no id is used twice.
Rows == /\ \A x \in log, y \in log : x.seq = y.seq => x = y
        /\ \A x \in log : x.kind # "persistError"
        /\ \A x \in log \cup lost : x.id <= made

TailInv == /\ Rows
           /\ \A c \in Clients : /\ Tailing(sub[c], pos[c], log, nextSeq)
                                 /\ sub[c].st = "on" => phase = "live"
-----------------------------------------------------------------------------
(* One subscriber.                                                            *)

\* The same events, or one more at the end.
Same(s, t) == t.backlog = s.backlog /\ t.ch = s.ch
Gets(s, t, e) == /\ t.backlog = s.backlog
                 /\ Len(t.ch) = Len(s.ch) + 1
                 /\ \A i \in 1 .. Len(s.ch) : t.ch[i] = s.ch[i]
                 /\ t.ch[Len(s.ch) + 1] = e

\* An Append is such a Gets.
LEMMA AppendGets ==
  ASSUME NEW s \in SubOf(Event), NEW e \in Event, NEW t \in SubOf(Event),
         t.backlog = s.backlog, t.ch = Append(s.ch, e)
  PROVE  Gets(s, t, e)
<1>1. s.ch \in Seq(Event)
  BY DEF SubOf
<1>2. /\ Len(Append(s.ch, e)) = Len(s.ch) + 1
      /\ \A i \in 1 .. Len(s.ch) : Append(s.ch, e)[i] = s.ch[i]
      /\ Append(s.ch, e)[Len(s.ch) + 1] = e
  BY <1>1, AppendProperties
<1> QED
  BY <1>2 DEF Gets

\* A subscriber that is offered an event gets it, or is not subscribed from now on.
LEMMA OfferGets ==
  ASSUME NEW s \in SubOf(Event), NEW e \in Event
  PROVE  LET t == Offer(s, e) IN
         /\ t \in SubOf(Event)
         /\ \/ Same(s, t) /\ t.st # "on" /\ (s.st # "on" => t = s)
            \/ s.st = "on" /\ t.st = "on" /\ Gets(s, t, e)
<1>1. Offer(s, e) \in SubOf(Event)
  BY OfferFits
<1>2. CASE s.st # "on"
  BY <1>1, <1>2 DEF Offer, Same
<1>3. CASE s.st = "on" /\ Full(s)
  <2>1. Offer(s, e) = [s EXCEPT !.st = "cut"]
    BY <1>3 DEF Offer
  <2> QED
    BY <1>1, <1>3, <2>1 DEF Same, SubOf
<1>4. CASE s.st = "on" /\ ~Full(s)
  <2>1. Offer(s, e) = [s EXCEPT !.ch = Append(@, e)]
    BY <1>4 DEF Offer
  <2>2. /\ Offer(s, e).backlog = s.backlog /\ Offer(s, e).ch = Append(s.ch, e)
        /\ Offer(s, e).st = "on"
    BY <1>4, <2>1 DEF SubOf
  <2> QED
    BY <1>1, <1>4, <2>2, AppendGets
<1> QED
  BY <1>2, <1>3, <1>4

\* One that is sent the end is not subscribed from now on, and got it if there was room.
LEMMA SendEndGets ==
  ASSUME NEW s \in SubOf(Event), NEW e \in Event
  PROVE  LET t == SendEnd(s, e) IN
         /\ t \in SubOf(Event)
         /\ t.st # "on"
         /\ Same(s, t) \/ (s.st = "on" /\ Gets(s, t, e))
<1>1. SendEnd(s, e) \in SubOf(Event)
  BY SendEndFits
<1>2. CASE s.st # "on"
  BY <1>1, <1>2 DEF SendEnd, Same
<1>3. CASE s.st = "on" /\ Full(s)
  <2>1. SendEnd(s, e) = [s EXCEPT !.st = "eos", !.ch = s.ch]
    BY <1>3 DEF SendEnd
  <2> QED
    BY <1>1, <1>3, <2>1 DEF Same, SubOf
<1>4. CASE s.st = "on" /\ ~Full(s)
  <2>1. SendEnd(s, e) = [s EXCEPT !.st = "eos", !.ch = Append(@, e)]
    BY <1>4 DEF SendEnd
  <2>2. /\ SendEnd(s, e).backlog = s.backlog /\ SendEnd(s, e).ch = Append(s.ch, e)
        /\ SendEnd(s, e).st = "eos"
    BY <1>4, <2>1 DEF SubOf
  <2> QED
    BY <1>1, <1>4, <2>2, AppendGets
<1> QED
  BY <1>2, <1>3, <1>4

\* One that is not subscribed tails the log however that grows, if it does not hold what is new.
LEMMA SameTails ==
  ASSUME NEW s \in SubOf(Event), NEW t, NEW p \in Int, NEW L \in SUBSET Event, NEW M \in SUBSET Event,
         NEW n, NEW m, Tailing(s, p, L, n), Same(s, t), t.st # "on", L \subseteq M,
         \A x \in M \ L : ~Has(s, x) /\ \A y \in L : y.seq < x.seq
  PROVE  Tailing(t, p, M, m)
<1>1. \A x : Has(t, x) <=> Has(s, x)
  BY DEF Has, Same
<1>2. t.backlog \subseteq M /\ Sorted(t) /\ After(t, p)
  BY DEF Tailing, Same, Sorted, After
<1>3. Gapless(t, p, M)
  <2> SUFFICES ASSUME NEW e \in M, NEW x \in M, Has(t, e), p < x.seq, x.seq <= e.seq
               PROVE  Has(t, x)
    BY DEF Gapless
  <2>1. e \in L
    BY <1>1
  <2>2. x \in L
    BY <2>1 DEF Event
  <2> QED
    BY <1>1, <2>1, <2>2 DEF Tailing, Gapless
<1>4. Complete(t, p, M, m)
  BY DEF Complete
<1> QED
  BY <1>2, <1>3, <1>4 DEF Tailing

\* A subscribed one tails it on when it gets what is new.
LEMMA GetsTails ==
  ASSUME NEW s \in SubOf(Event), NEW t \in SubOf(Event), NEW p \in Int, NEW e \in Event,
         NEW L \in SUBSET Event, NEW M \in SUBSET Event, NEW n \in Nat, NEW m \in Nat,
         Tailing(s, p, L, n), s.st = "on", Gets(s, t, e), L \subseteq M, M \subseteq L \cup {e},
         n <= e.seq, e.seq < m
  PROVE  Tailing(t, p, M, m)
<1>1. s.ch \in Seq(Event) /\ Len(s.ch) \in Nat /\ \A i \in 1 .. Len(s.ch) : s.ch[i] \in Event
  BY LenProperties, ElementOfSeq DEF SubOf
<1>2. ASSUME NEW x \in Event
      PROVE  Has(t, x) <=> Has(s, x) \/ x = e
  <2>1. /\ Len(t.ch) = Len(s.ch) + 1 /\ t.backlog = s.backlog
        /\ \A i \in 1 .. Len(s.ch) : i \in 1 .. Len(t.ch) /\ t.ch[i] = s.ch[i]
        /\ Len(t.ch) \in 1 .. Len(t.ch) /\ t.ch[Len(t.ch)] = e
        /\ \A i \in 1 .. Len(t.ch) : i \in 1 .. Len(s.ch) \/ i = Len(t.ch)
    BY <1>1 DEF Gets
  <2> QED
    BY <2>1 DEF Has
<1>3. /\ p < n /\ \A x \in L : x.seq > p => Has(s, x)
      /\ \A x \in Event : Has(s, x) => x.seq < n
  BY DEF Tailing, Complete
<1>4. \A x \in Event : x.seq \in Int
  BY ConstantsOK DEF Event
<1>5. \A i \in 1 .. Len(s.ch) : s.ch[i].seq < e.seq
  BY <1>1, <1>3, <1>4 DEF Has
<1>6. \A b \in s.backlog : b.seq < e.seq /\ b \in Event
  BY <1>3, <1>4 DEF Has, SubOf
<1>7. Sorted(t)
  <2>1. \A i \in 1 .. Len(t.ch) : i \in 1 .. Len(s.ch) \/ i = Len(s.ch) + 1
    BY <1>1 DEF Gets
  <2>2. ASSUME NEW i \in 1 .. Len(t.ch), NEW j \in 1 .. Len(t.ch), i < j
        PROVE  t.ch[i].seq < t.ch[j].seq \/ NoticeFirst(t.ch[i], t.ch[j])
    <3>1. i \in 1 .. Len(s.ch) /\ t.ch[i] = s.ch[i]
      BY <1>1, <2>1, <2>2 DEF Gets
    <3>2. CASE j = Len(s.ch) + 1
      BY <1>5, <3>1, <3>2 DEF Gets
    <3>3. CASE j \in 1 .. Len(s.ch)
      BY <2>2, <3>1, <3>3 DEF Gets, Tailing, Sorted
    <3> QED
      BY <2>1, <3>2, <3>3
  <2>3. \A b \in t.backlog : \A i \in 1 .. Len(t.ch) : b.seq < t.ch[i].seq
    BY <1>6, <2>1 DEF Gets, Tailing, Sorted
  <2> QED
    BY <2>2, <2>3 DEF Sorted
<1>8. After(t, p)
  <2>1. e.seq > p
    BY <1>3, <1>4
  <2>2. \A i \in 1 .. Len(t.ch) : i \in 1 .. Len(s.ch) \/ i = Len(s.ch) + 1
    BY <1>1 DEF Gets
  <2> QED
    BY <2>1, <2>2 DEF Gets, Tailing, After
<1>9. \A x \in M : x.seq > p => Has(t, x)
  BY <1>2, <1>3
<1>10. Gapless(t, p, M) /\ Complete(t, p, M, m)
  BY <1>2, <1>3, <1>4, <1>9 DEF Gapless, Complete
<1> QED
  BY <1>7, <1>8, <1>10 DEF Tailing, Gets

\* Likewise when it gets the notice that the end could not be written, and then the end.
LEMMA GetsEnd ==
  ASSUME NEW s \in SubOf(Event), NEW r \in SubOf(Event), NEW t \in SubOf(Event), NEW p \in Int,
         NEW err \in Event, NEW end \in Event,
         NEW L \in SUBSET Event, NEW M \in SUBSET Event, NEW n \in Nat, NEW m \in Nat,
         Tailing(s, p, L, n), s.st = "on", Gets(s, r, err), Gets(r, t, end), t.st # "on",
         L \subseteq M, M \subseteq L \cup {end},
         err.kind = "persistError", end.kind = "ended", end.seq = n, err.seq = n + 1
  PROVE  Tailing(t, p, M, m)
<1>1. /\ s.ch \in Seq(Event) /\ Len(s.ch) \in Nat /\ Len(r.ch) = Len(s.ch) + 1
      /\ Len(t.ch) = Len(s.ch) + 2 /\ \A i \in 1 .. Len(s.ch) : s.ch[i] \in Event
  BY LenProperties, ElementOfSeq DEF SubOf, Gets
<1>2. /\ \A i \in 1 .. Len(t.ch) : i \in 1 .. Len(s.ch) \/ i = Len(s.ch) + 1 \/ i = Len(s.ch) + 2
      /\ \A i \in 1 .. Len(s.ch) : t.ch[i] = s.ch[i]
      /\ t.ch[Len(s.ch) + 1] = err /\ t.ch[Len(s.ch) + 2] = end /\ t.backlog = s.backlog
  <2>1. \A i \in 1 .. Len(t.ch) : i \in 1 .. Len(s.ch) \/ i = Len(s.ch) + 1 \/ i = Len(s.ch) + 2
    BY <1>1
  <2>2. \A i \in 1 .. Len(s.ch) + 1 : t.ch[i] = r.ch[i]
    BY <1>1 DEF Gets
  <2>3. \A i \in 1 .. Len(s.ch) : r.ch[i] = s.ch[i] /\ i \in 1 .. Len(s.ch) + 1
    BY <1>1 DEF Gets
  <2>4. t.ch[Len(s.ch) + 1] = err
    <3>1. Len(s.ch) + 1 \in 1 .. Len(s.ch) + 1
      BY <1>1
    <3>2. r.ch[Len(s.ch) + 1] = err
      BY DEF Gets
    <3> QED
      BY <2>2, <3>1, <3>2
  <2>5. t.ch[Len(s.ch) + 2] = end /\ t.backlog = s.backlog
    BY <1>1 DEF Gets
  <2> QED
    BY <2>1, <2>2, <2>3, <2>4, <2>5
<1>3. /\ p < n /\ \A x \in L : x.seq > p => Has(s, x)
      /\ \A x \in Event : Has(s, x) => x.seq < n
  BY DEF Tailing, Complete
<1>4. \A x \in Event : x.seq \in Int
  BY ConstantsOK DEF Event
<1>5. \A i \in 1 .. Len(s.ch) : s.ch[i].seq < n
  BY <1>1, <1>3 DEF Has
<1>6. \A b \in s.backlog : b.seq < n /\ b \in Event
  BY <1>3 DEF Has, SubOf
<1>7. Sorted(t)
  <2>1. ASSUME NEW i \in 1 .. Len(t.ch), NEW j \in 1 .. Len(t.ch), i < j
        PROVE  t.ch[i].seq < t.ch[j].seq \/ NoticeFirst(t.ch[i], t.ch[j])
    <3>1. CASE j \in 1 .. Len(s.ch)
      <4>1. i \in 1 .. Len(s.ch)
        BY <1>1, <2>1, <3>1
      <4> QED
        BY <1>2, <2>1, <3>1, <4>1 DEF Tailing, Sorted
    <3>2. CASE j = Len(s.ch) + 1
      <4>1. i \in 1 .. Len(s.ch)
        BY <1>1, <2>1, <3>2
      <4>2. s.ch[i].seq < n /\ s.ch[i].seq \in Int
        BY <1>1, <1>4, <1>5, <4>1
      <4>3. t.ch[i] = s.ch[i] /\ t.ch[j].seq = n + 1
        BY <1>2, <3>2, <4>1
      <4> QED
        BY <4>2, <4>3
    <3>3. CASE j = Len(s.ch) + 2 /\ i \in 1 .. Len(s.ch)
      BY <1>2, <1>4, <1>5, <3>3
    <3>4. CASE j = Len(s.ch) + 2 /\ i = Len(s.ch) + 1
      BY <1>2, <1>4, <3>4 DEF NoticeFirst
    <3> QED
      <4>1. i \notin 1 .. Len(s.ch) /\ j = Len(s.ch) + 2 => i = Len(s.ch) + 1
        BY <1>1, <2>1
      <4>2. j \in 1 .. Len(s.ch) \/ j = Len(s.ch) + 1 \/ j = Len(s.ch) + 2
        BY <1>2
      <4> QED
        BY <3>1, <3>2, <3>3, <3>4, <4>1, <4>2
  <2>2. ASSUME NEW b \in t.backlog, NEW i \in 1 .. Len(t.ch)
        PROVE  b.seq < t.ch[i].seq
    <3>1. b \in s.backlog /\ b.seq < n /\ b.seq \in Int
      BY <1>2, <1>4, <1>6
    <3>2. CASE i \in 1 .. Len(s.ch)
      BY <1>2, <3>1, <3>2 DEF Tailing, Sorted
    <3>3. CASE i = Len(s.ch) + 1
      BY <1>2, <3>1, <3>3
    <3>4. CASE i = Len(s.ch) + 2
      BY <1>2, <3>1, <3>4
    <3> QED
      BY <1>2, <3>2, <3>3, <3>4
  <2> QED
    BY <2>1, <2>2 DEF Sorted
<1>8. After(t, p)
  <2>1. After(s, p) /\ p < n
    BY <1>3 DEF Tailing
  <2>2. \A b \in t.backlog : b.seq > p
    BY <1>2, <2>1 DEF After
  <2>3. ASSUME NEW i \in 1 .. Len(t.ch)
        PROVE  t.ch[i].seq > p \/ (t.ch[i].kind = "ended" /\ t.ch[i].seq < p)
    <3>1. CASE i \in 1 .. Len(s.ch)
      BY <1>2, <2>1, <3>1 DEF After
    <3>2. CASE i = Len(s.ch) + 1
      BY <1>2, <2>1, <3>2
    <3>3. CASE i = Len(s.ch) + 2
      BY <1>2, <2>1, <3>3
    <3>4. i \in 1 .. Len(s.ch) \/ i = Len(s.ch) + 1 \/ i = Len(s.ch) + 2
      BY <1>1, <1>2
    <3> QED
      BY <3>1, <3>2, <3>3, <3>4
  <2> QED
    BY <2>2, <2>3 DEF After
<1>9. \A x \in Event : Has(s, x) \/ x = end => Has(t, x)
  <2>1. ASSUME NEW x \in Event, Has(s, x)
        PROVE  Has(t, x)
    <3>1. CASE x \in s.backlog
      BY <1>2, <3>1 DEF Has
    <3>2. CASE \E i \in 1 .. Len(s.ch) : s.ch[i] = x
      <4>1. PICK i \in 1 .. Len(s.ch) : s.ch[i] = x
        BY <3>2
      <4>2. i \in 1 .. Len(t.ch) /\ t.ch[i] = x
        BY <1>1, <1>2, <4>1
      <4> QED
        BY <4>2 DEF Has
    <3> QED
      BY <2>1, <3>1, <3>2 DEF Has
  <2>2. Has(t, end)
    <3>1. Len(s.ch) + 2 \in 1 .. Len(t.ch)
      BY <1>1, <1>2
    <3> QED
      BY <1>2, <3>1 DEF Has
  <2> QED
    BY <2>1, <2>2
<1>10. Gapless(t, p, M) /\ Complete(t, p, M, m)
  BY <1>3, <1>9 DEF Gapless, Complete
<1> QED
  BY <1>2, <1>7, <1>8, <1>10 DEF Tailing

\* One that is offered an event tails the log with the event, if that is stored.
LEMMA OfferTails ==
  ASSUME NEW s \in SubOf(Event), NEW p \in Int, NEW e \in Event,
         NEW L \in SUBSET Event, NEW M \in SUBSET Event, NEW n \in Nat, NEW m \in Nat,
         Tailing(s, p, L, n), L \subseteq M, M \subseteq L \cup {e}, n <= e.seq, e.seq < m,
         M = L \/ (~Has(s, e) /\ \A y \in L : y.seq < e.seq)
  PROVE  /\ Offer(s, e) \in SubOf(Event)
         /\ Tailing(Offer(s, e), p, M, m)
         /\ Offer(s, e).st = "on" => s.st = "on"
<1>1. PICK t : t = Offer(s, e)
  OBVIOUS
<1>2. /\ t \in SubOf(Event)
      /\ \/ Same(s, t) /\ t.st # "on"
         \/ s.st = "on" /\ t.st = "on" /\ Gets(s, t, e)
  BY <1>1, OfferGets
<1>3. \A x \in M \ L : ~Has(s, x) /\ \A y \in L : y.seq < x.seq
  OBVIOUS
<1>4. Tailing(t, p, M, m)
  BY <1>2, <1>3, SameTails, GetsTails
<1> QED
  BY <1>1, <1>2, <1>4

\* Likewise one that is sent the end of the stream.
LEMMA SendEndTails ==
  ASSUME NEW s \in SubOf(Event), NEW p \in Int, NEW e \in Event,
         NEW L \in SUBSET Event, NEW M \in SUBSET Event, NEW n \in Nat, NEW m \in Nat,
         Tailing(s, p, L, n), L \subseteq M, M \subseteq L \cup {e}, n <= e.seq, e.seq < m,
         ~Has(s, e), \A y \in L : y.seq < e.seq
  PROVE  Tailing(SendEnd(s, e), p, M, m) /\ SendEnd(s, e).st # "on"
<1>1. PICK t : t = SendEnd(s, e)
  OBVIOUS
<1>2. /\ t \in SubOf(Event) /\ t.st # "on"
      /\ Same(s, t) \/ (s.st = "on" /\ Gets(s, t, e))
  BY <1>1, SendEndGets
<1>3. \A x \in M \ L : ~Has(s, x) /\ \A y \in L : y.seq < x.seq
  OBVIOUS
<1>4. Tailing(t, p, M, m)
  BY <1>2, <1>3, SameTails, GetsTails
<1> QED
  BY <1>1, <1>2, <1>4

\* The end whose write fails.
LEMMA EndUnstoredTails ==
  ASSUME NEW s \in SubOf(Event), NEW p \in Int, NEW err \in Event, NEW end \in Event,
         NEW L \in SUBSET Event, NEW M \in SUBSET Event, NEW n \in Nat, NEW m \in Nat,
         Tailing(s, p, L, n), L \subseteq M, M \subseteq L \cup {end},
         ~Has(s, end), \A y \in L : y.seq < end.seq,
         err.kind = "persistError", end.kind = "ended", end.seq = n, err.seq = n + 1
  PROVE  Tailing(SendEnd(Offer(s, err), end), p, M, m) /\ SendEnd(Offer(s, err), end).st # "on"
<1>1. PICK r : r = Offer(s, err)
  OBVIOUS
<1>2. /\ r \in SubOf(Event)
      /\ \/ Same(s, r) /\ r.st # "on"
         \/ s.st = "on" /\ r.st = "on" /\ Gets(s, r, err)
  BY <1>1, OfferGets
<1>3. PICK t : t = SendEnd(r, end)
  OBVIOUS
<1>4. /\ t \in SubOf(Event) /\ t.st # "on"
      /\ Same(r, t) \/ (r.st = "on" /\ Gets(r, t, end))
  BY <1>2, <1>3, SendEndGets
<1>5. Tailing(r, p, L, n + 2)
  BY <1>1, OfferTails
<1>6. ~Has(r, end)
  <2>1. CASE Same(s, r)
    BY <2>1 DEF Same, Has
  <2>2. CASE Gets(s, r, err)
    <3>1. s.ch \in Seq(Event) /\ Len(s.ch) \in Nat
      BY LenProperties DEF SubOf
    <3>2. \A i \in 1 .. Len(r.ch) : i \in 1 .. Len(s.ch) \/ i = Len(s.ch) + 1
      BY <2>2, <3>1 DEF Gets
    <3> QED
      BY <2>2, <3>2 DEF Gets, Has
  <2> QED
    BY <1>2, <2>1, <2>2
<1>7. CASE Same(r, t)
  <2>1. \A x \in M \ L : ~Has(r, x) /\ \A y \in L : y.seq < x.seq
    BY <1>6
  <2>2. Tailing(t, p, M, m)
    BY <1>2, <1>4, <1>5, <1>7, <2>1, SameTails
  <2> QED
    BY <1>1, <1>3, <1>4, <2>2
<1>8. CASE r.st = "on" /\ Gets(r, t, end)
  <2>1. Tailing(t, p, M, m)
    BY <1>2, <1>4, <1>8, GetsEnd
  <2> QED
    BY <1>1, <1>3, <1>4, <2>1
<1> QED
  BY <1>4, <1>7, <1>8
-----------------------------------------------------------------------------
(* The pump.                                                                  *)

AllInv == TypeInv /\ SeqAheadOfLog /\ DurableInv /\ TailInv

\* What is stamped now has not been seen before.
LEMMA StampIsNew ==
  ASSUME AllInv, NEW e, e.id \in Nat, e.id > made, NEW c \in Clients
  PROVE  e \notin log /\ e \notin lost /\ ~Has(sub[c], e)
<1>1. \A x \in Known : x.id <= made /\ made \in Nat
  BY ConstantsOK DEF AllInv, TailInv, Rows, Known, TypeInv, Scalars
<1>2. e \notin Known
  BY <1>1
<1>3. sub[c] \in SubOf(Known)
  BY DEF AllInv, DurableInv
<1>4. \A i \in 1 .. Len(sub[c].ch) : sub[c].ch[i] \in Known
  BY <1>3, ElementOfSeq DEF SubOf
<1> QED
  BY <1>2, <1>3, <1>4 DEF Known, Has, SubOf

\* The rows stay apart when a stamped event is written, or is not.
LEMMA RowsStep ==
  ASSUME AllInv, made' \in Nat, made <= made', NEW e \in Event, NEW f \in Event,
         e.id <= made', f.id <= made', e.kind # "persistError",
         \A x \in log : x.seq < e.seq, log' \subseteq log \cup {e}, lost' \subseteq lost \cup {e, f}
  PROVE  Rows'
<1>1. \A x \in log \cup lost : x \in Event /\ x.id \in Nat /\ x.seq \in Int
  BY ConstantsOK DEF AllInv, TypeInv, Scalars, Event
<1>2. e.seq \in Int /\ e.id \in Nat /\ made \in Nat
  BY ConstantsOK DEF AllInv, TypeInv, Scalars, Event
<1>3. \A x \in log \cup lost : x.id <= made'
  BY <1>1, <1>2 DEF AllInv, TailInv, Rows
<1>4. \A x \in log, y \in log : x.seq = y.seq => x = y
  BY DEF AllInv, TailInv, Rows
<1>5. \A x \in log : x.kind # "persistError"
  BY DEF AllInv, TailInv, Rows
<1> QED
  BY <1>1, <1>2, <1>3, <1>4, <1>5 DEF Rows

\* What a live session knows of the event it stamps.
LEMMA StampFacts ==
  ASSUME AllInv, phase = "live", NEW k \in Kinds \ {"persistError"}, made + 1 <= MaxEvents
  PROVE  /\ Stamp(0, k) \in Event /\ Stamp(0, k).seq = nextSeq /\ Stamp(0, k).id = made + 1
         /\ Stamp(0, k).kind = k
         /\ \A x \in log : x.seq < nextSeq
         /\ AppendEvent(log, Stamp(0, k)) = log \cup {Stamp(0, k)}
         /\ Stamp(0, k) \notin log
         /\ \A c \in Clients : ~Has(sub[c], Stamp(0, k))
         /\ nextSeq \in Nat /\ made \in Nat /\ log \subseteq Event
         /\ \A c \in Clients : sub[c] \in SubOf(Event) /\ pos[c] \in Int
<1>1. /\ Stamp(0, k) \in Event /\ Stamp(0, k).seq = nextSeq /\ Stamp(0, k).id = made + 1
      /\ Stamp(0, k).kind = k
  BY StampIsEvent, ConstantsOK DEF AllInv, TypeInv, Scalars, Kinds
<1>2. /\ nextSeq \in Nat /\ made \in Nat /\ log \subseteq Event
      /\ \A c \in Clients : sub[c] \in SubOf(Event) /\ pos[c] \in Int
  BY ConstantsOK DEF AllInv, TypeInv, Scalars, Channels, Views
<1>3. \A x \in log : x.seq < nextSeq
  BY DEF AllInv, SeqAheadOfLog
<1>4. AppendEvent(log, Stamp(0, k)) = log \cup {Stamp(0, k)}
  BY <1>1, AppendAdds DEF AllInv, TypeInv
<1>5. Stamp(0, k) \notin log
  BY <1>1, <1>2, <1>3
<1>6. \A c \in Clients : ~Has(sub[c], Stamp(0, k))
  BY <1>1, <1>2, StampIsNew
<1> QED
  BY <1>1, <1>2, <1>3, <1>4, <1>5, <1>6

\* The pump stores and broadcasts: Append of the abstract log.
LEMMA TailPumpStored ==
  ASSUME AllInv, NEW k \in {"started", "output"}, PumpStored(k)
  PROVE  TailInv' /\ Tailed!Append(Stamp(0, k))
<1>1. PICK ev : ev = Stamp(0, k)
  OBVIOUS
<1>2. /\ phase = "live" /\ made + 1 <= MaxEvents /\ log' = AppendEvent(log, ev)
      /\ sub' = Broadcast(sub, ev) /\ nextSeq' = nextSeq + 1 /\ made' = made + 1
      /\ phase' = phase /\ lost' = lost /\ pos' = pos /\ seen' = seen
  BY <1>1 DEF PumpStored, ClientHistory
<1>3. /\ ev \in Event /\ ev.seq = nextSeq /\ ev.id = made + 1 /\ ev.kind = k
      /\ \A x \in log : x.seq < nextSeq
      /\ AppendEvent(log, ev) = log \cup {ev} /\ ev \notin log
      /\ \A c \in Clients : ~Has(sub[c], ev)
      /\ nextSeq \in Nat /\ made \in Nat /\ log \subseteq Event
      /\ \A c \in Clients : sub[c] \in SubOf(Event) /\ pos[c] \in Int
  BY <1>1, <1>2, StampFacts DEF Kinds
<1>4. Rows'
  BY <1>2, <1>3, RowsStep
<1>5. ASSUME NEW c \in Clients
      PROVE  Tailing(sub'[c], pos'[c], log', nextSeq') /\ (sub'[c].st = "on" => phase' = "live")
  <2>1. sub'[c] = Offer(sub[c], ev)
    BY <1>2 DEF Broadcast
  <2>2. Tailing(sub[c], pos[c], log, nextSeq)
    BY DEF AllInv, TailInv
  <2>3. Tailing(Offer(sub[c], ev), pos[c], log', nextSeq')
    BY <1>2, <1>3, <2>2, OfferTails
  <2> QED
    BY <1>2, <2>1, <2>3
<1>6. TailInv'
  BY <1>4, <1>5 DEF TailInv
<1>7. Tailed!Append(ev)
  BY <1>2, <1>3 DEF Tailed!Append
<1> QED
  BY <1>1, <1>6, <1>7

\* The log is appended to, or nothing that TailedLog knows changes.
LEMMA LogGrows ==
  ASSUME NEW ev, \A x \in log : x.seq < ev.seq, log' \in {log, log \cup {ev}}, pos' = pos, seen' = seen
  PROVE  Tailed!Append(ev) \/ UNCHANGED <<log, pos, seen>>
  BY DEF Tailed!Append

\* The pump broadcasts what it may not have stored: Append, or nothing the log knows of.
LEMMA TailPumpUnstored ==
  ASSUME AllInv, NEW k \in {"started", "output"}, NEW f, PumpUnstored(k, f)
  PROVE  TailInv' /\ (Tailed!Append(Stamp(0, k)) \/ UNCHANGED <<log, pos, seen>>)
<1>1. PICK ev, err : ev = Stamp(0, k) /\ err = Stamp(1, "persistError")
  OBVIOUS
<1>2. /\ phase = "live" /\ made + 2 <= MaxEvents /\ log' \in {log, AppendEvent(log, ev)}
      /\ lost' \subseteq lost \cup {ev, err}
      /\ sub' = Broadcast(Broadcast(sub, ev), err) /\ nextSeq' = nextSeq + 2 /\ made' = made + 2
      /\ phase' = phase /\ pos' = pos /\ seen' = seen
  BY <1>1 DEF PumpUnstored, WriteFails, ClientHistory
<1>3. made \in Nat /\ made + 1 <= MaxEvents
  BY <1>2, ConstantsOK DEF AllInv, TypeInv, Scalars
<1>4. /\ ev \in Event /\ ev.seq = nextSeq /\ ev.id = made + 1 /\ ev.kind = k
      /\ \A x \in log : x.seq < nextSeq
      /\ AppendEvent(log, ev) = log \cup {ev} /\ ev \notin log
      /\ \A c \in Clients : ~Has(sub[c], ev)
      /\ nextSeq \in Nat /\ made \in Nat /\ log \subseteq Event
      /\ \A c \in Clients : sub[c] \in SubOf(Event) /\ pos[c] \in Int
  BY <1>1, <1>2, <1>3, StampFacts DEF Kinds
<1>5. /\ err \in Event /\ err.seq = nextSeq + 1 /\ err.id = made + 2
      /\ err.kind = "persistError"
  BY <1>1, <1>2, StampIsEvent, ConstantsOK DEF AllInv, TypeInv, Scalars, Kinds
<1>6. log' \in {log, log \cup {ev}} /\ log' \subseteq Event
  BY <1>2, <1>4
<1>7. Rows'
  BY <1>2, <1>3, <1>4, <1>5, <1>6, RowsStep
<1>8. ASSUME NEW c \in Clients
      PROVE  Tailing(sub'[c], pos'[c], log', nextSeq') /\ (sub'[c].st = "on" => phase' = "live")
  <2>1. sub'[c] = Offer(Offer(sub[c], ev), err)
    BY <1>2 DEF Broadcast
  <2>2. Tailing(sub[c], pos[c], log, nextSeq)
    BY DEF AllInv, TailInv
  <2>. PICK M : M = log'
    OBVIOUS
  <2>3. /\ M \in SUBSET Event /\ log \in SUBSET Event /\ log \subseteq M /\ M \subseteq log \cup {ev}
        /\ nextSeq \in Nat /\ nextSeq + 1 \in Nat /\ nextSeq + 2 \in Nat
        /\ nextSeq <= ev.seq /\ ev.seq < nextSeq + 1
        /\ nextSeq + 1 <= err.seq /\ err.seq < nextSeq + 2
        /\ sub[c] \in SubOf(Event) /\ pos[c] \in Int /\ ~Has(sub[c], ev)
        /\ \A y \in log : y.seq < ev.seq
    BY <1>4, <1>5, <1>6
  <2>4. /\ Tailing(Offer(sub[c], ev), pos[c], M, nextSeq + 1)
        /\ Offer(sub[c], ev) \in SubOf(Event)
    BY <1>4, <2>2, <2>3, OfferTails
  <2>5. Tailing(Offer(Offer(sub[c], ev), err), pos[c], M, nextSeq + 2)
    BY <1>5, <2>3, <2>4, OfferTails
  <2> QED
    BY <1>2, <2>1, <2>5
<1>9. TailInv'
  BY <1>7, <1>8 DEF TailInv
<1> QED
  BY <1>1, <1>2, <1>4, <1>6, <1>9, LogGrows

\* The stream ends, stored or not: likewise.
LEMMA TailPumpEnd ==
  ASSUME AllInv, PumpEndStored \/ PumpEndUnstored
  PROVE  TailInv' /\ (Tailed!Append(Stamp(0, "ended")) \/ UNCHANGED <<log, pos, seen>>)
<1>1. PICK end, err : end = Stamp(0, "ended") /\ err = Stamp(1, "persistError")
  OBVIOUS
<1>2. /\ phase = "live" /\ made + 1 <= MaxEvents /\ log' \in {log, AppendEvent(log, end)}
      /\ phase' = "ended" /\ pos' = pos /\ seen' = seen
      /\ made \in Nat
  BY <1>1, ConstantsOK DEF PumpEndStored, PumpEndUnstored, WriteFails, ClientHistory, AllInv, TypeInv, Scalars
<1>3. /\ end \in Event /\ end.seq = nextSeq /\ end.id = made + 1 /\ end.kind = "ended"
      /\ \A x \in log : x.seq < nextSeq
      /\ AppendEvent(log, end) = log \cup {end} /\ end \notin log
      /\ \A c \in Clients : ~Has(sub[c], end)
      /\ nextSeq \in Nat /\ made \in Nat /\ log \subseteq Event
      /\ \A c \in Clients : sub[c] \in SubOf(Event) /\ pos[c] \in Int
  BY <1>1, <1>2, StampFacts DEF Kinds
<1>4. log' \in {log, log \cup {end}} /\ log' \subseteq Event
  BY <1>2, <1>3
<1>5. \A c \in Clients : Tailing(sub[c], pos[c], log, nextSeq)
  BY DEF AllInv, TailInv
<1>6. CASE PumpEndStored
  <2>1. /\ sub' = [c \in Clients |-> SendEnd(sub[c], end)] /\ nextSeq' = nextSeq + 1
        /\ made' = made + 1 /\ lost' = lost
    BY <1>1, <1>6 DEF PumpEndStored
  <2>2. Rows'
    BY <1>2, <1>3, <1>4, <2>1, RowsStep
  <2>3. ASSUME NEW c \in Clients
        PROVE  Tailing(sub'[c], pos'[c], log', nextSeq') /\ sub'[c].st # "on"
    <3>. PICK M : M = log'
      OBVIOUS
    <3>1. /\ M \in SUBSET Event /\ log \in SUBSET Event /\ log \subseteq M /\ M \subseteq log \cup {end}
          /\ nextSeq \in Nat /\ nextSeq + 1 \in Nat /\ nextSeq <= end.seq /\ end.seq < nextSeq + 1
          /\ sub[c] \in SubOf(Event) /\ pos[c] \in Int /\ ~Has(sub[c], end)
          /\ \A y \in log : y.seq < end.seq
      BY <1>3, <1>4
    <3>2. Tailing(SendEnd(sub[c], end), pos[c], M, nextSeq + 1) /\ SendEnd(sub[c], end).st # "on"
      BY <1>3, <1>5, <3>1, SendEndTails
    <3> QED
      BY <1>2, <2>1, <3>2
  <2> QED
    BY <1>1, <1>2, <1>3, <1>4, <2>2, <2>3, LogGrows DEF TailInv
<1>7. CASE PumpEndUnstored
  <2>1. /\ sub' = [c \in Clients |-> SendEnd(Broadcast(sub, err)[c], end)]
        /\ nextSeq' = nextSeq + 2 /\ made' = made + 2 /\ made + 2 <= MaxEvents
        /\ lost' \subseteq lost \cup {end, err}
    BY <1>1, <1>7 DEF PumpEndUnstored, WriteFails
  <2>2. /\ err \in Event /\ err.seq = nextSeq + 1 /\ err.id = made + 2
        /\ err.kind = "persistError"
    BY <1>1, <2>1, StampIsEvent, ConstantsOK DEF AllInv, TypeInv, Scalars, Kinds
  <2>3. Rows'
    BY <1>2, <1>3, <1>4, <2>1, <2>2, RowsStep
  <2>4. ASSUME NEW c \in Clients
        PROVE  Tailing(sub'[c], pos'[c], log', nextSeq') /\ sub'[c].st # "on"
    <3>. PICK M : M = log'
      OBVIOUS
    <3>1. /\ M \in SUBSET Event /\ log \in SUBSET Event /\ log \subseteq M /\ M \subseteq log \cup {end}
          /\ nextSeq \in Nat /\ nextSeq + 2 \in Nat
          /\ sub[c] \in SubOf(Event) /\ pos[c] \in Int /\ ~Has(sub[c], end)
          /\ \A y \in log : y.seq < end.seq
      BY <1>3, <1>4
    <3>2. /\ Tailing(SendEnd(Offer(sub[c], err), end), pos[c], M, nextSeq + 2)
          /\ SendEnd(Offer(sub[c], err), end).st # "on"
      BY <1>3, <1>5, <2>2, <3>1, EndUnstoredTails
    <3>3. sub'[c] = SendEnd(Offer(sub[c], err), end)
      BY <2>1 DEF Broadcast
    <3> QED
      BY <1>2, <2>1, <3>2, <3>3
  <2> QED
    BY <1>1, <1>2, <1>3, <1>4, <2>3, <2>4, LogGrows DEF TailInv
<1> QED
  BY <1>6, <1>7
-----------------------------------------------------------------------------
(* The end of a session, the restarts and the attachments.                    *)

\* It does not matter to one that is not subscribed what the session stamps next.
LEMMA NotOnTails ==
  ASSUME NEW s, NEW p, NEW L, NEW n, NEW m, Tailing(s, p, L, n), s.st # "on"
  PROVE  Tailing(s, p, L, m)
  BY DEF Tailing, Complete

\* One that is gone tails any log.
LEMMA OffTails ==
  ASSUME NEW p, NEW L, NEW n
  PROVE  Tailing(Off, p, L, n) /\ Off.st # "on"
<1>1. Off.backlog = {} /\ Off.ch = <<>> /\ Off.st = "off" /\ 1 .. Len(Off.ch) = {}
  BY EmptySeq DEF Off
<1>2. \A x : ~Has(Off, x)
  BY <1>1 DEF Has
<1> QED
  BY <1>1, <1>2 DEF Tailing, Sorted, After, Gapless, Complete

\* The session is let go of or revived, and no one is subscribed.
LEMMA TailQuiet ==
  ASSUME AllInv, ForgetEnded \/ Revive
  PROVE  TailInv' /\ UNCHANGED <<log, pos, seen>>
<1>1. /\ phase # "live" /\ sub' = sub /\ pos' = pos /\ seen' = seen
      /\ log' = log /\ made' = made /\ lost' = lost
  BY DEF ForgetEnded, Revive, ClientHistory
<1>2. \A c \in Clients : sub[c].st # "on" /\ Tailing(sub[c], pos[c], log, nextSeq)
  BY <1>1 DEF AllInv, TailInv
<1>3. \A c \in Clients : Tailing(sub[c], pos[c], log, nextSeq')
  BY <1>2, NotOnTails
<1> QED
  BY <1>1, <1>2, <1>3 DEF AllInv, TailInv, Rows

\* The daemon dies, between two events or with one in its hands.
LEMMA TailCrash ==
  ASSUME AllInv, Crash
  PROVE  TailInv' /\ UNCHANGED <<log, pos, seen>>
<1>1. /\ sub' = [c \in Clients |-> Off] /\ pos' = pos /\ seen' = seen
      /\ log' = log /\ made' = made /\ lost' = lost
  BY DEF Crash, Vanish
<1>2. \A c \in Clients : Tailing(Off, pos[c], log, nextSeq') /\ Off.st # "on"
  BY OffTails
<1> QED
  BY <1>1, <1>2 DEF AllInv, TailInv, Rows

\* The row is in and nobody was told: Append.
LEMMA TailCrashInPersist ==
  ASSUME AllInv, NEW k \in {"started", "output", "ended"}, CrashInPersist(k)
  PROVE  TailInv' /\ Tailed!Append(Stamp(0, k))
<1>1. PICK ev : ev = Stamp(0, k)
  OBVIOUS
<1>2. /\ phase = "live" /\ made + 1 <= MaxEvents /\ log' = AppendEvent(log, ev)
      /\ sub' = [c \in Clients |-> Off] /\ made' = made + 1
      /\ lost' = lost /\ pos' = pos /\ seen' = seen
  BY <1>1 DEF CrashInPersist, Vanish
<1>3. /\ ev \in Event /\ ev.seq = nextSeq /\ ev.id = made + 1 /\ ev.kind = k
      /\ \A x \in log : x.seq < nextSeq
      /\ AppendEvent(log, ev) = log \cup {ev} /\ made \in Nat
  BY <1>1, <1>2, StampFacts DEF Kinds
<1>4. Rows'
  BY <1>2, <1>3, RowsStep
<1>5. \A c \in Clients : Tailing(Off, pos[c], log', nextSeq') /\ Off.st # "on"
  BY OffTails
<1>6. TailInv'
  BY <1>2, <1>4, <1>5 DEF TailInv
<1>7. Tailed!Append(ev)
  BY <1>2, <1>3 DEF Tailed!Append
<1> QED
  BY <1>1, <1>6, <1>7

\* A replay read in full begins a gapless stretch of the log.
LEMMA AttachTails ==
  ASSUME NEW t \in SubOf(Event), NEW L \in SUBSET Event, NEW n \in Nat, NEW f \in Nat,
         \A x \in L : x.seq < n, t.ch = <<>>, t.backlog = {x \in L : f <= x.seq /\ x.seq < n},
         NEW p \in Int, p = (IF f < n THEN f ELSE n) - 1
  PROVE  Tailing(t, p, L, n)
<1>1. 1 .. Len(t.ch) = {}
  BY EmptySeq
<1>2. \A x \in Event : x.seq \in Int
  BY ConstantsOK DEF Event
<1>3. \A x : Has(t, x) <=> x \in t.backlog
  BY <1>1 DEF Has
<1>4. \A x \in L : p < x.seq => x \in t.backlog
  BY <1>2
<1>5. \A x \in t.backlog : x \in L /\ x.seq > p
  BY <1>2
<1>6. p < n
  OBVIOUS
<1> QED
  BY <1>1, <1>3, <1>4, <1>5, <1>6 DEF Tailing, Sorted, After, Gapless, Complete

\* A client attaches: Seek.
LEMMA TailAttach ==
  ASSUME "replay" \notin Faults, AllInv, NEW c \in Clients, NEW f \in FromSeqs(c), Attach(c, f)
  PROVE  TailInv' /\ Tailed!Seek(c)
<1> DEFINE p == (IF f < nextSeq THEN f ELSE nextSeq) - 1
           replay == {x \in log : f <= x.seq /\ x.seq < nextSeq}
           new == [st |-> IF phase = "ended" THEN "replay" ELSE "on", backlog |-> replay,
                   ch |-> <<>>, cap |-> Cardinality(replay) + SubBuffer]
<1>1. /\ phase \in {"live", "ended"} /\ phase' = phase /\ nextSeq' = nextSeq /\ log' = log
      /\ made' = made /\ lost' = lost /\ seen' = seen
      /\ pos' = [pos EXCEPT ![c] = p]
  BY DEF Attach
<1>2. sub' = [sub EXCEPT ![c] = new]
  <2>1. {x \in Stored(f) : x.seq < nextSeq} = replay
    BY DEF Stored
  <2>2. PICK n \in 0 .. nextSeq :
          /\ n = nextSeq
          /\ sub' = [sub EXCEPT ![c] =
                       [st |-> IF phase = "ended" THEN "replay" ELSE "on",
                        backlog |-> {x \in Stored(f) : x.seq < n},
                        ch |-> <<>>,
                        cap |-> Cardinality({x \in Stored(f) : x.seq < n}) + SubBuffer]]
    BY DEF Attach
  <2> QED
    BY <2>1, <2>2
<1>3. /\ sub \in [Clients -> SubOf(Event)] /\ pos \in [Clients -> -1 .. MaxEvents - 1]
      /\ nextSeq \in Nat /\ nextSeq <= MaxEvents /\ log \subseteq Event /\ IsFiniteSet(log)
      /\ MaxEvents \in Nat \ {0} /\ SubBuffer \in Nat
  BY ConstantsOK DEF AllInv, TypeInv, Scalars, Channels, Views
<1>4. f \in Nat
  BY <1>3 DEF FromSeqs
<1>5. p \in -1 .. MaxEvents - 1 /\ p \in Int
  BY <1>3, <1>4
<1>6. new \in SubOf(Event) /\ new.ch = <<>> /\ new.backlog = replay
      /\ (new.st = "on" => phase = "live")
  <2>1. Cardinality(replay) \in Nat
    BY <1>3, FS_Subset, FS_CardinalityType
  <2>2. replay \subseteq Event
    BY <1>3
  <2>3. Cardinality(replay) + SubBuffer \in Nat
    BY <1>3, <2>1
  <2> HIDE DEF replay
  <2> QED
    BY <1>1, <2>2, <2>3, EmptySeq DEF SubOf, SubStates
<1>7. \A x \in log : x.seq < nextSeq
  BY <1>1 DEF AllInv, SeqAheadOfLog
<1>8. Tailing(new, p, log, nextSeq)
  <2> HIDE DEF new
  <2> QED
    BY <1>3, <1>4, <1>5, <1>6, <1>7, AttachTails
<1>9. TailInv'
  <2> HIDE DEF new, p
  <2>1. \A d \in Clients : /\ sub'[d] = IF d = c THEN new ELSE sub[d]
                           /\ pos'[d] = IF d = c THEN p ELSE pos[d]
    BY <1>1, <1>2, <1>3
  <2>2. \A d \in Clients : Tailing(sub'[d], pos'[d], log, nextSeq) /\ (sub'[d].st = "on" => phase = "live")
    BY <1>6, <1>8, <2>1 DEF AllInv, TailInv
  <2> QED
    BY <1>1, <2>2 DEF AllInv, TailInv, Rows
<1>10. Tailed!Seek(c)
  <2>1. p \in {x.seq : x \in Event} \cup {-1}
    <3>1. CASE p # -1
      <4> HIDE DEF p
      <4>1. p \in 0 .. MaxEvents - 1 /\ 1 \in 1 .. MaxEvents
        BY <1>3, <1>5, <3>1
      <4>2. [seq |-> p, id |-> 1, kind |-> "output"] \in Event
        BY <4>1 DEF Event, Kinds
      <4>3. [seq |-> p, id |-> 1, kind |-> "output"].seq = p
        OBVIOUS
      <4> QED
        BY <4>2, <4>3
    <3> QED
      BY <3>1
  <2> HIDE DEF p
  <2> QED
    BY <1>1, <2>1 DEF Tailed!Seek
<1> QED
  BY <1>9, <1>10
-----------------------------------------------------------------------------
(* The subscriber goroutine.                                                  *)

\* The first event of a replay is the first stored one after the client's position.
LEMMA TakeReplay ==
  ASSUME NEW s \in SubOf(Event), NEW t \in SubOf(Event), NEW p \in Int, NEW L \in SUBSET Event,
         NEW n \in Nat, Tailing(s, p, L, n), \A x \in L, y \in L : x.seq = y.seq => x = y,
         NEW e \in s.backlog, \A x \in s.backlog : e.seq <= x.seq,
         t.backlog = s.backlog \ {e}, t.ch = s.ch, t.st = s.st
  PROVE  /\ e \in L /\ e.seq > p
         /\ \A x \in L : x.seq > p => x.seq >= e.seq
         /\ Tailing(t, e.seq, L, n)
<1>1. e \in L /\ e.seq > p /\ Has(s, e)
  BY DEF Tailing, After, Has
<1>2. \A x \in Event : x.seq \in Int
  BY ConstantsOK DEF Event
<1>3. \A i \in 1 .. Len(s.ch) : e.seq < s.ch[i].seq
  BY DEF Tailing, Sorted
<1>4. \A x : Has(s, x) => x = e \/ Has(t, x)
  BY DEF Has
<1>5. \A x : Has(t, x) => Has(s, x)
  BY DEF Has
<1>6. ASSUME NEW x \in L, x.seq > p
      PROVE  x.seq >= e.seq
  <2> SUFFICES ASSUME x.seq < e.seq
               PROVE  FALSE
    BY <1>1, <1>2
  <2>1. Has(s, x)
    BY <1>1, <1>2, <1>6 DEF Tailing, Gapless
  <2> QED
    BY <1>1, <1>2, <1>3, <2>1 DEF Has
<1>7. Sorted(t)
  BY DEF Tailing, Sorted
<1>8. After(t, e.seq)
  <2>1. ASSUME NEW b \in t.backlog
        PROVE  b.seq > e.seq
    <3>1. b # e /\ b \in L /\ e.seq <= b.seq
      BY DEF Tailing
    <3>2. b.seq # e.seq
      BY <1>1, <3>1
    <3> QED
      BY <1>1, <1>2, <3>1, <3>2
  <2>2. \A i \in 1 .. Len(t.ch) : t.ch[i].seq > e.seq
    BY <1>3
  <2> QED
    BY <2>1, <2>2 DEF After
<1>9. \A x \in L : e.seq < x.seq => x # e /\ p < x.seq
  BY <1>1, <1>2
<1>10. Gapless(t, e.seq, L)
  BY <1>4, <1>5, <1>9 DEF Tailing, Gapless
<1>11. Complete(t, e.seq, L, n)
  BY <1>1, <1>4, <1>5, <1>9 DEF Tailing, Complete
<1>12. t.backlog \subseteq L
  BY DEF Tailing
<1> QED
  BY <1>1, <1>6, <1>7, <1>8, <1>10, <1>11, <1>12 DEF Tailing

\* t is s without its first live event e; q is p, or e's seq when that is later.
Receives(s, t, e) == /\ s.backlog = {} /\ s.ch # <<>> /\ e = Head(s.ch)
                     /\ t.backlog = {} /\ t.ch = Tail(s.ch) /\ t.st = s.st
Further(p, q, e) == q = IF e.seq > p THEN e.seq ELSE p

\* So is the first of the channel if it is stored, but for an end that comes after its notice.
LEMMA TakeLive ==
  ASSUME NEW s \in SubOf(Event), NEW t \in SubOf(Event), NEW p \in Int, NEW L \in SUBSET Event,
         NEW n \in Nat, Tailing(s, p, L, n), \A x \in L : x.kind # "persistError",
         NEW e \in Event, Receives(s, t, e), NEW q \in Int, Further(p, q, e)
  PROVE  /\ e.seq > p /\ e \in L => \A x \in L : x.seq > p => x.seq >= e.seq
         /\ ~(e.seq > p) => e.kind = "ended" /\ e.seq < p
         /\ Tailing(t, q, L, n)
<1> USE DEF Receives, Further
<1>1. s.ch \in Seq(Event) /\ Len(s.ch) \in Nat /\ Len(s.ch) >= 1 /\ s.ch[1] = e
      /\ Len(t.ch) = Len(s.ch) - 1
      /\ \A i \in 1 .. Len(t.ch) : t.ch[i] = s.ch[i + 1]
  <2>1. s.ch \in Seq(Event)
    BY DEF SubOf
  <2> QED
    BY <2>1, HeadTailProperties, LenProperties, EmptySeq
<1>2. \A x \in Event : x.seq \in Int
  BY ConstantsOK DEF Event
<1>3. 1 \in 1 .. Len(s.ch) /\ \A i \in 1 .. Len(s.ch) : s.ch[i] \in Event
  BY <1>1, ElementOfSeq
<1>4. \A i \in 1 .. Len(t.ch) : i + 1 \in 1 .. Len(s.ch) /\ 1 < i + 1
  BY <1>1
<1>5. \A i \in 1 .. Len(s.ch) : i = 1 \/ (i - 1 \in 1 .. Len(t.ch) /\ t.ch[i - 1] = s.ch[i] /\ 1 < i)
  <2>1. ASSUME NEW i \in 1 .. Len(s.ch), i # 1
        PROVE  i - 1 \in 1 .. Len(t.ch) /\ t.ch[i - 1] = s.ch[i] /\ 1 < i
    <3>1. i - 1 \in 1 .. Len(t.ch) /\ (i - 1) + 1 = i /\ 1 < i
      BY <1>1, <2>1
    <3> QED
      BY <1>1, <3>1
  <2> QED
    BY <2>1
<1>6. e \in Event /\ Has(s, e)
  BY <1>1, <1>3 DEF Has
<1>7. \A x : Has(s, x) => x = e \/ Has(t, x)
  BY <1>1, <1>5 DEF Has
<1>8. \A x : Has(t, x) => Has(s, x)
  BY <1>1, <1>4 DEF Has
<1>9. \A i \in 1 .. Len(s.ch) : 1 < i => e.seq < s.ch[i].seq \/ NoticeFirst(e, s.ch[i])
  BY <1>1, <1>3 DEF Tailing, Sorted
<1>10. e.seq > p \/ (e.kind = "ended" /\ e.seq < p)
  BY <1>1, <1>3 DEF Tailing, After
<1>11. ASSUME e.seq > p, e \in L, NEW x \in L, x.seq > p
       PROVE  x.seq >= e.seq
  <2> SUFFICES ASSUME x.seq < e.seq
               PROVE  FALSE
    BY <1>2, <1>6
  <2>1. Has(s, x)
    BY <1>2, <1>6, <1>11 DEF Tailing, Gapless
  <2>2. PICK i \in 1 .. Len(s.ch) : s.ch[i] = x
    BY <2>1 DEF Has
  <2>3. i # 1
    BY <1>1, <1>2, <2>2
  <2>4. e.seq < x.seq
    BY <1>5, <1>9, <1>11, <2>2, <2>3 DEF NoticeFirst
  <2> QED
    BY <1>2, <1>6, <2>4
<1>12. Sorted(t)
  <2>1. ASSUME NEW i \in 1 .. Len(t.ch), NEW j \in 1 .. Len(t.ch), i < j
        PROVE  t.ch[i].seq < t.ch[j].seq \/ NoticeFirst(t.ch[i], t.ch[j])
    <3>1. i + 1 \in 1 .. Len(s.ch) /\ j + 1 \in 1 .. Len(s.ch) /\ i + 1 < j + 1
      BY <1>1, <2>1
    <3>2. s.ch[i + 1].seq < s.ch[j + 1].seq \/ NoticeFirst(s.ch[i + 1], s.ch[j + 1])
      BY <3>1 DEF Tailing, Sorted
    <3> QED
      BY <1>1, <3>2
  <2> QED
    BY <2>1 DEF Sorted
<1>13. After(t, q)
  <2>1. ASSUME NEW i \in 1 .. Len(t.ch)
        PROVE  t.ch[i].seq > q \/ (t.ch[i].kind = "ended" /\ t.ch[i].seq < q)
    <3>1. PICK x \in Event : x = s.ch[i + 1] /\ x = t.ch[i]
      BY <1>1, <1>3, <1>4
    <3>2. e.seq < x.seq \/ (x.kind = "ended" /\ x.seq < e.seq)
      BY <1>4, <1>9, <3>1 DEF NoticeFirst
    <3>3. x.seq > p \/ (x.kind = "ended" /\ x.seq < p)
      BY <1>4, <3>1 DEF Tailing, After
    <3>4. CASE e.seq > p
      BY <3>1, <3>2, <3>4
    <3>5. CASE ~(e.seq > p)
      BY <3>1, <3>3, <3>5
    <3> QED
      BY <3>4, <3>5
  <2> QED
    BY <2>1 DEF After
<1>14. e.seq <= q /\ p <= q
  BY <1>2, <1>6
<1>15. \A x \in L : q < x.seq => x # e /\ p < x.seq
  BY <1>2, <1>6, <1>14
<1>16. Gapless(t, q, L)
  BY <1>7, <1>8, <1>15 DEF Tailing, Gapless
<1>17. Complete(t, q, L, n)
  <2>1. t.st = "on" => q < n
    BY <1>6 DEF Tailing, Complete
  <2>2. t.st = "on" => \A x \in L : x.seq > q => Has(t, x)
    BY <1>2, <1>7, <1>15 DEF Tailing, Complete
  <2>3. t.st = "on" => \A x \in Event : Has(t, x) => x.seq < n
    BY <1>8 DEF Tailing, Complete
  <2> QED
    BY <2>1, <2>2, <2>3 DEF Complete
<1> QED
  BY <1>6, <1>10, <1>11, <1>12, <1>13, <1>16, <1>17 DEF Tailing

\* One subscriber moves on, the rest of the session being as it was.
LEMMA TailMoves ==
  ASSUME AllInv, NEW c \in Clients, NEW t, NEW q, UNCHANGED Session,
         sub' = [sub EXCEPT ![c] = t], pos' = [pos EXCEPT ![c] = q],
         Tailing(t, q, log, nextSeq), t.st = "on" => phase = "live"
  PROVE  TailInv'
<1>1. \A d \in Clients : /\ sub'[d] = IF d = c THEN t ELSE sub[d]
                         /\ pos'[d] = IF d = c THEN q ELSE pos[d]
  BY DEF AllInv, TypeInv, Channels, Views
<1>2. \A d \in Clients : Tailing(sub'[d], pos'[d], log, nextSeq) /\ (sub'[d].st = "on" => phase = "live")
  BY <1>1 DEF AllInv, TailInv
<1> QED
  BY <1>2 DEF AllInv, TailInv, Rows, Session

\* A client is handed an event of its replay: Read.
LEMMA TailDeliverReplay ==
  ASSUME AllInv, NEW c \in Clients, DeliverReplay(c)
  PROVE  TailInv' /\ \E e \in Event : Tailed!Read(c, e)
<1>1. PICK e \in sub[c].backlog :
        /\ \A x \in sub[c].backlog : e.seq <= x.seq
        /\ sub' = [sub EXCEPT ![c].backlog = @ \ {e}]
        /\ Hand(c, e)
  BY DEF DeliverReplay
<1>2. PICK s : s = sub[c]
  OBVIOUS
<1>3. /\ s \in SubOf(Event) /\ pos[c] \in Int /\ nextSeq \in Nat /\ log \in SUBSET Event
      /\ Tailing(s, pos[c], log, nextSeq) /\ (s.st = "on" => phase = "live")
      /\ \A x \in log, y \in log : x.seq = y.seq => x = y
      /\ e \in s.backlog /\ \A x \in s.backlog : e.seq <= x.seq
  BY <1>1, <1>2, ConstantsOK DEF AllInv, TypeInv, Scalars, Channels, Views, TailInv, Rows
<1>4. PICK t : t = [s EXCEPT !.backlog = @ \ {e}]
  OBVIOUS
<1>5. t \in SubOf(Event) /\ t.backlog = s.backlog \ {e} /\ t.ch = s.ch /\ t.st = s.st
  BY <1>3, <1>4 DEF SubOf
<1>6. /\ e \in log /\ e.seq > pos[c]
      /\ \A x \in log : x.seq > pos[c] => x.seq >= e.seq
      /\ Tailing(t, e.seq, log, nextSeq)
  BY <1>3, <1>5, TakeReplay
<1>7. sub' = [sub EXCEPT ![c] = t] /\ pos' = [pos EXCEPT ![c] = e.seq]
      /\ seen' = [seen EXCEPT ![c] = @ \cup {e}] /\ UNCHANGED Session
  BY <1>1, <1>2, <1>4, <1>6 DEF Hand
<1>8. TailInv'
  BY <1>3, <1>5, <1>6, <1>7, TailMoves
<1>9. Tailed!Read(c, e) /\ e \in Event
  BY <1>3, <1>6, <1>7 DEF Tailed!Read, Session
<1> QED
  BY <1>8, <1>9

\* A client is handed a live event: Read if it is stored and new to it, else ReadAside.
LEMMA TailDeliverLive ==
  ASSUME AllInv, NEW c \in Clients, DeliverLive(c)
  PROVE  TailInv' /\ \E e \in Event : Tailed!Read(c, e) \/ Tailed!ReadAside(c, e)
<1>1. PICK s, e : s = sub[c] /\ e = Head(s.ch)
  OBVIOUS
<1>2. /\ s \in SubOf(Event) /\ pos[c] \in Int /\ nextSeq \in Nat /\ log \in SUBSET Event
      /\ Tailing(s, pos[c], log, nextSeq) /\ (s.st = "on" => phase = "live")
      /\ \A x \in log : x.kind # "persistError"
      /\ s.backlog = {} /\ s.ch # <<>>
  BY <1>1, ConstantsOK DEF DeliverLive, AllInv, TypeInv, Scalars, Channels, Views, TailInv, Rows
<1>3. PICK t : t = [s EXCEPT !.ch = Tail(@)]
  OBVIOUS
<1>4. s.ch \in Seq(Event) /\ Head(s.ch) \in Event /\ Tail(s.ch) \in Seq(Event)
  BY <1>2, HeadTailProperties DEF SubOf
<1>5. t \in SubOf(Event) /\ t.backlog = {} /\ t.ch = Tail(s.ch) /\ t.st = s.st
  BY <1>2, <1>3, <1>4 DEF SubOf
<1>6. PICK q : q = IF e.seq > pos[c] THEN e.seq ELSE pos[c]
  OBVIOUS
<1>7. e \in Event /\ e.seq \in Int /\ q \in Int
  BY <1>1, <1>2, <1>4, <1>6, ConstantsOK DEF Event
<1>8. /\ e.seq > pos[c] /\ e \in log => \A x \in log : x.seq > pos[c] => x.seq >= e.seq
      /\ ~(e.seq > pos[c]) => e.kind = "ended" /\ e.seq < pos[c]
      /\ Tailing(t, q, log, nextSeq)
  <2>1. PICK p, L, n : p = pos[c] /\ L = log /\ n = nextSeq
    OBVIOUS
  <2>2. /\ s \in SubOf(Event) /\ t \in SubOf(Event) /\ p \in Int /\ L \in SUBSET Event /\ n \in Nat
        /\ Tailing(s, p, L, n) /\ \A x \in L : x.kind # "persistError"
        /\ e \in Event /\ Receives(s, t, e) /\ q \in Int /\ Further(p, q, e)
    BY <1>1, <1>2, <1>5, <1>6, <1>7, <2>1 DEF Receives, Further
  <2>3. /\ e.seq > p /\ e \in L => \A x \in L : x.seq > p => x.seq >= e.seq
        /\ ~(e.seq > p) => e.kind = "ended" /\ e.seq < p
        /\ Tailing(t, q, L, n)
    BY <2>2, TakeLive
  <2> QED
    BY <2>1, <2>3
<1>9. sub' = [sub EXCEPT ![c] = t]
      /\ pos' = [pos EXCEPT ![c] = IF e.seq > @ THEN e.seq ELSE @]
      /\ seen' = [seen EXCEPT ![c] = @ \cup {e}] /\ UNCHANGED Session
  BY <1>1, <1>3 DEF DeliverLive, Hand
<1>10. pos' = [pos EXCEPT ![c] = q]
  BY <1>6, <1>9
<1>11. TailInv'
  BY <1>2, <1>5, <1>8, <1>9, <1>10, TailMoves
<1>12. CASE e.seq > pos[c] /\ e \in log
  <2>1. pos' = [pos EXCEPT ![c] = e.seq]
    BY <1>6, <1>10, <1>12
  <2>2. Tailed!Read(c, e)
    BY <1>8, <1>9, <1>12, <2>1 DEF Tailed!Read, Session
  <2> QED
    BY <1>7, <1>11, <2>2
<1>13. CASE ~(e.seq > pos[c] /\ e \in log)
  <2>1. e \notin log \/ (EndOf(e) /\ e.seq < pos[c])
    BY <1>8, <1>13 DEF EndOf
  <2>2. Tailed!ReadAside(c, e)
    BY <1>9, <2>1 DEF Tailed!ReadAside, Session
  <2> QED
    BY <1>7, <1>11, <2>2
<1> QED
  BY <1>12, <1>13

\* A goroutine that leaves: nothing the log knows of.
LEMMA TailExit ==
  ASSUME AllInv, NEW c \in Clients, Exit(c)
  PROVE  TailInv' /\ UNCHANGED <<log, pos, seen>>
<1>1. /\ sub' = [sub EXCEPT ![c] = Off] /\ UNCHANGED Session /\ pos' = pos /\ seen' = seen
  BY DEF Exit
<1>2. pos' = [pos EXCEPT ![c] = pos[c]]
  BY <1>1 DEF AllInv, TypeInv, Views
<1>3. Tailing(Off, pos[c], log, nextSeq) /\ Off.st # "on"
  BY OffTails
<1>4. TailInv'
  BY <1>1, <1>2, <1>3, TailMoves
<1> QED
  BY <1>1, <1>4 DEF Session
-----------------------------------------------------------------------------
(* The refinement.                                                            *)

\* The invariant holds at first, and the session starts where the abstract log does.
LEMMA TailInit == Init => TailInv /\ Tailed!Init
<1> SUFFICES ASSUME Init PROVE TailInv /\ Tailed!Init
  OBVIOUS
<1>1. \A c \in Clients : sub[c] = Off
  BY DEF Init
<1>2. \A c \in Clients : Tailing(Off, pos[c], log, nextSeq) /\ Off.st # "on"
  BY OffTails
<1>3. Rows
  BY DEF Init, Rows
<1>4. TailInv
  BY <1>1, <1>2, <1>3 DEF TailInv
<1> QED
  BY <1>4 DEF Init, Tailed!Init

\* Every step of the session keeps the invariant, and is a step of the abstract log or none.
LEMMA TailNext ==
  ASSUME "replay" \notin Faults, AllInv, [Next]_vars
  PROVE  TailInv' /\ [Tailed!Next]_(Tailed!vars)
<1> USE DEF Tailed!Next, Tailed!vars
<1>1. ASSUME NEW k \in {"started", "output"}, PumpStored(k)
      PROVE  TailInv' /\ [Tailed!Next]_(Tailed!vars)
  <2>1. Stamp(0, k) \in Event
    BY <1>1, StampIsEvent, ConstantsOK DEF AllInv, TypeInv, Scalars, PumpStored, Kinds
  <2> QED
    BY <1>1, <2>1, TailPumpStored
<1>2. ASSUME NEW k \in {"started", "output"}, NEW f \in {"append", "native"}, PumpUnstored(k, f)
      PROVE  TailInv' /\ [Tailed!Next]_(Tailed!vars)
  <2>1. Stamp(0, k) \in Event
    BY <1>2, StampIsEvent, ConstantsOK DEF AllInv, TypeInv, Scalars, PumpUnstored, Kinds
  <2> QED
    BY <1>2, <2>1, TailPumpUnstored
<1>3. CASE PumpEndStored \/ PumpEndUnstored
  <2>1. Stamp(0, "ended") \in Event
    BY <1>3, StampIsEvent, ConstantsOK DEF AllInv, TypeInv, Scalars, PumpEndStored, PumpEndUnstored, Kinds
  <2> QED
    BY <1>3, <2>1, TailPumpEnd
<1>4. CASE ForgetEnded \/ Revive
  BY <1>4, TailQuiet
<1>5. CASE Crash
  BY <1>5, TailCrash
<1>6. ASSUME NEW k \in {"started", "output", "ended"}, CrashInPersist(k)
      PROVE  TailInv' /\ [Tailed!Next]_(Tailed!vars)
  <2>1. Stamp(0, k) \in Event
    BY <1>6, StampIsEvent, ConstantsOK DEF AllInv, TypeInv, Scalars, CrashInPersist, Kinds
  <2> QED
    BY <1>6, <2>1, TailCrashInPersist
<1>7. ASSUME NEW c \in Clients, NEW f \in FromSeqs(c), Attach(c, f)
      PROVE  TailInv' /\ [Tailed!Next]_(Tailed!vars)
  BY <1>7, TailAttach
<1>8. ASSUME NEW c \in Clients, DeliverReplay(c)
      PROVE  TailInv' /\ [Tailed!Next]_(Tailed!vars)
  BY <1>8, TailDeliverReplay
<1>9. ASSUME NEW c \in Clients, DeliverLive(c)
      PROVE  TailInv' /\ [Tailed!Next]_(Tailed!vars)
  BY <1>9, TailDeliverLive
<1>10. ASSUME NEW c \in Clients, Drained(c) \/ Overflowed(c) \/ Disconnect(c)
       PROVE  TailInv' /\ [Tailed!Next]_(Tailed!vars)
  BY <1>10, TailExit DEF Drained, Overflowed, Disconnect
<1>11. CASE UNCHANGED vars
  BY <1>11 DEF vars, AllInv, TailInv, Rows
<1> QED
  BY <1>1, <1>2, <1>3, <1>4, <1>5, <1>6, <1>7, <1>8, <1>9, <1>10, <1>11 DEF Next

\* The clients of a session tail one durable log: whatever the pump, the channels, the
\* overflows, the disconnects and the restarts do, what a client is handed is a run of
\* TailedLog, as long as no read of the store fails.
THEOREM TailsLogCorrect ==
  "revive" \notin Faults /\ "replay" \notin Faults => (Spec => TailsLog)
<1> SUFFICES ASSUME "revive" \notin Faults, "replay" \notin Faults
             PROVE  Spec => TailsLog
  OBVIOUS
<1>1. Init => AllInv /\ Tailed!Init
  BY TypeInvInit, SeqAheadInit, DurableInit, TailInit DEF AllInv
<1>2. AllInv /\ [Next]_vars => AllInv' /\ [Tailed!Next]_(Tailed!vars)
  BY TypeInvNext, SeqAheadNext, DurableNext, TailNext DEF AllInv
<1> QED
  BY <1>1, <1>2, PTL DEF Spec, TailsLog, Tailed!Spec
-----------------------------------------------------------------------------
(* Nothing missed.  Two more layers: every seq up to the next one, and up to   *)
(* where a client is, was given to a stored event or to one whose write        *)
(* failed (Ground); and what lies between a client and an event in its channel *)
(* goes before that event in the channel, or is one of NothingMissed's         *)
(* exceptions (NoHoles).                                                       *)

\* The exceptions of NothingMissed, K being the events that were not stored.
Excused(x, K) == \E y \in K : y.seq = x.seq \/ (x.kind = "ended" /\ y.seq = x.seq + 1)

Before(s, x, i) == x \in s.backlog \/ \E j \in 1 .. i - 1 : s.ch[j] = x

NoHoles(s, p, L, K) ==
  \A i \in 1 .. Len(s.ch) : \A x \in L :
    p < x.seq /\ x.seq < s.ch[i].seq => Before(s, x, i) \/ Excused(x, K)

Dense(S, n) == \A q \in 0 .. n - 1 : \E w \in S : w.seq = q

Ground == /\ phase # "gone" => Dense(Known, nextSeq)
          /\ \A z \in Known : Dense(Known, z.seq + 1)
          /\ \A c \in Clients : Dense(Known, pos[c] + 1)

WholeInv == /\ Ground
            /\ \A c \in Clients : NoHoles(sub[c], pos[c], log, lost)
            /\ NothingMissed

\* What is dense stays so when more is known ...
LEMMA DenseMore ==
  ASSUME NEW S, NEW T, S \subseteq T, NEW n \in Int, NEW m \in Int, m <= n, Dense(S, n)
  PROVE  Dense(T, m)
  BY DEF Dense

\* ... and one seq further when that seq is used.
LEMMA DenseNext ==
  ASSUME NEW S, NEW T, S \subseteq T, NEW n \in Int, Dense(S, n), NEW e \in T, e.seq = n
  PROVE  Dense(T, n + 1)
<1> SUFFICES ASSUME NEW q \in 0 .. (n + 1) - 1
             PROVE  \E w \in T : w.seq = q
  BY DEF Dense
<1>1. CASE q = n
  BY <1>1
<1>2. CASE q \in 0 .. n - 1
  BY <1>2 DEF Dense
<1> QED
  BY <1>1, <1>2

\* A client or a known event past the next seq: that seq was given to an event whose write failed.
LEMMA Reused ==
  ASSUME AllInv, phase # "gone", NEW z \in Int, z >= nextSeq, Dense(Known, z + 1), NEW x, x.seq = nextSeq
  PROVE  Excused(x, lost)
<1>1. nextSeq \in Nat
  BY DEF AllInv, TypeInv, Scalars
<1>2. nextSeq \in 0 .. (z + 1) - 1
  BY <1>1
<1>3. PICK w \in Known : w.seq = nextSeq
  BY <1>2 DEF Dense
<1>4. \A y \in log : y.seq < nextSeq
  BY DEF AllInv, SeqAheadOfLog
<1>5. w \in lost
  BY <1>1, <1>3, <1>4 DEF Known
<1> QED
  BY <1>3, <1>5 DEF Excused

\* The numbers of a state.
LEMMA Numbers ==
  ASSUME AllInv
  PROVE  /\ nextSeq \in Nat /\ made \in Nat /\ log \in SUBSET Event /\ lost \in SUBSET Event
         /\ Known \subseteq Event /\ \A x \in Event : x.seq \in Nat
         /\ \A c \in Clients : /\ sub[c] \in SubOf(Event) /\ pos[c] \in Int /\ pos[c] >= -1
                               /\ since[c] \in Nat /\ seen[c] \in SUBSET Event
<1>1. \A x \in Event : x.seq \in Nat
  BY ConstantsOK DEF Event
<1>2. /\ nextSeq \in Nat /\ made \in Nat /\ log \in SUBSET Event /\ lost \in SUBSET Event
      /\ Known \subseteq Event
  BY DEF AllInv, TypeInv, Scalars, Known
<1>3. \A c \in Clients : /\ sub[c] \in SubOf(Event) /\ pos[c] \in Int /\ pos[c] >= -1
                         /\ since[c] \in Nat /\ seen[c] \in SUBSET Event
  BY ConstantsOK DEF AllInv, TypeInv, Channels, Views
<1> QED
  BY <1>1, <1>2, <1>3

\* The ground grows with the seqs a live session stamps: one, e, or two, f being the other.
LEMMA GroundGrows ==
  ASSUME AllInv, Ground, phase = "live", NEW e, NEW f, e.seq = nextSeq, pos' = pos,
         \/ Known' = Known \cup {e} /\ (phase' # "gone" => nextSeq' = nextSeq + 1)
         \/ Known' = Known \cup {e, f} /\ f.seq = nextSeq + 1 /\ nextSeq' = nextSeq + 2
  PROVE  Ground'
<1>1. /\ nextSeq \in Nat /\ \A x \in Known : x.seq \in Int
      /\ \A c \in Clients : pos[c] \in Int
  BY Numbers
<1>2. PICK T : T = Known'
  OBVIOUS
<1>3. Known \subseteq T /\ e \in T
  BY <1>2
<1>4. /\ Dense(Known, nextSeq)
      /\ \A z \in Known : Dense(Known, z.seq + 1)
      /\ \A c \in Clients : Dense(Known, pos[c] + 1)
  BY DEF Ground
<1>5. Dense(T, nextSeq + 1)
  BY <1>1, <1>3, <1>4, DenseNext
<1>6. f \in T /\ f.seq = nextSeq + 1 => Dense(T, nextSeq + 2)
  <2> SUFFICES ASSUME f \in T, f.seq = nextSeq + 1 PROVE Dense(T, nextSeq + 2)
    OBVIOUS
  <2>1. nextSeq + 1 \in Int /\ (nextSeq + 1) + 1 = nextSeq + 2 /\ T \subseteq T
    BY <1>1
  <2>2. Dense(T, (nextSeq + 1) + 1)
    BY <1>5, <2>1, DenseNext
  <2> QED
    BY <2>1, <2>2
<1>7. \A z \in T : Dense(T, z.seq + 1)
  <2>1. ASSUME NEW z \in Known PROVE Dense(T, z.seq + 1)
    <3>1. z.seq + 1 \in Int /\ z.seq + 1 <= z.seq + 1
      BY <1>1
    <3> QED
      BY <1>3, <1>4, <3>1, DenseMore
  <2>2. e.seq + 1 = nextSeq + 1 /\ (f.seq = nextSeq + 1 => f.seq + 1 = nextSeq + 2)
    BY <1>1
  <2>3. \A z \in T : z \in Known \/ z = e \/ (z = f /\ f \in T /\ f.seq = nextSeq + 1)
    BY <1>2
  <2> QED
    BY <1>5, <1>6, <2>1, <2>2, <2>3
<1>8. \A c \in Clients : Dense(T, pos[c] + 1)
  <2> SUFFICES ASSUME NEW c \in Clients PROVE Dense(T, pos[c] + 1)
    OBVIOUS
  <2>1. pos[c] + 1 \in Int /\ pos[c] + 1 <= pos[c] + 1
    BY <1>1
  <2>2. Dense(Known, pos[c] + 1) /\ Known \subseteq T
    BY <1>3, <1>4
  <2> QED
    BY <2>1, <2>2, DenseMore
<1>9. phase' # "gone" => Dense(T, nextSeq')
  BY <1>2, <1>5, <1>6
<1> QED
  BY <1>2, <1>7, <1>8, <1>9 DEF Ground
-----------------------------------------------------------------------------
(* One subscriber has no holes.                                               *)

\* A row more does not make a hole if all that is held lies before it, or it is excused.
LEMMA RowHoles ==
  ASSUME NEW s \in SubOf(Event), NEW p \in Int, NEW L \in SUBSET Event, NEW M \in SUBSET Event,
         NEW K, NEW J, K \subseteq J, NEW e \in Event, M \subseteq L \cup {e}, NoHoles(s, p, L, K),
         (\A x \in Event : Has(s, x) => x.seq <= e.seq) \/ Excused(e, J)
  PROVE  NoHoles(s, p, M, J)
<1>1. \A x \in Event : x.seq \in Int
  BY ConstantsOK DEF Event
<1>2. \A i \in 1 .. Len(s.ch) : s.ch[i] \in Event
  BY ElementOfSeq DEF SubOf
<1>3. ASSUME NEW i \in 1 .. Len(s.ch), NEW x \in M, p < x.seq, x.seq < s.ch[i].seq
      PROVE  Before(s, x, i) \/ Excused(x, J)
  <2>1. CASE x \in L
    <3>1. Before(s, x, i) \/ Excused(x, K)
      BY <1>3, <2>1 DEF NoHoles
    <3> QED
      BY <3>1 DEF Excused
  <2>2. CASE x = e
    <3>1. Has(s, s.ch[i])
      BY DEF Has
    <3>2. ~(s.ch[i].seq <= e.seq)
      BY <1>1, <1>2, <1>3, <2>2
    <3> QED
      BY <1>2, <2>2, <3>1, <3>2
  <2> QED
    BY <2>1, <2>2
<1> QED
  BY <1>3 DEF NoHoles

\* Nor does an event more in the channel, if all before it are held or excused.
LEMMA GetsHoles ==
  ASSUME NEW s \in SubOf(Event), NEW t \in SubOf(Event), NEW p \in Int, NEW M \in SUBSET Event,
         NEW K, NEW e \in Event, NoHoles(s, p, M, K), Gets(s, t, e),
         \A x \in M : p < x.seq /\ x.seq < e.seq => Has(s, x) \/ Excused(x, K)
  PROVE  NoHoles(t, p, M, K)
<1>1. /\ Len(s.ch) \in Nat /\ Len(t.ch) = Len(s.ch) + 1 /\ t.backlog = s.backlog
      /\ \A i \in 1 .. Len(s.ch) : t.ch[i] = s.ch[i]
      /\ t.ch[Len(s.ch) + 1] = e
  BY LenProperties DEF Gets, SubOf
<1>2. ASSUME NEW i \in 1 .. Len(t.ch), NEW x \in M, p < x.seq, x.seq < t.ch[i].seq
      PROVE  Before(t, x, i) \/ Excused(x, K)
  <2>1. CASE i \in 1 .. Len(s.ch)
    <3>1. Before(s, x, i) \/ Excused(x, K)
      BY <1>1, <1>2, <2>1 DEF NoHoles
    <3>2. \A j \in 1 .. i - 1 : t.ch[j] = s.ch[j]
      BY <1>1, <2>1
    <3> QED
      BY <1>1, <3>1, <3>2 DEF Before
  <2>2. CASE i = Len(s.ch) + 1
    <3>1. Has(s, x) \/ Excused(x, K)
      BY <1>1, <1>2, <2>2
    <3>2. i - 1 = Len(s.ch)
      BY <1>1, <2>2
    <3>3. \A j \in 1 .. Len(s.ch) : j \in 1 .. i - 1 /\ t.ch[j] = s.ch[j]
      BY <1>1, <3>2
    <3>4. ASSUME Has(s, x) PROVE Before(t, x, i)
      <4>1. CASE x \in s.backlog
        BY <1>1, <4>1 DEF Before
      <4>2. CASE \E j \in 1 .. Len(s.ch) : s.ch[j] = x
        <5>1. PICK j \in 1 .. Len(s.ch) : s.ch[j] = x
          BY <4>2
        <5>2. j \in 1 .. i - 1 /\ t.ch[j] = x
          BY <3>3, <5>1
        <5> QED
          BY <5>2 DEF Before
      <4> QED
        BY <3>4, <4>1, <4>2 DEF Has
    <3> QED
      BY <3>1, <3>4
  <2>3. i \in 1 .. Len(s.ch) \/ i = Len(s.ch) + 1
    BY <1>1
  <2> QED
    BY <2>1, <2>2, <2>3
<1> QED
  BY <1>2 DEF NoHoles

\* The same channel has the same holes.
LEMMA SameHoles ==
  ASSUME NEW s, NEW t, NEW p, NEW M, NEW K, NoHoles(s, p, M, K), Same(s, t)
  PROVE  NoHoles(t, p, M, K)
  BY DEF NoHoles, Same, Before

\* So broadcasting an event makes no hole, ...
LEMMA OfferHoles ==
  ASSUME NEW s \in SubOf(Event), NEW p \in Int, NEW M \in SUBSET Event, NEW K, NEW e \in Event,
         NoHoles(s, p, M, K),
         s.st = "on" => \A x \in M : p < x.seq /\ x.seq < e.seq => Has(s, x) \/ Excused(x, K)
  PROVE  NoHoles(Offer(s, e), p, M, K)
<1>1. PICK t : t = Offer(s, e)
  OBVIOUS
<1>2. /\ t \in SubOf(Event)
      /\ Same(s, t) \/ (s.st = "on" /\ Gets(s, t, e))
  BY <1>1, OfferGets
<1> QED
  BY <1>1, <1>2, SameHoles, GetsHoles

\* ... nor does ending the stream.
LEMMA SendEndHoles ==
  ASSUME NEW s \in SubOf(Event), NEW p \in Int, NEW M \in SUBSET Event, NEW K, NEW e \in Event,
         NoHoles(s, p, M, K),
         s.st = "on" => \A x \in M : p < x.seq /\ x.seq < e.seq => Has(s, x) \/ Excused(x, K)
  PROVE  NoHoles(SendEnd(s, e), p, M, K)
<1>1. PICK t : t = SendEnd(s, e)
  OBVIOUS
<1>2. /\ t \in SubOf(Event)
      /\ Same(s, t) \/ (s.st = "on" /\ Gets(s, t, e))
  BY <1>1, SendEndGets
<1> QED
  BY <1>1, <1>2, SameHoles, GetsHoles

\* A channel without events has none.
LEMMA EmptyHoles ==
  ASSUME NEW s, s.ch = <<>>, NEW p, NEW L, NEW K
  PROVE  NoHoles(s, p, L, K)
<1>1. 1 .. Len(s.ch) = {}
  BY EmptySeq
<1> QED
  BY <1>1 DEF NoHoles

\* Taking the first of the replay makes none: the client has moved to it.
LEMMA ReplayHoles ==
  ASSUME NEW s \in SubOf(Event), NEW t \in SubOf(Event), NEW p \in Int, NEW L \in SUBSET Event, NEW K,
         NEW e \in Event, NoHoles(s, p, L, K), e.seq > p, t.backlog = s.backlog \ {e}, t.ch = s.ch
  PROVE  NoHoles(t, e.seq, L, K)
<1>1. \A x \in Event : x.seq \in Int
  BY ConstantsOK DEF Event
<1>2. ASSUME NEW i \in 1 .. Len(t.ch), NEW x \in L, e.seq < x.seq, x.seq < t.ch[i].seq
      PROVE  Before(t, x, i) \/ Excused(x, K)
  <2>1. p < x.seq /\ x # e
    BY <1>1, <1>2
  <2>2. Before(s, x, i) \/ Excused(x, K)
    BY <1>2, <2>1 DEF NoHoles
  <2> QED
    BY <2>1, <2>2 DEF Before
<1> QED
  BY <1>2 DEF NoHoles

\* Nor does taking the first of the channel, and the rows it goes past are excused.
LEMMA LiveHoles ==
  ASSUME NEW s \in SubOf(Event), NEW t \in SubOf(Event), NEW p \in Int, NEW L \in SUBSET Event, NEW K,
         NEW e \in Event, NoHoles(s, p, L, K), Receives(s, t, e), NEW q \in Int, Further(p, q, e)
  PROVE  /\ NoHoles(t, q, L, K)
         /\ \A x \in L : p < x.seq /\ x.seq < e.seq => Excused(x, K)
<1> USE DEF Receives, Further
<1>1. /\ Len(s.ch) \in Nat /\ Len(s.ch) >= 1 /\ s.ch[1] = e
      /\ Len(t.ch) = Len(s.ch) - 1
      /\ \A i \in 1 .. Len(t.ch) : t.ch[i] = s.ch[i + 1]
  <2>1. s.ch \in Seq(Event)
    BY DEF SubOf
  <2> QED
    BY <2>1, HeadTailProperties, LenProperties, EmptySeq
<1>2. \A x \in Event : x.seq \in Int
  BY ConstantsOK DEF Event
<1>3. ASSUME NEW i \in 1 .. Len(t.ch), NEW x \in L, q < x.seq, x.seq < t.ch[i].seq
      PROVE  Before(t, x, i) \/ Excused(x, K)
  <2>1. i \in Nat /\ i + 1 \in 1 .. Len(s.ch) /\ t.ch[i] = s.ch[i + 1] /\ (i + 1) - 1 = i
    BY <1>1
  <2>2. p < x.seq /\ x # e
    BY <1>2, <1>3
  <2>3. Before(s, x, i + 1) \/ Excused(x, K)
    BY <1>3, <2>1, <2>2 DEF NoHoles
  <2>4. ASSUME Before(s, x, i + 1) PROVE Before(t, x, i)
    <3>1. PICK j \in 1 .. i : s.ch[j] = x
      BY <2>1, <2>4 DEF Before
    <3>2. j # 1
      BY <1>1, <2>2, <3>1
    <3>3. j - 1 \in 1 .. i - 1 /\ j - 1 \in 1 .. Len(t.ch) /\ (j - 1) + 1 = j
      BY <1>1, <2>1, <3>1, <3>2
    <3>4. t.ch[j - 1] = x
      BY <1>1, <3>1, <3>3
    <3> QED
      BY <3>3, <3>4 DEF Before
  <2> QED
    BY <2>3, <2>4
<1>4. ASSUME NEW x \in L, p < x.seq, x.seq < e.seq
      PROVE  Excused(x, K)
  <2>1. 1 \in 1 .. Len(s.ch) /\ 1 .. 1 - 1 = {}
    BY <1>1
  <2>2. Before(s, x, 1) \/ Excused(x, K)
    BY <1>1, <1>4, <2>1 DEF NoHoles
  <2> QED
    BY <2>1, <2>2 DEF Before
<1> QED
  BY <1>3, <1>4 DEF NoHoles
-----------------------------------------------------------------------------
(* The steps.                                                                 *)

\* NothingMissed in terms of its exceptions.
LEMMA MissedExcused ==
  NothingMissed <=>
    \A c \in Clients : \A x \in log :
      since[c] <= x.seq /\ x.seq <= pos[c] => x \in seen[c] \/ Excused(x, lost)
  BY DEF NothingMissed, Excused

\* A live session writes a row, or does not: nobody has gone past it unless its seq is used anew.
LEMMA RowWhole ==
  ASSUME AllInv, WholeInv, phase = "live", NEW e \in Event, e.seq = nextSeq,
         log' \subseteq log \cup {e}, lost \subseteq lost', pos' = pos, seen' = seen, since' = since
  PROVE  /\ NothingMissed'
         /\ \A c \in Clients : NoHoles(sub[c], pos[c], log', lost')
<1>1. /\ nextSeq \in Nat /\ log \in SUBSET Event /\ Known \subseteq Event
      /\ \A x \in Event : x.seq \in Nat
      /\ \A c \in Clients : /\ sub[c] \in SubOf(Event) /\ pos[c] \in Int
  BY Numbers
<1>2. PICK M, J : M = log' /\ J = lost'
  OBVIOUS
<1>3. M \subseteq log \cup {e} /\ M \subseteq Event /\ lost \subseteq J
  BY <1>1, <1>2
<1>4. ASSUME NEW z \in Int, z >= nextSeq, Dense(Known, z + 1)
      PROVE  Excused(e, J)
  <2>1. Excused(e, lost)
    BY <1>4, Reused
  <2> QED
    BY <1>3, <2>1 DEF Excused
<1>5. ASSUME NEW c \in Clients, NEW x \in M, since[c] <= x.seq, x.seq <= pos[c]
      PROVE  x \in seen[c] \/ Excused(x, J)
  <2>1. CASE x \in log
    <3>1. x \in seen[c] \/ Excused(x, lost)
      BY <1>5, <2>1, MissedExcused DEF WholeInv
    <3> QED
      BY <1>3, <3>1 DEF Excused
  <2>2. CASE x = e
    <3>1. pos[c] \in Int /\ pos[c] >= nextSeq /\ Dense(Known, pos[c] + 1)
      BY <1>1, <1>5, <2>2 DEF WholeInv, Ground
    <3> QED
      BY <1>4, <2>2, <3>1
  <2> QED
    BY <1>3, <2>1, <2>2
<1>6. NothingMissed'
  <2>1. \A c \in Clients : \A x \in log' :
          since'[c] <= x.seq /\ x.seq <= pos'[c] => x \in seen'[c] \/ Excused(x, J)
    BY <1>2, <1>5
  <2>2. \A x : Excused(x, J) => \E y \in lost' : y.seq = x.seq \/ (x.kind = "ended" /\ y.seq = x.seq + 1)
    BY <1>2 DEF Excused
  <2> QED
    BY <2>1, <2>2 DEF NothingMissed
<1>7. ASSUME NEW c \in Clients
      PROVE  NoHoles(sub[c], pos[c], M, J)
  <2>1. NoHoles(sub[c], pos[c], log, lost)
    BY DEF WholeInv
  <2>2. ASSUME NEW x \in Event, Has(sub[c], x), ~(x.seq <= e.seq)
        PROVE  Excused(e, J)
    <3>1. x \in Known
      <4>1. sub[c] \in SubOf(Known)
        BY DEF AllInv, DurableInv
      <4>2. \A i \in 1 .. Len(sub[c].ch) : sub[c].ch[i] \in Known
        BY <4>1, ElementOfSeq DEF SubOf
      <4> QED
        BY <2>2, <4>1, <4>2 DEF Has, SubOf
    <3>2. x.seq \in Int /\ x.seq >= nextSeq
      BY <1>1, <2>2
    <3>3. Dense(Known, x.seq + 1)
      BY <3>1 DEF WholeInv, Ground
    <3> QED
      BY <1>4, <3>2, <3>3
  <2> QED
    BY <1>1, <1>3, <2>1, <2>2, RowHoles
<1> QED
  BY <1>2, <1>6, <1>7

\* The pump stores an event and broadcasts it.
LEMMA WholePumpStored ==
  ASSUME AllInv, WholeInv, NEW k \in {"started", "output"}, PumpStored(k)
  PROVE  WholeInv'
<1>1. PICK ev : ev = Stamp(0, k)
  OBVIOUS
<1>2. /\ phase = "live" /\ made + 1 <= MaxEvents /\ log' = AppendEvent(log, ev)
      /\ sub' = Broadcast(sub, ev) /\ nextSeq' = nextSeq + 1
      /\ lost' = lost /\ pos' = pos /\ seen' = seen /\ since' = since
  BY <1>1 DEF PumpStored, ClientHistory
<1>3. /\ ev \in Event /\ ev.seq = nextSeq /\ AppendEvent(log, ev) = log \cup {ev}
      /\ nextSeq \in Nat /\ log \subseteq Event
      /\ \A c \in Clients : sub[c] \in SubOf(Event) /\ pos[c] \in Int
  BY <1>1, <1>2, StampFacts DEF Kinds
<1>4. NothingMissed' /\ \A c \in Clients : NoHoles(sub[c], pos[c], log', lost')
  BY <1>2, <1>3, RowWhole
<1>5. Ground'
  <2>1. Known' = Known \cup {ev}
    BY <1>2, <1>3 DEF Known
  <2> QED
    BY <1>2, <1>3, <2>1, GroundGrows DEF WholeInv
<1>6. ASSUME NEW c \in Clients
      PROVE  NoHoles(sub'[c], pos'[c], log', lost')
  <2>1. PICK M, J : M = log' /\ J = lost'
    OBVIOUS
  <2>2. sub[c].st = "on" => \A x \in log : x.seq > pos[c] => Has(sub[c], x)
    BY DEF AllInv, TailInv, Tailing, Complete
  <2>3. M = log \cup {ev} /\ M \in SUBSET Event
    BY <1>2, <1>3, <2>1
  <2>4. \A x \in Event : x.seq \in Int
    BY Numbers
  <2>5. sub[c].st = "on" =>
          \A x \in M : pos[c] < x.seq /\ x.seq < ev.seq => Has(sub[c], x) \/ Excused(x, J)
    BY <1>3, <2>2, <2>3, <2>4
  <2>6. NoHoles(Offer(sub[c], ev), pos[c], M, J)
    BY <1>3, <1>4, <2>1, <2>3, <2>5, OfferHoles
  <2> QED
    BY <1>2, <2>1, <2>6 DEF Broadcast
<1> QED
  BY <1>4, <1>5, <1>6 DEF WholeInv

\* The pump broadcasts an event it may not have stored, and the notice of it.
LEMMA WholePumpUnstored ==
  ASSUME AllInv, WholeInv, NEW k \in {"started", "output"}, NEW f, PumpUnstored(k, f)
  PROVE  WholeInv'
<1>1. PICK ev, err : ev = Stamp(0, k) /\ err = Stamp(1, "persistError")
  OBVIOUS
<1>2. /\ phase = "live" /\ made + 2 <= MaxEvents /\ log' \in {log, AppendEvent(log, ev)}
      /\ sub' = Broadcast(Broadcast(sub, ev), err) /\ nextSeq' = nextSeq + 2
      /\ pos' = pos /\ seen' = seen /\ since' = since
  BY <1>1 DEF PumpUnstored, WriteFails, ClientHistory
<1>3. made \in Nat /\ made + 1 <= MaxEvents
  BY <1>2, ConstantsOK DEF AllInv, TypeInv, Scalars
<1>4. /\ ev \in Event /\ ev.seq = nextSeq /\ AppendEvent(log, ev) = log \cup {ev}
      /\ nextSeq \in Nat /\ log \subseteq Event
      /\ \A c \in Clients : ~Has(sub[c], ev)
      /\ \A x \in log : x.seq < nextSeq
      /\ \A c \in Clients : sub[c] \in SubOf(Event) /\ pos[c] \in Int
  BY <1>1, <1>2, <1>3, StampFacts DEF Kinds
<1>5. err \in Event /\ err.seq = nextSeq + 1
  BY <1>1, <1>2, StampIsEvent, ConstantsOK DEF AllInv, TypeInv, Scalars, Kinds
<1>6. lost \subseteq lost' /\ Known' = Known \cup {ev, err}
  BY <1>1, <1>4 DEF PumpUnstored, WriteFails, Known
<1>7. NothingMissed' /\ \A c \in Clients : NoHoles(sub[c], pos[c], log', lost')
  BY <1>2, <1>4, <1>6, RowWhole
<1>8. Ground'
  BY <1>2, <1>4, <1>5, <1>6, GroundGrows DEF WholeInv
<1>9. ASSUME NEW c \in Clients
      PROVE  NoHoles(sub'[c], pos'[c], log', lost')
  <2>1. PICK M, J, r : M = log' /\ J = lost' /\ r = Offer(sub[c], ev)
    OBVIOUS
  <2>2. /\ M \in SUBSET Event /\ log \in SUBSET Event /\ log \subseteq M /\ M \subseteq log \cup {ev}
        /\ nextSeq + 1 \in Nat /\ nextSeq <= ev.seq /\ ev.seq < nextSeq + 1
        /\ \A y \in log : y.seq < ev.seq
        /\ \A x \in Event : x.seq \in Int
    BY <1>2, <1>4, <2>1, Numbers
  <2>3. Tailing(sub[c], pos[c], log, nextSeq)
    BY DEF AllInv, TailInv
  <2>4. r \in SubOf(Event) /\ Tailing(r, pos[c], M, nextSeq + 1)
    BY <1>4, <2>1, <2>2, <2>3, OfferTails
  <2>5. sub[c].st = "on" =>
          \A x \in M : pos[c] < x.seq /\ x.seq < ev.seq => Has(sub[c], x) \/ Excused(x, J)
    BY <2>2, <2>3 DEF Tailing, Complete
  <2>6. NoHoles(r, pos[c], M, J)
    BY <1>4, <1>7, <2>1, <2>2, <2>5, OfferHoles
  <2>7. r.st = "on" =>
          \A x \in M : pos[c] < x.seq /\ x.seq < err.seq => Has(r, x) \/ Excused(x, J)
    BY <2>4 DEF Tailing, Complete
  <2>8. NoHoles(Offer(r, err), pos[c], M, J)
    BY <1>4, <1>5, <2>2, <2>4, <2>6, <2>7, OfferHoles
  <2> QED
    BY <1>2, <2>1, <2>8 DEF Broadcast
<1> QED
  BY <1>7, <1>8, <1>9 DEF WholeInv

\* The stream ends, ...
LEMMA WholePumpEndStored ==
  ASSUME AllInv, WholeInv, PumpEndStored
  PROVE  WholeInv'
<1>1. PICK end : end = Stamp(0, "ended")
  OBVIOUS
<1>2. /\ phase = "live" /\ made + 1 <= MaxEvents /\ log' = AppendEvent(log, end)
      /\ sub' = [c \in Clients |-> SendEnd(sub[c], end)] /\ nextSeq' = nextSeq + 1
      /\ lost' = lost /\ pos' = pos /\ seen' = seen /\ since' = since
  BY <1>1 DEF PumpEndStored, ClientHistory
<1>3. /\ end \in Event /\ end.seq = nextSeq /\ AppendEvent(log, end) = log \cup {end}
      /\ nextSeq \in Nat /\ log \subseteq Event
      /\ \A c \in Clients : sub[c] \in SubOf(Event) /\ pos[c] \in Int
  BY <1>1, <1>2, StampFacts DEF Kinds
<1>4. NothingMissed' /\ \A c \in Clients : NoHoles(sub[c], pos[c], log', lost')
  BY <1>2, <1>3, RowWhole
<1>5. Ground'
  <2>1. Known' = Known \cup {end}
    BY <1>2, <1>3 DEF Known
  <2> QED
    BY <1>2, <1>3, <2>1, GroundGrows DEF WholeInv
<1>6. ASSUME NEW c \in Clients
      PROVE  NoHoles(sub'[c], pos'[c], log', lost')
  <2>1. PICK M, J : M = log' /\ J = lost'
    OBVIOUS
  <2>2. sub[c].st = "on" => \A x \in log : x.seq > pos[c] => Has(sub[c], x)
    BY DEF AllInv, TailInv, Tailing, Complete
  <2>3. M = log \cup {end} /\ M \in SUBSET Event
    BY <1>2, <1>3, <2>1
  <2>4. \A x \in Event : x.seq \in Int
    BY Numbers
  <2>5. sub[c].st = "on" =>
          \A x \in M : pos[c] < x.seq /\ x.seq < end.seq => Has(sub[c], x) \/ Excused(x, J)
    BY <1>3, <2>2, <2>3, <2>4
  <2>6. NoHoles(SendEnd(sub[c], end), pos[c], M, J)
    BY <1>3, <1>4, <2>1, <2>3, <2>5, SendEndHoles
  <2> QED
    BY <1>2, <2>1, <2>6
<1> QED
  BY <1>4, <1>5, <1>6 DEF WholeInv

\* ... and when that cannot be written the notice goes first, which excuses the end.
LEMMA WholePumpEndUnstored ==
  ASSUME AllInv, WholeInv, PumpEndUnstored
  PROVE  WholeInv'
<1>1. PICK end, err : end = Stamp(0, "ended") /\ err = Stamp(1, "persistError")
  OBVIOUS
<1>2. /\ phase = "live" /\ made + 2 <= MaxEvents /\ log' \in {log, AppendEvent(log, end)}
      /\ sub' = [c \in Clients |-> SendEnd(Broadcast(sub, err)[c], end)] /\ nextSeq' = nextSeq + 2
      /\ pos' = pos /\ seen' = seen /\ since' = since
  BY <1>1 DEF PumpEndUnstored, WriteFails, ClientHistory
<1>3. made \in Nat /\ made + 1 <= MaxEvents
  BY <1>2, ConstantsOK DEF AllInv, TypeInv, Scalars
<1>4. /\ end \in Event /\ end.seq = nextSeq /\ end.kind = "ended"
      /\ AppendEvent(log, end) = log \cup {end}
      /\ nextSeq \in Nat /\ log \subseteq Event
      /\ \A c \in Clients : sub[c] \in SubOf(Event) /\ pos[c] \in Int
  BY <1>1, <1>2, <1>3, StampFacts DEF Kinds
<1>5. err \in Event /\ err.seq = nextSeq + 1
  BY <1>1, <1>2, StampIsEvent, ConstantsOK DEF AllInv, TypeInv, Scalars, Kinds
<1>6. lost \subseteq lost' /\ err \in lost' /\ Known' = Known \cup {end, err}
  BY <1>1, <1>4 DEF PumpEndUnstored, WriteFails, Known
<1>7. NothingMissed' /\ \A c \in Clients : NoHoles(sub[c], pos[c], log', lost')
  BY <1>2, <1>4, <1>6, RowWhole
<1>8. Ground'
  BY <1>2, <1>4, <1>5, <1>6, GroundGrows DEF WholeInv
<1>9. ASSUME NEW c \in Clients
      PROVE  NoHoles(sub'[c], pos'[c], log', lost')
  <2>1. PICK M, J, r : M = log' /\ J = lost' /\ r = Offer(sub[c], err)
    OBVIOUS
  <2>2. /\ M \in SUBSET Event /\ log \in SUBSET Event /\ log \subseteq M /\ M \subseteq log \cup {end}
        /\ nextSeq + 2 \in Nat /\ nextSeq <= err.seq /\ err.seq < nextSeq + 2
        /\ \A x \in Event : x.seq \in Int
    BY <1>2, <1>4, <1>5, <2>1, Numbers
  <2>3. Tailing(sub[c], pos[c], log, nextSeq)
    BY DEF AllInv, TailInv
  <2>4. r \in SubOf(Event) /\ Tailing(r, pos[c], log, nextSeq + 2)
    <3>1. PICK s, p, n, m, L : s = sub[c] /\ p = pos[c] /\ n = nextSeq /\ m = nextSeq + 2 /\ L = log
      OBVIOUS
    <3>2. /\ s \in SubOf(Event) /\ p \in Int /\ n \in Nat /\ m \in Nat /\ L \in SUBSET Event
          /\ L \subseteq L \cup {err} /\ L \subseteq L /\ n <= err.seq /\ err.seq < m
      BY <1>4, <2>2, <3>1
    <3>3. Tailing(s, p, L, n)
      BY <2>3, <3>1
    <3>4. Offer(s, err) \in SubOf(Event) /\ Tailing(Offer(s, err), p, L, m)
      BY <1>5, <3>2, <3>3, OfferTails
    <3> QED
      BY <2>1, <3>1, <3>4
  <2>5. Excused(end, J)
    BY <1>4, <1>5, <1>6, <2>1 DEF Excused
  <2>6. sub[c].st = "on" =>
          \A x \in M : pos[c] < x.seq /\ x.seq < err.seq => Has(sub[c], x) \/ Excused(x, J)
    BY <2>2, <2>3, <2>5 DEF Tailing, Complete
  <2>7. NoHoles(r, pos[c], M, J)
    BY <1>4, <1>5, <1>7, <2>1, <2>2, <2>6, OfferHoles
  <2>8. r.st = "on" =>
          \A x \in M : pos[c] < x.seq /\ x.seq < end.seq => Has(r, x) \/ Excused(x, J)
    BY <2>2, <2>4, <2>5 DEF Tailing, Complete
  <2>9. NoHoles(SendEnd(r, end), pos[c], M, J)
    BY <1>4, <2>2, <2>4, <2>7, <2>8, SendEndHoles
  <2> QED
    BY <1>2, <2>1, <2>9 DEF Broadcast
<1> QED
  BY <1>7, <1>8, <1>9 DEF WholeInv

\* The session ends or comes back, which its clients do not notice.
LEMMA WholeQuiet ==
  ASSUME "revive" \notin Faults, AllInv, WholeInv, ForgetEnded \/ Revive
  PROVE  WholeInv'
<1>1. /\ sub' = sub /\ pos' = pos /\ seen' = seen /\ since' = since
      /\ log' = log /\ lost' = lost /\ Known' = Known
  BY DEF ForgetEnded, Revive, ClientHistory, Known
<1>2. /\ \A z \in Known : Dense(Known, z.seq + 1)
      /\ \A c \in Clients : Dense(Known, pos[c] + 1)
  BY DEF WholeInv, Ground
<1>3. ASSUME Revive
      PROVE  Dense(Known, nextSeq')
  <2>1. log \in SUBSET Event /\ \A x \in Event : x.seq \in Int
    BY Numbers
  <2>2. PICK n \in Nat : n = nextSeq'
    BY <1>3, ConstantsOK DEF Revive
  <2>3. Follows(n, log)
    BY <1>3, <2>1, <2>2, FollowsNewest DEF Revive
  <2>4. CASE log = {}
    <3>1. 0 .. n - 1 = {}
      BY <2>3, <2>4 DEF Follows
    <3> QED
      BY <2>2, <3>1 DEF Dense
  <2>5. CASE log # {}
    <3>1. PICK x \in log : n = x.seq + 1
      BY <2>3, <2>5 DEF Follows
    <3>2. x \in Known
      BY DEF Known
    <3> QED
      BY <1>2, <2>2, <3>1, <3>2
  <2> QED
    BY <2>4, <2>5
<1>4. phase' # "gone" => Dense(Known, nextSeq')
  BY <1>3 DEF ForgetEnded
<1>5. Ground'
  BY <1>1, <1>2, <1>4 DEF Ground
<1>6. NothingMissed'
  BY <1>1 DEF WholeInv, NothingMissed
<1> QED
  BY <1>1, <1>5, <1>6 DEF WholeInv

\* The daemon dies between two events, ...
LEMMA WholeCrash ==
  ASSUME AllInv, WholeInv, Crash
  PROVE  WholeInv'
<1>1. /\ sub' = [c \in Clients |-> Off] /\ pos' = pos /\ seen' = seen /\ since' = since
      /\ log' = log /\ lost' = lost /\ Known' = Known /\ phase' = "gone"
  BY DEF Crash, Vanish, Known
<1>2. \A c \in Clients : NoHoles(Off, pos[c], log, lost)
  BY EmptyHoles DEF Off
<1>3. Ground'
  BY <1>1 DEF WholeInv, Ground
<1>4. NothingMissed'
  BY <1>1 DEF WholeInv, NothingMissed
<1> QED
  BY <1>1, <1>2, <1>3, <1>4 DEF WholeInv

\* ... or with one written that nobody was told of.
LEMMA WholeCrashInPersist ==
  ASSUME AllInv, WholeInv, NEW k \in {"started", "output", "ended"}, CrashInPersist(k)
  PROVE  WholeInv'
<1>1. PICK ev : ev = Stamp(0, k)
  OBVIOUS
<1>2. /\ phase = "live" /\ made + 1 <= MaxEvents /\ log' = AppendEvent(log, ev)
      /\ sub' = [c \in Clients |-> Off] /\ phase' = "gone"
      /\ lost' = lost /\ pos' = pos /\ seen' = seen /\ since' = since
  BY <1>1 DEF CrashInPersist, Vanish
<1>3. /\ ev \in Event /\ ev.seq = nextSeq /\ AppendEvent(log, ev) = log \cup {ev}
  BY <1>1, <1>2, StampFacts DEF Kinds
<1>4. NothingMissed'
  BY <1>2, <1>3, RowWhole
<1>5. Known' = Known \cup {ev}
  BY <1>2, <1>3 DEF Known
<1>6. Ground'
  BY <1>2, <1>3, <1>5, GroundGrows DEF WholeInv
<1>7. PICK M, J : M = log' /\ J = lost'
  OBVIOUS
<1>8. \A c \in Clients : NoHoles(Off, pos[c], M, J)
  BY EmptyHoles DEF Off
<1> QED
  BY <1>2, <1>4, <1>6, <1>7, <1>8 DEF WholeInv

\* A client attaches: at or before where it was, or it asks for everything from there.
LEMMA WholeAttach ==
  ASSUME AllInv, WholeInv, NEW c \in Clients, NEW f \in FromSeqs(c), Attach(c, f)
  PROVE  WholeInv'
<1>1. PICK p : p = (IF f < nextSeq THEN f ELSE nextSeq) - 1
  OBVIOUS
<1>2. /\ phase \in {"live", "ended"} /\ phase' = phase /\ nextSeq' = nextSeq
      /\ log' = log /\ lost' = lost /\ seen' = seen /\ Known' = Known
      /\ pos' = [pos EXCEPT ![c] = p]
      /\ since' = [since EXCEPT ![c] = IF f = pos[c] + 1 THEN @ ELSE f]
  BY <1>1 DEF Attach, Known
<1>3. /\ nextSeq \in Nat /\ log \in SUBSET Event /\ \A x \in Event : x.seq \in Nat
      /\ \A d \in Clients : pos[d] \in Int /\ pos[d] >= -1 /\ since[d] \in Nat
      /\ DOMAIN pos = Clients /\ DOMAIN since = Clients /\ DOMAIN sub = Clients
  <2>1. DOMAIN pos = Clients /\ DOMAIN since = Clients /\ DOMAIN sub = Clients
    BY DEF AllInv, TypeInv, Views, Channels
  <2> QED
    BY <2>1, Numbers
<1>4. f \in Nat
  BY <1>3 DEF FromSeqs
<1>5. p \in Int /\ p + 1 \in Int /\ p + 1 <= nextSeq /\ p < f
  BY <1>1, <1>3, <1>4
<1>6. \A d \in Clients : /\ pos'[d] = IF d = c THEN p ELSE pos[d]
                         /\ since'[d] = IF d = c /\ f # pos[c] + 1 THEN f ELSE since[d]
  BY <1>2, <1>3
<1>7. Ground'
  <2>1. Dense(Known, nextSeq)
    BY <1>2 DEF WholeInv, Ground
  <2>2. Dense(Known, p + 1)
    BY <1>3, <1>5, <2>1, DenseMore
  <2>3. \A d \in Clients : Dense(Known, pos'[d] + 1)
    BY <1>6, <2>2 DEF WholeInv, Ground
  <2>4. /\ phase' # "gone" => Dense(Known, nextSeq')
        /\ \A z \in Known : Dense(Known, z.seq + 1)
    BY <1>2, <2>1 DEF WholeInv, Ground
  <2> QED
    BY <1>2, <2>3, <2>4 DEF Ground
<1>8. NothingMissed'
  <2>1. ASSUME NEW x \in log, since'[c] <= x.seq, x.seq <= pos'[c]
        PROVE  since[c] <= x.seq /\ x.seq <= pos[c]
    <3>1. x.seq \in Nat /\ x.seq <= p
      BY <1>3, <1>6, <2>1
    <3>2. f = pos[c] + 1
      BY <1>3, <1>4, <1>5, <1>6, <2>1, <3>1
    <3> QED
      BY <1>3, <1>5, <1>6, <2>1, <3>1, <3>2
  <2>2. ASSUME NEW d \in Clients, NEW x \in log, since'[d] <= x.seq, x.seq <= pos'[d]
        PROVE  x \in seen[d] \/ Excused(x, lost)
    <3>1. since[d] <= x.seq /\ x.seq <= pos[d]
      BY <1>6, <2>1, <2>2
    <3> QED
      BY <3>1, MissedExcused DEF WholeInv
  <2> QED
    BY <1>2, <2>2 DEF NothingMissed, Excused
<1>9. \A d \in Clients : NoHoles(sub'[d], pos'[d], log, lost)
  <2>1. sub'[c].ch = <<>>
    BY <1>3 DEF Attach
  <2>2. \A d \in Clients \ {c} : sub'[d] = sub[d]
    BY <1>3 DEF Attach
  <2>3. PICK t : t = sub'[c]
    OBVIOUS
  <2>4. NoHoles(t, p, log, lost)
    BY <2>1, <2>3, EmptyHoles
  <2> QED
    BY <1>6, <2>2, <2>3, <2>4 DEF WholeInv
<1> QED
  BY <1>2, <1>7, <1>8, <1>9 DEF WholeInv

\* A client is handed e and is now at q: it goes past no row but e that is not excused.
LEMMA WholeHand ==
  ASSUME AllInv, WholeInv, NEW c \in Clients, NEW e \in Known, Hand(c, e),
         NEW t, sub' = [sub EXCEPT ![c] = t], NEW q \in Int, pos' = [pos EXCEPT ![c] = q],
         q = pos[c] \/ q = e.seq, NoHoles(t, q, log, lost),
         \A x \in log : pos[c] < x.seq /\ x.seq <= q => x = e \/ Excused(x, lost)
  PROVE  WholeInv'
<1>1. /\ phase' = phase /\ nextSeq' = nextSeq /\ log' = log /\ lost' = lost /\ Known' = Known
      /\ since' = since /\ seen' = [seen EXCEPT ![c] = @ \cup {e}]
  BY DEF Hand, Session, Known
<1>2. DOMAIN pos = Clients /\ DOMAIN sub = Clients /\ DOMAIN seen = Clients
  BY DEF AllInv, TypeInv, Views, Channels
<1>3. \A d \in Clients : /\ pos'[d] = IF d = c THEN q ELSE pos[d]
                         /\ sub'[d] = IF d = c THEN t ELSE sub[d]
                         /\ seen'[d] = IF d = c THEN seen[c] \cup {e} ELSE seen[d]
  BY <1>1, <1>2
<1>4. Ground'
  <2>1. Dense(Known, pos[c] + 1) /\ Dense(Known, e.seq + 1)
    BY DEF WholeInv, Ground
  <2>2. Dense(Known, q + 1)
    BY <2>1
  <2>3. \A d \in Clients : Dense(Known, pos'[d] + 1)
    BY <1>3, <2>2 DEF WholeInv, Ground
  <2> QED
    BY <1>1, <2>3 DEF WholeInv, Ground
<1>5. \A d \in Clients : NoHoles(sub'[d], pos'[d], log, lost)
  BY <1>3 DEF WholeInv
<1>6. ASSUME NEW d \in Clients, NEW x \in log, since[d] <= x.seq, x.seq <= pos'[d]
      PROVE  x \in seen'[d] \/ Excused(x, lost)
  <2>1. x.seq \in Int /\ pos[d] \in Int
    BY Numbers
  <2>2. CASE x.seq <= pos[d]
    <3>1. x \in seen[d] \/ Excused(x, lost)
      BY <1>6, <2>2, MissedExcused DEF WholeInv
    <3> QED
      BY <1>3, <3>1
  <2>3. CASE ~(x.seq <= pos[d])
    <3>1. d = c /\ pos[c] < x.seq /\ x.seq <= q
      BY <1>3, <1>6, <2>1, <2>3
    <3> QED
      BY <1>3, <3>1
  <2> QED
    BY <2>2, <2>3
<1>7. NothingMissed'
  BY <1>1, <1>6 DEF NothingMissed, Excused
<1> QED
  BY <1>1, <1>4, <1>5, <1>7 DEF WholeInv

\* A client is handed an event of its replay: no row lies before it.
LEMMA WholeDeliverReplay ==
  ASSUME AllInv, WholeInv, NEW c \in Clients, DeliverReplay(c)
  PROVE  WholeInv'
<1>1. PICK e \in sub[c].backlog :
        /\ \A x \in sub[c].backlog : e.seq <= x.seq
        /\ sub' = [sub EXCEPT ![c].backlog = @ \ {e}]
        /\ Hand(c, e)
  BY DEF DeliverReplay
<1>2. PICK s : s = sub[c]
  OBVIOUS
<1>3. /\ s \in SubOf(Event) /\ pos[c] \in Int /\ nextSeq \in Nat /\ log \in SUBSET Event
      /\ Tailing(s, pos[c], log, nextSeq)
      /\ \A x \in log, y \in log : x.seq = y.seq => x = y
      /\ e \in s.backlog
      /\ \A x \in s.backlog : e.seq <= x.seq
  BY <1>1, <1>2, Numbers DEF AllInv, TailInv, Rows
<1>4. PICK t : t = [s EXCEPT !.backlog = @ \ {e}]
  OBVIOUS
<1>5. t \in SubOf(Event) /\ t.backlog = s.backlog \ {e} /\ t.ch = s.ch /\ t.st = s.st
  BY <1>3, <1>4 DEF SubOf
<1>6. /\ e \in log /\ e.seq > pos[c]
      /\ \A x \in log : x.seq > pos[c] => x.seq >= e.seq
  BY <1>3, <1>5, TakeReplay
<1>7. e \in Event /\ e.seq \in Int /\ e \in Known /\ \A x \in log : x.seq \in Int
  BY <1>3, <1>6, Numbers DEF Known
<1>8. NoHoles(t, e.seq, log, lost)
  <2>1. NoHoles(s, pos[c], log, lost)
    BY <1>2 DEF WholeInv
  <2> QED
    BY <1>3, <1>5, <1>6, <1>7, <2>1, ReplayHoles
<1>9. sub' = [sub EXCEPT ![c] = t] /\ pos' = [pos EXCEPT ![c] = e.seq]
  BY <1>1, <1>2, <1>4, <1>6 DEF Hand
<1>10. \A x \in log : pos[c] < x.seq /\ x.seq <= e.seq => x = e
  BY <1>3, <1>6, <1>7
<1> QED
  BY <1>1, <1>7, <1>8, <1>9, <1>10, WholeHand

\* A client is handed a live event: the rows it goes past are excused.
LEMMA WholeDeliverLive ==
  ASSUME AllInv, WholeInv, NEW c \in Clients, DeliverLive(c)
  PROVE  WholeInv'
<1>1. PICK s, e : s = sub[c] /\ e = Head(s.ch)
  OBVIOUS
<1>2. /\ s \in SubOf(Event) /\ pos[c] \in Int /\ log \in SUBSET Event
      /\ s.backlog = {} /\ s.ch # <<>>
      /\ \A x \in log, y \in log : x.seq = y.seq => x = y
  BY <1>1, Numbers DEF DeliverLive, AllInv, TailInv, Rows
<1>3. e \in Known
  <2>1. s \in SubOf(Known)
    BY <1>1 DEF AllInv, DurableInv
  <2>2. s.ch \in Seq(Known)
    BY <2>1 DEF SubOf
  <2> QED
    BY <1>1, <1>2, <2>2, HeadTailProperties
<1>4. e \in Event /\ e.seq \in Int /\ \A x \in log : x.seq \in Int
  BY <1>2, <1>3, Numbers
<1>5. PICK t : t = [s EXCEPT !.ch = Tail(@)]
  OBVIOUS
<1>6. t \in SubOf(Event) /\ t.backlog = {} /\ t.ch = Tail(s.ch) /\ t.st = s.st
  <2>1. Tail(s.ch) \in Seq(Event)
    BY <1>2, HeadTailProperties DEF SubOf
  <2> QED
    BY <1>2, <1>5, <2>1 DEF SubOf
<1>7. PICK q \in Int : q = IF e.seq > pos[c] THEN e.seq ELSE pos[c]
  BY <1>2, <1>4
<1>8. Receives(s, t, e) /\ Further(pos[c], q, e)
  BY <1>1, <1>2, <1>6, <1>7 DEF Receives, Further
<1>9. /\ NoHoles(t, q, log, lost)
      /\ \A x \in log : pos[c] < x.seq /\ x.seq < e.seq => Excused(x, lost)
  <2>1. NoHoles(s, pos[c], log, lost)
    BY <1>1 DEF WholeInv
  <2> QED
    BY <1>2, <1>4, <1>6, <1>8, <2>1, LiveHoles
<1>10. sub' = [sub EXCEPT ![c] = t] /\ pos' = [pos EXCEPT ![c] = q] /\ Hand(c, e)
  BY <1>1, <1>5, <1>7 DEF DeliverLive, Hand
<1>11. ASSUME NEW x \in log, pos[c] < x.seq, x.seq <= q
       PROVE  x = e \/ Excused(x, lost)
  <2>1. q = e.seq
    BY <1>2, <1>4, <1>7, <1>11
  <2>2. CASE x.seq < e.seq
    BY <1>9, <1>11, <2>2
  <2>3. CASE x.seq = e.seq
    <3>1. e \in log => x = e
      BY <1>2, <2>3
    <3>2. e \in lost => Excused(x, lost)
      BY <2>3 DEF Excused
    <3> QED
      BY <1>3, <3>1, <3>2 DEF Known
  <2> QED
    BY <1>4, <1>11, <2>1, <2>2, <2>3
<1> QED
  BY <1>3, <1>7, <1>9, <1>10, <1>11, WholeHand

\* A goroutine leaves.
LEMMA WholeExit ==
  ASSUME AllInv, WholeInv, NEW c \in Clients, Exit(c)
  PROVE  WholeInv'
<1>1. /\ sub' = [sub EXCEPT ![c] = Off] /\ UNCHANGED Session /\ pos' = pos /\ seen' = seen
      /\ since' = since /\ log' = log /\ lost' = lost /\ Known' = Known
      /\ phase' = phase /\ nextSeq' = nextSeq
  BY DEF Exit, Session, Known
<1>2. \A d \in Clients : sub'[d] = IF d = c THEN Off ELSE sub[d]
  BY <1>1 DEF AllInv, TypeInv, Channels
<1>3. NoHoles(Off, pos[c], log, lost)
  BY EmptyHoles DEF Off
<1>4. Ground' /\ NothingMissed'
  BY <1>1 DEF WholeInv, Ground, NothingMissed
<1> QED
  BY <1>1, <1>2, <1>3, <1>4 DEF WholeInv

\* At first nothing is stored and nobody has been handed anything.
LEMMA WholeInit == Init => WholeInv
<1> SUFFICES ASSUME Init PROVE WholeInv
  OBVIOUS
<1>1. \A c \in Clients : NoHoles(Off, pos[c], log, lost)
  BY EmptyHoles DEF Off
<1>2. Ground
  <2>1. 0 .. nextSeq - 1 = {} /\ Known = {} /\ \A c \in Clients : 0 .. (pos[c] + 1) - 1 = {}
    BY DEF Init, Known
  <2> QED
    BY <2>1 DEF Ground, Dense
<1> QED
  BY <1>1, <1>2 DEF Init, WholeInv, NothingMissed

\* Every step keeps it: one case per action.
LEMMA WholeNext ==
  ASSUME "revive" \notin Faults, AllInv, WholeInv, [Next]_vars
  PROVE  WholeInv'
<1>1. ASSUME NEW k \in {"started", "output"}, PumpStored(k) PROVE WholeInv'
  BY <1>1, WholePumpStored
<1>2. ASSUME NEW k \in {"started", "output"}, NEW f \in {"append", "native"}, PumpUnstored(k, f)
      PROVE  WholeInv'
  BY <1>2, WholePumpUnstored
<1>3. CASE PumpEndStored
  BY <1>3, WholePumpEndStored
<1>4. CASE PumpEndUnstored
  BY <1>4, WholePumpEndUnstored
<1>5. CASE ForgetEnded \/ Revive
  BY <1>5, WholeQuiet
<1>6. CASE Crash
  BY <1>6, WholeCrash
<1>7. ASSUME NEW k \in {"started", "output", "ended"}, CrashInPersist(k) PROVE WholeInv'
  BY <1>7, WholeCrashInPersist
<1>8. ASSUME NEW c \in Clients, NEW f \in FromSeqs(c), Attach(c, f) PROVE WholeInv'
  BY <1>8, WholeAttach
<1>9. ASSUME NEW c \in Clients, DeliverReplay(c) PROVE WholeInv'
  BY <1>9, WholeDeliverReplay
<1>10. ASSUME NEW c \in Clients, DeliverLive(c) PROVE WholeInv'
  BY <1>10, WholeDeliverLive
<1>11. ASSUME NEW c \in Clients, Drained(c) \/ Overflowed(c) \/ Disconnect(c) PROVE WholeInv'
  BY <1>11, WholeExit DEF Drained, Overflowed, Disconnect
<1>12. CASE UNCHANGED vars
  BY <1>12 DEF vars, WholeInv, Ground, Known, NothingMissed
<1> QED
  BY <1>1, <1>2, <1>3, <1>4, <1>5, <1>6, <1>7, <1>8, <1>9, <1>10, <1>11, <1>12 DEF Next

\* "reconnect with session/attach {fromSeq} and miss nothing": whatever overflows, disconnects
\* and restarts lie between where a client began and where it is now, it was handed every
\* stored event there but for those of the two exceptions, if no read of the store fails.
THEOREM NothingMissedCorrect ==
  "revive" \notin Faults /\ "replay" \notin Faults => (Spec => []NothingMissed)
<1> SUFFICES ASSUME "revive" \notin Faults, "replay" \notin Faults
             PROVE  Spec => []NothingMissed
  OBVIOUS
<1>1. Init => AllInv /\ WholeInv
  BY TypeInvInit, SeqAheadInit, DurableInit, TailInit, WholeInit DEF AllInv
<1>2. AllInv /\ WholeInv /\ [Next]_vars => AllInv' /\ WholeInv'
  BY TypeInvNext, SeqAheadNext, DurableNext, TailNext, WholeNext DEF AllInv
<1>3. WholeInv => NothingMissed
  BY DEF WholeInv
<1> QED
  BY <1>1, <1>2, <1>3, PTL DEF Spec
=============================================================================
