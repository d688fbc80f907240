--------------------------- MODULE TurnSessionProofs ---------------------------
(***************************************************************************)
(* What holds of TurnSession for every number of turns, every length of an   *)
(* output and every capacity of the channel, checked by TLAPS.               *)
(*                                                                           *)
(*   TypeOK          is inductive as it stands                               *)
(*   OneTurnAtATime  is inductive relative to it                             *)
(*   CloseInv        CloseWaits, with where Close is and what is open        *)
(*   NativeInv       ConversationContinues, with the order of the turns      *)
(*   DoneInv         SlotFreeAtDone, with the task.dones that are queued     *)
(***************************************************************************)
EXTENDS TurnSession, FiniteSetTheorems, SequenceTheorems, WellFoundedInduction, TLAPS

\* The turns whose goroutine the WaitGroup counts.
Counted == {t \in Turns : stage[t] \notin {"new", "accepted", "over"}}

\* The next turn is one that was never accepted, and all before it were.
LEMMA NewTurnIsFirst ==
  ASSUME \E t \in Turns : stage[t] = "new"
  PROVE  /\ NewTurn \in Turns
         /\ stage[NewTurn] = "new"
         /\ \A u \in Turns : u < NewTurn => stage[u] # "new"
<1> DEFINE New == {t \in Turns : stage[t] = "new"}
<1>1. New \subseteq Nat /\ New # {}
  BY ConstantsOK DEF Turns
<1>2. PICK d \in New : \A b \in New : ~(<<b, d>> \in OpToRel(<, Nat))
  BY <1>1, NatLessThanWellFounded, WFMin
<1>3. ASSUME NEW u \in Turns, u < d PROVE stage[u] # "new"
  <2>1. u \in New => <<u, d>> \in OpToRel(<, Nat)
    BY <1>1, <1>3 DEF OpToRel
  <2> QED
    BY <1>2, <2>1
<1>4. /\ d \in Turns
      /\ stage[d] = "new" /\ \A u \in 1 .. d - 1 : stage[u] # "new"
  BY <1>3, ConstantsOK DEF Turns
<1>5. /\ NewTurn \in Turns
      /\ stage[NewTurn] = "new" /\ \A u \in 1 .. NewTurn - 1 : stage[u] # "new"
  BY <1>4 DEF NewTurn
<1> QED
  BY <1>5, ConstantsOK DEF Turns

\* The set of counted turns is finite.
LEMMA CountedFinite == IsFiniteSet(Counted)
<1>1. IsFiniteSet(Turns)
  BY FS_Interval, ConstantsOK DEF Turns
<1> QED
  BY <1>1, FS_Subset DEF Counted

\* A step that takes no turn in or out of the WaitGroup's count.
LEMMA SameCount ==
  ASSUME NEW t \in Turns, stage \in [Turns -> Stages], NEW s \in Stages,
         stage' = [stage EXCEPT ![t] = s],
         stage[t] \in {"new", "accepted", "over"} <=> s \in {"new", "accepted", "over"}
  PROVE  Counted' = Counted
  BY DEF Counted
-----------------------------------------------------------------------------
(* Types.  TypeOK in three parts, the last two of which need more than the    *)
(* range of a variable.                                                       *)

Ranges ==
  /\ closed \in BOOLEAN /\ busy \in BOOLEAN /\ open \in BOOLEAN /\ panicked \in BOOLEAN
  /\ cancelTurn \in Turns \cup {0}
  /\ nativeID \in Turns \cup {0}
  /\ stage \in [Turns -> Stages]
  /\ resumes \in [Turns -> Turns \cup {0}]
  /\ reported \subseteq Turns
  /\ lines \in [Turns -> 0 .. MaxLines]
  /\ cancelled \subseteq Turns /\ firing \subseteq Turns /\ overtaken \subseteq Turns
  /\ closer \in {"none", "cancel", "wait", "close", "done"}
  /\ victim \in Turns \cup {0}
  /\ received \subseteq Turns

Counts == wg = Cardinality(Counted)

Room == events \in Seq(Events) /\ Len(events) <= Capacity

\* The three parts are TypeOK.
LEMMA TypeParts == TypeOK <=> Ranges /\ Counts /\ Room
  BY DEF TypeOK, Ranges, Counts, Room, Counted

\* So they are in the next state.
LEMMA TypePartsNext == TypeOK' <=> Ranges' /\ Counts' /\ Room'
  BY DEF TypeOK, Ranges, Counts, Room, Counted

\* The first state has the types.
LEMMA TypeInit == Init => TypeOK
<1> SUFFICES ASSUME Init PROVE Ranges /\ Counts /\ Room
  BY TypeParts
<1>1. Counted = {}
  BY DEF Init, Counted
<1>2. Counts
  BY <1>1, FS_EmptySet DEF Init, Counts
<1>3. Room
  BY ConstantsOK DEF Init, Room
<1>4. /\ closed \in BOOLEAN /\ busy \in BOOLEAN /\ open \in BOOLEAN /\ panicked \in BOOLEAN
      /\ cancelled \subseteq Turns /\ firing \subseteq Turns /\ overtaken \subseteq Turns
      /\ reported \subseteq Turns /\ received \subseteq Turns
  BY DEF Init
<1>5. /\ stage \in [Turns -> Stages]
      /\ resumes \in [Turns -> Turns \cup {0}]
      /\ lines \in [Turns -> 0 .. MaxLines]
  BY ConstantsOK DEF Init, Stages
<1> QED
  BY <1>2, <1>3, <1>4, <1>5 DEF Init, Ranges

\* A step whose stage stays, or moves without passing an end of the count.
LEMMA CountsKept ==
  ASSUME Ranges, Counts, wg' = wg,
         \/ stage' = stage
         \/ \E t \in Turns, s \in Stages :
              /\ stage' = [stage EXCEPT ![t] = s]
              /\ stage[t] \in {"new", "accepted", "over"} <=> s \in {"new", "accepted", "over"}
  PROVE  Counts'
<1>1. CASE stage' = stage
  BY <1>1 DEF Counts, Counted
<1>2. ASSUME NEW t \in Turns, NEW s \in Stages,
             stage' = [stage EXCEPT ![t] = s],
             stage[t] \in {"new", "accepted", "over"} <=> s \in {"new", "accepted", "over"}
      PROVE  Counts'
  BY <1>2, SameCount DEF Counts, Ranges
<1> QED
  BY <1>1, <1>2

\* Accept takes a new turn to a stage where it is not counted yet.
LEMMA TypeAccept == TypeOK /\ Accept => TypeOK'
<1> SUFFICES ASSUME TypeOK, Accept PROVE Ranges' /\ Counts' /\ Room'
  BY TypePartsNext
<1>1. Ranges /\ Counts /\ Room
  BY TypeParts
<1>2. NewTurn \in Turns
  BY NewTurnIsFirst DEF Accept
<1>3. Ranges'
  BY <1>1, <1>2 DEF Accept, Ranges, Go, Cancels, Channel, Closing, Stages
<1>4. Counts'
  BY <1>1, <1>2, CountsKept DEF Accept, Go, Stages
<1>5. Room'
  BY <1>1 DEF Accept, Channel, Room
<1> QED
  BY <1>3, <1>4, <1>5

\* Launch adds its turn to the count.
LEMMA TypeLaunch == ASSUME NEW t \in Turns PROVE TypeOK /\ Launch(t) => TypeOK'
<1> SUFFICES ASSUME TypeOK, Launch(t) PROVE Ranges' /\ Counts' /\ Room'
  BY TypePartsNext
<1>1. Ranges /\ Counts /\ Room
  BY TypeParts
<1>2. Ranges' /\ Room'
  BY <1>1 DEF Launch, Ranges, Room, Go, Slot, Native, Cancels, Channel, Closing, Stages
<1>3. Counted' = Counted \cup {t} /\ t \notin Counted
  BY <1>1 DEF Launch, Go, Ranges, Counted
<1>4. Counts'
  BY <1>1, <1>3, CountedFinite, FS_AddElement DEF Counts, Launch
<1> QED
  BY <1>2, <1>4

\* SendDone takes it out, when the channel has room.
LEMMA TypeSendDone == ASSUME NEW t \in Turns PROVE TypeOK /\ SendDone(t) => TypeOK'
<1> SUFFICES ASSUME TypeOK, SendDone(t) PROVE Ranges' /\ Counts' /\ Room'
  BY TypePartsNext
<1>1. Ranges /\ Counts /\ Room
  BY TypeParts
<1>2. Ranges'
  BY <1>1 DEF SendDone, Ranges, Go, Slot, Native, Cancels, Closing, Stages
<1>3. Counted' = Counted \ {t} /\ t \in Counted
  BY <1>1 DEF SendDone, Go, Ranges, Counted
<1>4. Counts'
  BY <1>1, <1>3, CountedFinite, FS_RemoveElement DEF Counts, SendDone
<1>5. [turn |-> t, type |-> "done"] \in Events
  BY DEF Events
<1>6. Room'
  BY <1>1, <1>5, AppendProperties, LenProperties, ConstantsOK DEF Room, SendDone
<1> QED
  BY <1>2, <1>4, <1>6

\* The other steps of a turn's goroutine and its process.
LEMMA TypeTurn ==
  ASSUME NEW t \in Turns
  PROVE  /\ TypeOK
         /\ Spawn(t) \/ SpawnFails(t) \/ Emit(t) \/ EmitError(t) \/ Release(t) \/ Panic(t)
              \/ Line(t) \/ Exit(t) \/ CancelFires(t)
         => TypeOK'
<1> SUFFICES ASSUME TypeOK,
                    Spawn(t) \/ SpawnFails(t) \/ Emit(t) \/ EmitError(t) \/ Release(t) \/ Panic(t)
                      \/ Line(t) \/ Exit(t) \/ CancelFires(t)
             PROVE  Ranges' /\ Counts' /\ Room'
  BY TypePartsNext
<1> USE DEF Go, Slot, Native, Cancels, Channel, Closing, Stages
<1>1. Ranges /\ Counts /\ Room
  BY TypeParts
<1>2. CASE Spawn(t) \/ SpawnFails(t) \/ Exit(t) \/ Release(t)
  <2>1. Ranges' /\ Room'
    BY <1>1, <1>2 DEF Spawn, SpawnFails, Exit, Release, Ranges, Room
  <2>2. Counts'
    BY <1>1, <1>2, CountsKept DEF Spawn, SpawnFails, Exit, Release
  <2> QED
    BY <2>1, <2>2
<1>3. CASE Panic(t) \/ CancelFires(t)
  <2>1. Ranges' /\ Room'
    BY <1>1, <1>3 DEF Panic, CancelFires, Ranges, Room
  <2>2. Counts'
    BY <1>1, <1>3, CountsKept DEF Panic, CancelFires
  <2> QED
    BY <2>1, <2>2
<1>4. CASE Line(t)
  <2>1. lines[t] + 1 \in 0 .. MaxLines
    BY <1>1, <1>4, ConstantsOK DEF Line, Ranges
  <2>2. Ranges' /\ Room'
    BY <1>1, <1>4, <2>1 DEF Line, NativeRead, Ranges, Room
  <2>3. Counts'
    BY <1>1, <1>4, CountsKept DEF Line
  <2> QED
    BY <2>2, <2>3
<1>5. CASE Emit(t) \/ EmitError(t)
  <2>1. [turn |-> t, type |-> "event"] \in Events
    BY DEF Events
  <2>2. Room'
    <3> DEFINE e == [turn |-> t, type |-> "event"]
    <3>1. \/ UNCHANGED events
          \/ events' = Append(events, e) /\ Len(events) < Capacity
      BY <1>5 DEF Emit, EmitError, Sent
    <3>2. Append(events, e) \in Seq(Events) /\ Len(Append(events, e)) = Len(events) + 1
      BY <1>1, <2>1, AppendProperties DEF Room
    <3>3. Len(events) \in Nat
      BY <1>1, LenProperties DEF Room
    <3> HIDE DEF e
    <3> QED
      BY <1>1, <3>1, <3>2, <3>3, ConstantsOK DEF Room
  <2>3. Ranges'
    BY <1>1, <1>5 DEF Emit, EmitError, Sent, NativeRead, Ranges
  <2>4. Counts'
    BY <1>1, <1>5, CountsKept DEF Emit, EmitError, Sent
  <2> QED
    BY <2>2, <2>3, <2>4
<1> QED
  BY <1>2, <1>3, <1>4, <1>5

\* Cancel, the steps of Close, and the pump.
LEMMA TypeOthers ==
  TypeOK /\ (Cancel \/ Close \/ CloseCancels \/ Waited \/ CloseChannel \/ Receive) => TypeOK'
<1> SUFFICES ASSUME TypeOK,
                    Cancel \/ Close \/ CloseCancels \/ Waited \/ CloseChannel \/ Receive
             PROVE  Ranges' /\ Counts' /\ Room'
  BY TypePartsNext
<1> USE DEF Slot, Native, Cancels, Channel, Closing
<1>1. Ranges /\ Counts /\ Room
  BY TypeParts
<1>2. CASE Cancel \/ Close \/ CloseCancels \/ Waited \/ CloseChannel
  <2>1. Ranges' /\ Room'
    BY <1>1, <1>2 DEF Cancel, Close, CloseCancels, Waited, CloseChannel, Ranges, Room
  <2>2. Counts'
    BY <1>1, <1>2, CountsKept DEF Cancel, Close, CloseCancels, Waited, CloseChannel
  <2> QED
    BY <2>1, <2>2
<1>3. CASE Receive
  <2>1. /\ Head(events) \in Events
        /\ Tail(events) \in Seq(Events)
        /\ Len(Tail(events)) <= Capacity
    BY <1>1, <1>3, HeadTailProperties, LenProperties, ConstantsOK DEF Receive, Room
  <2>2. Ranges' /\ Room'
    BY <1>1, <1>3, <2>1 DEF Receive, Ranges, Room, Events
  <2>3. Counts'
    BY <1>1, <1>3, CountsKept DEF Receive
  <2> QED
    BY <2>2, <2>3
<1> QED
  BY <1>2, <1>3

\* Every step keeps the types.
LEMMA TypeNext == TypeOK /\ [Next]_vars => TypeOK'
<1> SUFFICES ASSUME TypeOK, [Next]_vars PROVE TypeOK'
  OBVIOUS
<1>1. CASE UNCHANGED vars
  BY <1>1 DEF vars, TypeOK
<1>2. CASE Accept
  BY <1>2, TypeAccept
<1>3. ASSUME NEW t \in Turns, Goroutine(t) \/ Line(t) \/ Exit(t) \/ CancelFires(t)
      PROVE  TypeOK'
  BY <1>3, TypeLaunch, TypeSendDone, TypeTurn DEF Goroutine
<1>4. CASE Cancel \/ Close \/ CloseCancels \/ Waited \/ CloseChannel \/ Receive
  BY <1>4, TypeOthers
<1> QED
  BY <1>1, <1>2, <1>3, <1>4 DEF Next

\* The types are kept: the channel is never sent to beyond its capacity, and the WaitGroup
\* counts exactly the goroutines that run, so that its counter is never negative.
THEOREM TypeCorrect == Spec => []TypeOK
  BY TypeInit, TypeNext, PTL DEF Spec
-----------------------------------------------------------------------------
(* The slot.                                                                  *)

\* The slot is free in the first state.
LEMMA SlotInit == Init => OneTurnAtATime
  BY ConstantsOK DEF Init, OneTurnAtATime, HoldsSlot, Turns

\* A step that moves no turn into or out of the slot leaves it to its holder.
LEMMA SlotKept ==
  ASSUME OneTurnAtATime, busy' = busy, cancelTurn' = cancelTurn,
         \A t \in Turns : HoldsSlot(t)' <=> HoldsSlot(t)
  PROVE  OneTurnAtATime'
<1>1. \A t \in Turns : HoldsSlot(t)' <=> cancelTurn' = t
  BY DEF OneTurnAtATime
<1>2. busy' <=> cancelTurn' # 0
  BY DEF OneTurnAtATime
<1> QED
  BY <1>1, <1>2 DEF OneTurnAtATime

\* Accept takes the slot when nobody has it.
LEMMA SlotAccept == TypeOK /\ OneTurnAtATime /\ Accept => OneTurnAtATime'
<1> SUFFICES ASSUME TypeOK, OneTurnAtATime, Accept PROVE OneTurnAtATime'
  OBVIOUS
<1>1. Ranges
  BY TypeParts
<1>2. NewTurn \in Turns /\ NewTurn # 0
  BY NewTurnIsFirst, ConstantsOK DEF Accept, Turns
<1>3. \A t \in Turns : ~HoldsSlot(t)
  BY ConstantsOK DEF Accept, OneTurnAtATime, Turns
<1>4. \A t \in Turns : HoldsSlot(t)' <=> t = NewTurn
  BY <1>1, <1>2, <1>3 DEF Accept, Go, HoldsSlot, Ranges
<1>5. busy' /\ cancelTurn' = NewTurn
  BY DEF Accept
<1> QED
  BY <1>2, <1>4, <1>5 DEF OneTurnAtATime

\* Release gives it back, and it is the holder that does.
LEMMA SlotRelease ==
  ASSUME NEW t \in Turns PROVE TypeOK /\ OneTurnAtATime /\ Release(t) => OneTurnAtATime'
<1> SUFFICES ASSUME TypeOK, OneTurnAtATime, Release(t) PROVE OneTurnAtATime'
  OBVIOUS
<1>1. Ranges
  BY TypeParts
<1>2. \A u \in Turns : HoldsSlot(u) <=> u = t
  BY DEF Release, Go, HoldsSlot, OneTurnAtATime
<1>3. \A u \in Turns : ~HoldsSlot(u)'
  BY <1>1, <1>2 DEF Release, Go, HoldsSlot, Ranges
<1>4. ~busy' /\ cancelTurn' = 0
  BY DEF Release
<1> QED
  BY <1>3, <1>4, ConstantsOK DEF OneTurnAtATime, Turns

\* The other steps of a turn stay on one side of the slot.
LEMMA SlotTurn ==
  ASSUME NEW t \in Turns
  PROVE  /\ TypeOK /\ OneTurnAtATime
         /\ Launch(t) \/ Spawn(t) \/ SpawnFails(t) \/ Emit(t) \/ EmitError(t) \/ SendDone(t)
              \/ Panic(t) \/ Line(t) \/ Exit(t) \/ CancelFires(t)
         => OneTurnAtATime'
<1> SUFFICES ASSUME TypeOK, OneTurnAtATime,
                    Launch(t) \/ Spawn(t) \/ SpawnFails(t) \/ Emit(t) \/ EmitError(t)
                      \/ SendDone(t) \/ Panic(t) \/ Line(t) \/ Exit(t) \/ CancelFires(t)
             PROVE  OneTurnAtATime'
  OBVIOUS
<1> USE DEF Go, Slot
<1>1. stage \in [Turns -> Stages]
  BY TypeParts DEF Ranges
<1>2. busy' = busy /\ cancelTurn' = cancelTurn
  BY DEF Launch, Spawn, SpawnFails, Emit, EmitError, Sent, SendDone, Panic, Line, Exit, CancelFires
<1>3. \A u \in Turns : HoldsSlot(u)' <=> HoldsSlot(u)
  BY <1>1 DEF Launch, Spawn, SpawnFails, Emit, EmitError, SendDone, Panic, Line, Exit,
              CancelFires, HoldsSlot
<1> QED
  BY <1>2, <1>3, SlotKept

\* Every step keeps the slot with its holder.
LEMMA SlotNext == TypeOK /\ OneTurnAtATime /\ [Next]_vars => OneTurnAtATime'
<1> SUFFICES ASSUME TypeOK, OneTurnAtATime, [Next]_vars PROVE OneTurnAtATime'
  OBVIOUS
<1>1. CASE Accept
  BY <1>1, SlotAccept
<1>2. ASSUME NEW t \in Turns, Goroutine(t) \/ Line(t) \/ Exit(t) \/ CancelFires(t)
      PROVE  OneTurnAtATime'
  BY <1>2, SlotRelease, SlotTurn DEF Goroutine
<1>3. CASE \/ UNCHANGED vars
           \/ Cancel \/ Close \/ CloseCancels \/ Waited \/ CloseChannel \/ Receive
  <2>1. busy' = busy /\ cancelTurn' = cancelTurn /\ stage' = stage
    BY <1>3 DEF vars, Slot, Cancel, Close, CloseCancels, Waited, CloseChannel, Receive
  <2> QED
    BY <2>1, SlotKept DEF HoldsSlot
<1> QED
  BY <1>1, <1>2, <1>3 DEF Next

\* One turn at a time holds the slot, and it is the one that Cancel and Close reach
\* (turn.go:73-88 and 147-150), however many turns there are.
THEOREM OneTurnCorrect == Spec => []OneTurnAtATime
<1>1. Init => TypeOK /\ OneTurnAtATime
  BY TypeInit, SlotInit
<1>2. TypeOK /\ OneTurnAtATime /\ [Next]_vars => (TypeOK /\ OneTurnAtATime)'
  BY TypeNext, SlotNext
<1> QED
  BY <1>1, <1>2, PTL DEF Spec
-----------------------------------------------------------------------------
(* Close.                                                                     *)

\* A session is closed from the first step of Close on and its channel at the last; once
\* Close has stopped waiting nothing runs but what it did not wait for.
CloseInv ==
  /\ closed <=> closer # "none"
  /\ ~open <=> closer = "done"
  /\ closer \in {"close", "done"} =>
       \A t \in Turns : stage[t] \in {"new", "over"} \/ t \in overtaken
  /\ panicked => overtaken # {}

\* Nobody closes in the first state.
LEMMA CloseInit == Init => CloseInv
  BY DEF Init, CloseInv

\* A turn that is not new stays that way or ends: the steps of a turn keep CloseInv.
LEMMA CloseTurn ==
  ASSUME NEW t \in Turns
  PROVE  /\ TypeOK /\ CloseInv
         /\ Goroutine(t) \/ Line(t) \/ Exit(t) \/ CancelFires(t)
         => CloseInv'
<1> SUFFICES ASSUME TypeOK, CloseInv, Goroutine(t) \/ Line(t) \/ Exit(t) \/ CancelFires(t)
             PROVE  CloseInv'
  OBVIOUS
<1> USE DEF Go, Closing, Channel
<1>1. stage \in [Turns -> Stages]
  BY TypeParts DEF Ranges
<1>2. CASE Panic(t)
  <2>1. t \in overtaken
    BY <1>2 DEF Panic, CloseInv
  <2>2. UNCHANGED <<closed, closer, overtaken, open, stage>>
    BY <1>2 DEF Panic
  <2> QED
    BY <2>1, <2>2 DEF CloseInv
<1>3. CASE \/ Launch(t) \/ Spawn(t) \/ SpawnFails(t) \/ Emit(t) \/ EmitError(t) \/ Release(t)
           \/ SendDone(t) \/ Line(t) \/ Exit(t) \/ CancelFires(t)
  <2> USE DEF Launch, Spawn, SpawnFails, Emit, EmitError, Sent, Release, SendDone, Line, Exit,
              CancelFires
  <2>1. UNCHANGED <<closed, closer, overtaken, open, panicked>>
    BY <1>3
  <2>2. \A u \in Turns : stage'[u] = stage[u] \/ (u = t /\ stage[t] \notin {"new", "over"})
    BY <1>1, <1>3
  <2>3. closer' \in {"close", "done"} =>
          \A u \in Turns : stage'[u] \in {"new", "over"} \/ u \in overtaken'
    BY <2>1, <2>2 DEF CloseInv
  <2> QED
    BY <2>1, <2>3 DEF CloseInv
<1> QED
  BY <1>2, <1>3 DEF Goroutine

\* Every step keeps CloseInv.
LEMMA CloseNext == TypeOK /\ CloseInv /\ [Next]_vars => CloseInv'
<1> SUFFICES ASSUME TypeOK, CloseInv, [Next]_vars PROVE CloseInv'
  OBVIOUS
<1> USE DEF Go, Closing, Channel
<1>1. stage \in [Turns -> Stages] /\ Counts
  BY TypeParts DEF Ranges
<1>2. CASE UNCHANGED vars
  BY <1>2 DEF vars, CloseInv
<1>3. CASE Accept
  <2>1. closer \notin {"close", "done"}
    BY <1>3 DEF Accept, CloseInv
  <2> QED
    BY <1>3, <2>1 DEF Accept, CloseInv
<1>4. ASSUME NEW t \in Turns, Goroutine(t) \/ Line(t) \/ Exit(t) \/ CancelFires(t)
      PROVE  CloseInv'
  BY <1>4, CloseTurn
<1>5. CASE Waited
  <2>1. Counted = {}
    BY <1>1, <1>5, CountedFinite, FS_EmptySet DEF Waited, Counts
  <2>2. \A t \in Turns : stage[t] \in {"new", "over"} \/ stage[t] = "accepted"
    BY <1>1, <2>1 DEF Counted
  <2>3. ~panicked /\ UNCHANGED <<closed, open, stage, panicked>>
    BY <1>5 DEF Waited
  <2>4. closer = "wait" /\ closer' = "close"
        /\ overtaken' = {t \in Turns : stage[t] = "accepted"}
    BY <1>5 DEF Waited
  <2> QED
    BY <2>2, <2>3, <2>4 DEF CloseInv
<1>6. CASE Cancel \/ Close \/ CloseCancels \/ CloseChannel \/ Receive
  BY <1>6 DEF Cancel, Close, CloseCancels, CloseChannel, Receive, CloseInv
<1> QED
  BY <1>2, <1>3, <1>4, <1>5, <1>6 DEF Next

\* When Close closes the channel (turn.go:180) every turn is over but for one that Send had not
\* yet counted (turn.go:90), and no other can panic.
THEOREM CloseWaitsCorrect == Spec => []CloseWaits
<1>1. Init => TypeOK /\ CloseInv
  BY TypeInit, CloseInit
<1>2. TypeOK /\ CloseInv /\ [Next]_vars => (TypeOK /\ CloseInv)'
  BY TypeNext, CloseNext
<1>3. CloseInv => CloseWaits
  BY DEF CloseInv, CloseWaits
<1> QED
  BY <1>1, <1>2, <1>3, PTL DEF Spec
-----------------------------------------------------------------------------
(* The native conversation.                                                   *)

\* Turns are accepted in order, and the one with the slot is the last.
Ordered ==
  /\ \A t, u \in Turns : u < t /\ stage[t] # "new" => stage[u] # "new"
  /\ cancelTurn # 0 => \A u \in Turns : u > cancelTurn => stage[u] = "new"

\* The native id is that of the last turn that reported one.
NativeInv ==
  /\ nativeID \in {0} \cup reported
  /\ \A u \in reported : u <= nativeID /\ stage[u] # "new"
  /\ ConversationContinues

\* Nothing is accepted or reported in the first state.
LEMMA NativeInit == Init => Ordered /\ NativeInv
  BY DEF Init, Ordered, NativeInv, ConversationContinues

\* Accept takes the next turn in order, which resumes the last conversation reported.
LEMMA NativeAccept ==
  TypeOK /\ OneTurnAtATime /\ Ordered /\ NativeInv /\ Accept => Ordered' /\ NativeInv'
<1> SUFFICES ASSUME TypeOK, OneTurnAtATime, Ordered, NativeInv, Accept
             PROVE  Ordered' /\ NativeInv'
  OBVIOUS
<1> DEFINE n == NewTurn
<1> HIDE DEF n
<1>1. /\ stage \in [Turns -> Stages]
      /\ resumes \in [Turns -> Turns \cup {0}]
      /\ reported \subseteq Turns
  BY TypeParts DEF Ranges
<1>2. /\ n \in Turns /\ stage[n] = "new"
      /\ \A u \in Turns : u < n => stage[u] # "new"
  BY NewTurnIsFirst DEF Accept, n
<1>3. /\ stage' = [stage EXCEPT ![n] = "accepted"]
      /\ resumes' = [resumes EXCEPT ![n] = nativeID]
      /\ cancelTurn' = n
      /\ UNCHANGED <<nativeID, reported>>
  BY DEF Accept, Go, n
<1>4. Turns \subseteq Nat
  BY ConstantsOK DEF Turns
<1>5. \A u \in Turns : u > n => stage[u] = "new"
  BY <1>2, <1>4 DEF Ordered
<1>6. Ordered'
  <2>1. \A t, u \in Turns : u < t /\ stage'[t] # "new" => stage'[u] # "new"
    BY <1>1, <1>2, <1>3, <1>4, <1>5
  <2>2. \A u \in Turns : u > cancelTurn' => stage'[u] = "new"
    BY <1>1, <1>2, <1>3, <1>4, <1>5
  <2> QED
    BY <2>1, <2>2 DEF Ordered
<1>7. \A u \in reported : u < n /\ u <= nativeID
  BY <1>1, <1>2, <1>4, <1>5 DEF NativeInv
<1>8. nativeID' \in {0} \cup reported'
      /\ \A u \in reported' : u <= nativeID' /\ stage'[u] # "new"
  BY <1>1, <1>2, <1>3 DEF NativeInv
<1>9. ASSUME NEW t \in Turns, stage'[t] # "new"
      PROVE  /\ resumes'[t] \in {0} \cup {u \in reported' : u < t}
             /\ \A u \in reported' : u < t => u <= resumes'[t]
  <2>1. CASE t = n
    <3>1. resumes'[t] = nativeID
      BY <1>1, <1>2, <1>3, <2>1
    <3> QED
      BY <1>3, <1>7, <2>1, <3>1 DEF NativeInv
  <2>2. CASE t # n
    <3>1. resumes'[t] = resumes[t] /\ stage[t] # "new"
      BY <1>1, <1>2, <1>3, <1>9, <2>2
    <3> QED
      BY <1>3, <3>1 DEF NativeInv, ConversationContinues
  <2> QED
    BY <2>1, <2>2
<1>10. ConversationContinues'
  BY <1>9 DEF ConversationContinues
<1> QED
  BY <1>6, <1>8, <1>10 DEF NativeInv

\* The turns in order stay in order while none is accepted.
LEMMA OrderedKept ==
  ASSUME Ordered, cancelTurn' \in {cancelTurn, 0},
         \A u \in Turns : stage'[u] = "new" <=> stage[u] = "new"
  PROVE  Ordered'
<1>1. \A t, u \in Turns : u < t /\ stage'[t] # "new" => stage'[u] # "new"
  BY DEF Ordered
<1>2. cancelTurn' # 0 => \A u \in Turns : u > cancelTurn' => stage'[u] = "new"
  BY DEF Ordered
<1> QED
  BY <1>1, <1>2 DEF Ordered

\* What Translate may report keeps NativeInv: it is the turn with the slot that reads it,
\* and no turn after it was accepted.
LEMMA NativeReadKept ==
  ASSUME NEW t \in Turns, TypeOK, OneTurnAtATime, Ordered, NativeInv,
         HoldsSlot(t), NativeRead(t) \/ UNCHANGED Native,
         \A u \in Turns : stage'[u] = "new" <=> stage[u] = "new"
  PROVE  NativeInv'
<1>1. /\ stage \in [Turns -> Stages]
      /\ resumes \in [Turns -> Turns \cup {0}]
      /\ reported \subseteq Turns
  BY TypeParts DEF Ranges
<1>2. Turns \subseteq Nat \ {0}
  BY ConstantsOK DEF Turns
<1>3. CASE UNCHANGED Native
  <2>1. UNCHANGED <<nativeID, resumes, reported>>
    BY <1>3 DEF Native
  <2>2. ConversationContinues'
    BY <2>1 DEF NativeInv, ConversationContinues
  <2> QED
    BY <1>1, <2>1, <2>2 DEF NativeInv
<1>4. CASE nativeID' = t /\ reported' = reported \cup {t} /\ UNCHANGED resumes
  <2>1. cancelTurn = t /\ stage[t] # "new"
    BY DEF OneTurnAtATime, HoldsSlot
  <2>2. \A u \in Turns : stage[u] # "new" => u <= t
    BY <1>2, <2>1 DEF Ordered
  <2>3. \A u \in reported' : u <= nativeID' /\ stage'[u] # "new"
    BY <1>1, <1>2, <1>4, <2>1, <2>2 DEF NativeInv
  <2>4. ASSUME NEW v \in Turns, stage'[v] # "new"
        PROVE  /\ resumes'[v] \in {0} \cup {u \in reported' : u < v}
               /\ \A u \in reported' : u < v => u <= resumes'[v]
    <3>1. stage[v] # "new" /\ v <= t
      BY <2>2, <2>4
    <3>2. ~(t < v)
      BY <1>2, <3>1
    <3> QED
      BY <1>4, <3>1, <3>2 DEF NativeInv, ConversationContinues
  <2>5. ConversationContinues'
    BY <2>4 DEF ConversationContinues
  <2> QED
    BY <1>4, <2>3, <2>5 DEF NativeInv
<1> QED
  BY <1>3, <1>4 DEF NativeRead

\* The same for a step that reads nothing.
LEMMA NativeKept ==
  ASSUME TypeOK, NativeInv, UNCHANGED Native,
         \A u \in Turns : stage'[u] = "new" <=> stage[u] = "new"
  PROVE  NativeInv'
<1>1. UNCHANGED <<nativeID, resumes, reported>> /\ reported \subseteq Turns
  BY TypeParts DEF Native, Ranges
<1>2. ConversationContinues'
  BY <1>1 DEF NativeInv, ConversationContinues
<1> QED
  BY <1>1, <1>2 DEF NativeInv

\* The steps of a turn.
LEMMA NativeTurn ==
  ASSUME NEW t \in Turns
  PROVE  /\ TypeOK /\ OneTurnAtATime /\ Ordered /\ NativeInv
         /\ Goroutine(t) \/ Line(t) \/ Exit(t) \/ CancelFires(t)
         => Ordered' /\ NativeInv'
<1> SUFFICES ASSUME TypeOK, OneTurnAtATime, Ordered, NativeInv,
                    Goroutine(t) \/ Line(t) \/ Exit(t) \/ CancelFires(t)
             PROVE  Ordered' /\ NativeInv'
  OBVIOUS
<1> USE DEF Go, Slot
<1>1. stage \in [Turns -> Stages]
  BY TypeParts DEF Ranges
<1>2. \A u \in Turns : stage'[u] = "new" <=> stage[u] = "new"
  BY <1>1 DEF Goroutine, Launch, Spawn, SpawnFails, Emit, EmitError, Release, SendDone, Panic,
              Line, Exit, CancelFires
<1>3. cancelTurn' \in {cancelTurn, 0}
  BY DEF Goroutine, Launch, Spawn, SpawnFails, Emit, EmitError, Sent, Release, SendDone, Panic,
         Line, Exit, CancelFires
<1>4. Ordered'
  BY <1>2, <1>3, OrderedKept
<1>5. CASE Line(t) \/ Emit(t)
  <2>1. HoldsSlot(t) /\ (NativeRead(t) \/ UNCHANGED Native)
    BY <1>5 DEF Line, Emit, HoldsSlot
  <2> QED
    BY <1>2, <1>4, <2>1, NativeReadKept
<1>6. CASE \/ Launch(t) \/ Spawn(t) \/ SpawnFails(t) \/ EmitError(t) \/ Release(t) \/ SendDone(t)
           \/ Panic(t) \/ Exit(t) \/ CancelFires(t)
  <2>1. UNCHANGED Native
    BY <1>6 DEF Launch, Spawn, SpawnFails, EmitError, Release, SendDone, Panic, Exit, CancelFires
  <2> QED
    BY <1>2, <1>4, <2>1, NativeKept
<1> QED
  BY <1>5, <1>6 DEF Goroutine

\* Every step keeps the order and the conversation.
LEMMA NativeNext ==
  TypeOK /\ OneTurnAtATime /\ Ordered /\ NativeInv /\ [Next]_vars => (Ordered /\ NativeInv)'
<1> SUFFICES ASSUME TypeOK, OneTurnAtATime, Ordered, NativeInv, [Next]_vars
             PROVE  Ordered' /\ NativeInv'
  OBVIOUS
<1>1. CASE Accept
  BY <1>1, NativeAccept
<1>2. ASSUME NEW t \in Turns, Goroutine(t) \/ Line(t) \/ Exit(t) \/ CancelFires(t)
      PROVE  Ordered' /\ NativeInv'
  BY <1>2, NativeTurn
<1>3. CASE \/ UNCHANGED vars
           \/ Cancel \/ Close \/ CloseCancels \/ Waited \/ CloseChannel \/ Receive
  <2>1. UNCHANGED <<cancelTurn, stage>> /\ UNCHANGED Native
    BY <1>3 DEF vars, Slot, Native, Cancel, Close, CloseCancels, Waited, CloseChannel, Receive
  <2> QED
    BY <2>1, OrderedKept, NativeKept
<1> QED
  BY <1>1, <1>2, <1>3 DEF Next

\* The invariant of the slot and the conversation.
LEMMA SlotInvariant == Spec => [](TypeOK /\ OneTurnAtATime /\ Ordered /\ NativeInv)
<1>1. Init => TypeOK /\ OneTurnAtATime /\ Ordered /\ NativeInv
  BY TypeInit, SlotInit, NativeInit
<1>2. TypeOK /\ OneTurnAtATime /\ Ordered /\ NativeInv /\ [Next]_vars
        => (TypeOK /\ OneTurnAtATime /\ Ordered /\ NativeInv)'
  BY TypeNext, SlotNext, NativeNext
<1> QED
  BY <1>1, <1>2, PTL DEF Spec

\* A turn resumes the conversation of the newest turn before it that reported one (turn.go:87,
\* 122-126), for any number of turns, lines and cancels.
THEOREM ConversationCorrect == Spec => []ConversationContinues
<1>1. NativeInv => ConversationContinues
  BY DEF NativeInv
<1> QED
  BY <1>1, SlotInvariant, PTL
-----------------------------------------------------------------------------
(* task.done.                                                                 *)

\* A task.done that is queued or was received is that of a turn that is over.
DoneInv ==
  /\ \A i \in 1 .. Len(events) : events[i].type = "done" => stage[events[i].turn] = "over"
  /\ \A t \in received : stage[t] = "over"

\* Nothing is queued in the first state.
LEMMA DoneInit == Init => DoneInv
  BY DEF Init, DoneInv

\* Turns that are over stay so, and neither channel nor pump changes: DoneInv is kept.
LEMMA DoneKept ==
  ASSUME TypeOK, DoneInv, UNCHANGED <<events, received>>,
         \A u \in Turns : stage[u] = "over" => stage'[u] = "over"
  PROVE  DoneInv'
<1>1. Room /\ received \subseteq Turns
  BY TypeParts DEF Ranges
<1>2. \A i \in 1 .. Len(events) : events[i] \in Events
  BY <1>1, ElementOfSeq DEF Room
<1> QED
  BY <1>1, <1>2 DEF DoneInv, Events

\* An event is queued, and if it is a task.done its turn is over now.
LEMMA DoneAppended ==
  ASSUME TypeOK, DoneInv, UNCHANGED received, NEW e \in Events, events' = Append(events, e),
         \A u \in Turns : stage[u] = "over" => stage'[u] = "over",
         e.type = "done" => stage'[e.turn] = "over"
  PROVE  DoneInv'
<1>1. Room /\ received \subseteq Turns
  BY TypeParts DEF Ranges
<1>2. \A i \in 1 .. Len(events) : events[i] \in Events
  BY <1>1, ElementOfSeq DEF Room
<1>3. /\ Len(events') = Len(events) + 1
      /\ \A i \in 1 .. Len(events) : events'[i] = events[i]
      /\ events'[Len(events) + 1] = e
  BY <1>1, AppendProperties DEF Room
<1>4. Len(events) \in Nat
  BY <1>1, LenProperties DEF Room
<1>5. ASSUME NEW i \in 1 .. Len(events'), events'[i].type = "done"
      PROVE  stage'[events'[i].turn] = "over"
  <2>1. CASE i \in 1 .. Len(events)
    BY <1>2, <1>3, <1>5, <2>1 DEF DoneInv, Events
  <2>2. CASE i = Len(events) + 1
    BY <1>3, <1>5, <2>2
  <2> QED
    BY <1>3, <1>4, <2>1, <2>2
<1>6. \A t \in received' : stage'[t] = "over"
  BY <1>1 DEF DoneInv
<1> QED
  BY <1>5, <1>6 DEF DoneInv

\* The pump takes the first event.
LEMMA DoneReceived == TypeOK /\ DoneInv /\ Receive => DoneInv'
<1> SUFFICES ASSUME TypeOK, DoneInv, Receive PROVE DoneInv'
  OBVIOUS
<1>1. events \in Seq(Events) /\ events # <<>>
  BY TypeParts DEF Room, Receive
<1>2. /\ stage' = stage
      /\ events' = Tail(events)
      /\ received' = received \cup (IF Head(events).type = "done" THEN {Head(events).turn} ELSE {})
  BY DEF Receive
<1>3. /\ Len(events) \in Nat /\ Len(events) >= 1
      /\ Head(events) = events[1]
      /\ Len(Tail(events)) = Len(events) - 1
      /\ \A i \in 1 .. Len(Tail(events)) : Tail(events)[i] = events[i + 1]
  BY <1>1, HeadTailProperties, LenProperties, EmptySeq
<1>4. \A i \in 1 .. Len(events') : events'[i].type = "done" => stage'[events'[i].turn] = "over"
  <2> SUFFICES ASSUME NEW i \in 1 .. Len(events'), events'[i].type = "done"
               PROVE  stage'[events'[i].turn] = "over"
    OBVIOUS
  <2>1. i + 1 \in 1 .. Len(events) /\ events'[i] = events[i + 1]
    BY <1>2, <1>3
  <2> QED
    BY <1>2, <2>1 DEF DoneInv
<1>5. \A t \in received' : stage'[t] = "over"
  BY <1>2, <1>3 DEF DoneInv
<1> QED
  BY <1>4, <1>5 DEF DoneInv

\* Every step keeps DoneInv.
LEMMA DoneNext == TypeOK /\ DoneInv /\ [Next]_vars => DoneInv'
<1> SUFFICES ASSUME TypeOK, DoneInv, [Next]_vars PROVE DoneInv'
  OBVIOUS
<1> USE DEF Go, Channel
<1>1. stage \in [Turns -> Stages]
  BY TypeParts DEF Ranges
<1>2. CASE Accept
  <2>1. stage[NewTurn] = "new" /\ stage' = [stage EXCEPT ![NewTurn] = "accepted"]
        /\ UNCHANGED <<events, received>>
    BY <1>2 DEF Accept
  <2>2. \A u \in Turns : stage[u] = "over" => stage'[u] = "over"
    BY <1>1, <2>1
  <2> QED
    BY <2>1, <2>2, DoneKept
<1>3. ASSUME NEW t \in Turns, Goroutine(t) \/ Line(t) \/ Exit(t) \/ CancelFires(t)
      PROVE  DoneInv'
  <2>1. \A u \in Turns : stage[u] = "over" => stage'[u] = "over"
    BY <1>1, <1>3 DEF Goroutine, Launch, Spawn, SpawnFails, Emit, EmitError, Release, SendDone,
                      Panic, Line, Exit, CancelFires
  <2>2. CASE SendDone(t)
    <3>1. stage'[t] = "over" /\ UNCHANGED received
          /\ events' = Append(events, [turn |-> t, type |-> "done"])
      BY <1>1, <2>2 DEF SendDone
    <3>2. [turn |-> t, type |-> "done"] \in Events
      BY DEF Events
    <3> QED
      BY <2>1, <3>1, <3>2, DoneAppended
  <2>3. CASE Emit(t) \/ EmitError(t)
    <3>1. UNCHANGED received
          /\ (events' = events \/ events' = Append(events, [turn |-> t, type |-> "event"]))
      BY <2>3 DEF Emit, EmitError, Sent
    <3>2. [turn |-> t, type |-> "event"] \in Events
      BY DEF Events
    <3> QED
      BY <2>1, <3>1, <3>2, DoneAppended, DoneKept
  <2>4. CASE \/ Launch(t) \/ Spawn(t) \/ SpawnFails(t) \/ Release(t) \/ Panic(t) \/ Line(t)
             \/ Exit(t) \/ CancelFires(t)
    <3>1. UNCHANGED <<events, received>>
      BY <2>4 DEF Launch, Spawn, SpawnFails, Release, Panic, Line, Exit, CancelFires
    <3> QED
      BY <2>1, <3>1, DoneKept
  <2> QED
    BY <1>3, <2>2, <2>3, <2>4 DEF Goroutine
<1>4. CASE UNCHANGED vars \/ Cancel \/ Close \/ CloseCancels \/ Waited \/ CloseChannel
  <2>1. UNCHANGED <<events, received, stage>>
    BY <1>4 DEF vars, Cancel, Close, CloseCancels, Waited, CloseChannel
  <2> QED
    BY <2>1, DoneKept
<1>5. CASE Receive
  BY <1>5, DoneReceived
<1> QED
  BY <1>2, <1>3, <1>4, <1>5 DEF Next

\* When the pump has a task.done the slot is free or a later turn has it (turn.go:98 and
\* 147-154), so that the Send of a client that reacts to it meets no turn that is over.
THEOREM SlotFreeCorrect == Spec => []SlotFreeAtDone
<1>1. Init => TypeOK /\ DoneInv
  BY TypeInit, DoneInit
<1>2. TypeOK /\ DoneInv /\ [Next]_vars => (TypeOK /\ DoneInv)'
  BY TypeNext, DoneNext
<1>3. TypeOK /\ OneTurnAtATime /\ Ordered /\ DoneInv => SlotFreeAtDone
  <2> SUFFICES ASSUME TypeOK, OneTurnAtATime, Ordered, DoneInv,
                      NEW t \in received, busy
               PROVE  cancelTurn > t
    BY DEF SlotFreeAtDone
  <2>1. t \in Turns /\ cancelTurn \in Turns \cup {0}
    BY TypeParts DEF Ranges
  <2>2. cancelTurn \in Turns /\ HoldsSlot(cancelTurn)
    BY <2>1 DEF OneTurnAtATime
  <2>3. stage[t] = "over"
    BY DEF DoneInv
  <2>4. t # cancelTurn /\ ~(t > cancelTurn)
    BY <2>1, <2>2, <2>3, ConstantsOK DEF HoldsSlot, Ordered, Turns
  <2> QED
    BY <2>1, <2>2, <2>4, ConstantsOK DEF Turns
<1> QED
  BY <1>1, <1>2, <1>3, SlotInvariant, PTL DEF Spec
=============================================================================
