----------------------------- MODULE TurnSession -----------------------------
(***************************************************************************)
(* adapter.TurnSession: the session of a turn-based agent CLI.  Send starts  *)
(* one process per turn and a goroutine that forwards what it prints; the    *)
(* pump of session.Manager drains the events channel; Cancel and Close come  *)
(* from other requests.  s.mu guards busy, closed, cancelTurn and nativeID,  *)
(* but neither the WaitGroup nor the channel, so whatever Send and Close do  *)
(* after the unlock is a step of its own.                                    *)
(*                                                                           *)
(* A send on a closed channel panics, and with it the whole daemon.          *)
(***************************************************************************)
EXTENDS Integers, Sequences, FiniteSets

CONSTANTS MaxTurns,  \* bound: turns accepted
          MaxLines,  \* bound: lines a process prints
          Capacity   \* room of the events channel

ASSUME ConstantsOK == /\ MaxTurns \in Nat \ {0}
                      /\ MaxLines \in Nat
                      /\ Capacity \in Nat \ {0}

Turns == 1 .. MaxTurns

\* new | accepted: slot taken, goroutine not started | start: before proc.Start |
\* failed: emitting the error of proc.Start | read: in the loop over the lines |
\* emit: emitting the event of a line | release: output over, slot still taken |
\* send: at the plain send of task.done | over
Stages == {"new", "accepted", "start", "failed", "read", "emit", "release", "send", "over"}

Events == [turn : Turns, type : {"event", "done"}]

VARIABLES
  closed,      \* s.closed
  busy,        \* s.busy
  cancelTurn,  \* s.cancelTurn: the turn whose context it cancels, 0 for nil
  nativeID,    \* s.nativeID: the turn whose output it was last read from, 0 at first
  stage,       \* stage[t]: the goroutine of turn t
  resumes,     \* resumes[t]: the nativeID that turn t resumes
  reported,    \* turns whose output carried a native id      (history)
  lines,       \* lines[t]: lines its process has printed
  cancelled,   \* turns whose context is cancelled
  firing,      \* turns that a Cancel has read and not cancelled yet
  wg,          \* s.wg
  events,      \* the channel
  open,        \* the channel is not closed
  closer,      \* where Close is
  victim,      \* the turn whose cancel function Close has read, or 0
  overtaken,   \* turns accepted, not started when Close stopped waiting (history)
  received,    \* turns whose task.done the pump has received (history)
  panicked     \* the daemon has panicked

vars == <<closed, busy, cancelTurn, nativeID, stage, resumes, reported, lines, cancelled,
          firing, wg, events, open, closer, victim, overtaken, received, panicked>>
-----------------------------------------------------------------------------
Init == /\ closed = FALSE
        /\ busy = FALSE
        /\ cancelTurn = 0
        /\ nativeID = 0
        /\ stage = [t \in Turns |-> "new"]
        /\ resumes = [t \in Turns |-> 0]
        /\ reported = {}
        /\ lines = [t \in Turns |-> 0]
        /\ cancelled = {}
        /\ firing = {}
        /\ wg = 0
        /\ events = <<>>
        /\ open = TRUE
        /\ closer = "none"
        /\ victim = 0
        /\ overtaken = {}
        /\ received = {}
        /\ panicked = FALSE

Go(t, from, to) == /\ ~panicked
                   /\ stage[t] = from
                   /\ stage' = [stage EXCEPT ![t] = to]

Channel == <<events, open, received>>
Closing == <<closed, closer, victim, overtaken>>
Slot == <<busy, cancelTurn>>
Cancels == <<cancelled, firing>>
Native == <<nativeID, resumes, reported>>
-----------------------------------------------------------------------------
(* Send.                                                                      *)

NewTurn == CHOOSE t \in Turns : stage[t] = "new" /\ \A u \in 1 .. t - 1 : stage[u] # "new"

\* Mutant of Accept: a turn on top of the one that runs.
AcceptBusy ==
  /\ \E t \in Turns : stage[t] = "new"
  /\ ~closed
  /\ Go(NewTurn, "new", "accepted")
  /\ busy' = TRUE
  /\ cancelTurn' = NewTurn
  /\ resumes' = [resumes EXCEPT ![NewTurn] = nativeID]
  /\ UNCHANGED <<nativeID, reported, lines, Cancels, wg, Channel, Closing, panicked>>

\* The section under s.mu: neither closed nor busy.
Accept ==
  /\ \E t \in Turns : stage[t] = "new"
  /\ ~closed /\ ~busy
  /\ Go(NewTurn, "new", "accepted")
  /\ busy' = TRUE
  /\ cancelTurn' = NewTurn
  /\ resumes' = [resumes EXCEPT ![NewTurn] = nativeID]
  /\ UNCHANGED <<nativeID, reported, lines, Cancels, wg, Channel, Closing, panicked>>

\* Mutant of Launch: without the Add.
LaunchUncounted(t) ==
  /\ Go(t, "accepted", "start")
  /\ UNCHANGED <<Slot, Native, lines, Cancels, wg, Channel, Closing, panicked>>

\* s.wg.Add(1); go s.runTurn(...)
Launch(t) ==
  /\ Go(t, "accepted", "start")
  /\ wg' = wg + 1
  /\ UNCHANGED <<Slot, Native, lines, Cancels, Channel, Closing, panicked>>
-----------------------------------------------------------------------------
(* runTurn.                                                                   *)

\* proc.Start: the process runs, or it does not.  A context that is done starts none.
Spawn(t) ==
  /\ t \notin cancelled
  /\ Go(t, "start", "read")
  /\ UNCHANGED <<Slot, Native, lines, Cancels, wg, Channel, Closing, panicked>>

\* Unless the turn was cancelled that is an error event.
SpawnFails(t) ==
  /\ \/ t \in cancelled /\ Go(t, "start", "release")
     \/ t \notin cancelled /\ Go(t, "start", "failed")
  /\ UNCHANGED <<Slot, Native, lines, Cancels, wg, Channel, Closing, panicked>>

\* What Translate returned: the native id, or nothing new.
NativeRead(t) ==
  \/ UNCHANGED Native
  \/ /\ nativeID' = t
     /\ reported' = reported \cup {t}
     /\ UNCHANGED resumes

\* One line of output.  It has an event to emit before Translate returns, or it has
\* none (a task.done of the agent's own is withheld).
Line(t) ==
  /\ lines[t] < MaxLines
  /\ lines' = [lines EXCEPT ![t] = @ + 1]
  /\ \/ Go(t, "read", "emit") /\ UNCHANGED Native
     \/ Go(t, "read", "read") /\ NativeRead(t)
  /\ UNCHANGED <<Slot, Cancels, wg, Channel, Closing, panicked>>

\* The select of emit: the channel has room, or the turn is cancelled.
Sent(t) ==
  /\ \/ /\ open /\ Len(events) < Capacity
        /\ events' = Append(events, [turn |-> t, type |-> "event"])
     \/ /\ t \in cancelled
        /\ UNCHANGED events
  /\ UNCHANGED <<Slot, lines, Cancels, wg, open, received, Closing, panicked>>

Emit(t) == Go(t, "emit", "read") /\ Sent(t) /\ NativeRead(t)

EmitError(t) == Go(t, "failed", "release") /\ Sent(t) /\ UNCHANGED Native

\* Mutant of Exit: task.done goes out with the slot still taken.
ExitHolding(t) ==
  /\ Go(t, "read", "send")
  /\ UNCHANGED <<Slot, Native, lines, Cancels, wg, Channel, Closing, panicked>>

\* The end of the output: the process has exited, by itself or killed.
Exit(t) ==
  /\ Go(t, "read", "release")
  /\ UNCHANGED <<Slot, Native, lines, Cancels, wg, Channel, Closing, panicked>>

\* Mutant of Release: the cancel function is left behind.
ReleaseKeeps(t) ==
  /\ Go(t, "release", "send")
  /\ busy' = FALSE
  /\ UNCHANGED <<cancelTurn, Native, lines, Cancels, wg, Channel, Closing, panicked>>

\* The slot is free, the context forgotten: only then goes task.done.
Release(t) ==
  /\ Go(t, "release", "send")
  /\ busy' = FALSE
  /\ cancelTurn' = 0
  /\ UNCHANGED <<Native, lines, Cancels, wg, Channel, Closing, panicked>>

SendDone(t) ==
  /\ Go(t, "send", "over")
  /\ open /\ Len(events) < Capacity
  /\ events' = Append(events, [turn |-> t, type |-> "done"])
  /\ wg' = wg - 1
  /\ UNCHANGED <<Slot, Native, lines, Cancels, open, received, Closing, panicked>>

\* Either send on the closed channel.  emit's select may pick it as well.
Panic(t) ==
  /\ ~panicked /\ ~open
  /\ stage[t] \in {"emit", "failed", "send"}
  /\ panicked' = TRUE
  /\ UNCHANGED <<Slot, Native, stage, lines, Cancels, wg, Channel, Closing>>
-----------------------------------------------------------------------------
(* Cancel: the function is read with s.mu held and called afterwards.          *)

Cancel ==
  /\ ~panicked /\ cancelTurn # 0
  /\ firing' = firing \cup {cancelTurn}
  /\ UNCHANGED <<Slot, Native, stage, lines, cancelled, wg, Channel, Closing, panicked>>

CancelFires(t) ==
  /\ ~panicked /\ t \in firing
  /\ firing' = firing \ {t}
  /\ cancelled' = cancelled \cup {t}
  /\ UNCHANGED <<Slot, Native, stage, lines, wg, Channel, Closing, panicked>>
-----------------------------------------------------------------------------
(* Close: a second one returns at once.                                        *)

Close ==
  /\ ~panicked /\ ~closed
  /\ closed' = TRUE
  /\ victim' = cancelTurn
  /\ closer' = "cancel"
  /\ UNCHANGED <<Slot, Native, stage, lines, Cancels, wg, Channel, overtaken, panicked>>

CloseCancels ==
  /\ ~panicked /\ closer = "cancel"
  /\ closer' = "wait"
  /\ cancelled' = IF victim = 0 THEN cancelled ELSE cancelled \cup {victim}
  /\ UNCHANGED <<closed, victim, overtaken, Slot, Native, stage, lines, firing, wg, Channel,
                 panicked>>

\* Mutant of Waited: Close does not wait.
WaitedNot ==
  /\ ~panicked /\ closer = "wait"
  /\ closer' = "close"
  /\ overtaken' = {t \in Turns : stage[t] = "accepted"}
  /\ UNCHANGED <<closed, victim, Slot, Native, stage, lines, Cancels, wg, Channel, panicked>>

\* s.wg.Wait() returns.
Waited ==
  /\ ~panicked /\ closer = "wait"
  /\ wg = 0
  /\ closer' = "close"
  /\ overtaken' = {t \in Turns : stage[t] = "accepted"}
  /\ UNCHANGED <<closed, victim, Slot, Native, stage, lines, Cancels, wg, Channel, panicked>>

CloseChannel ==
  /\ ~panicked /\ closer = "close"
  /\ closer' = "done"
  /\ open' = FALSE
  /\ UNCHANGED <<closed, victim, overtaken, Slot, Native, stage, lines, Cancels, wg, events,
                 received, panicked>>
-----------------------------------------------------------------------------
\* Mutant of Receive: nobody drains a session that is being closed.
ReceiveUntilClose ==
  /\ ~panicked /\ ~closed /\ events # <<>>
  /\ events' = Tail(events)
  /\ received' = received \cup (IF Head(events).type = "done" THEN {Head(events).turn} ELSE {})
  /\ UNCHANGED <<Slot, Native, stage, lines, Cancels, wg, open, Closing, panicked>>

\* The pump takes an event.  It goes on until the channel is closed and empty.
Receive ==
  /\ ~panicked /\ events # <<>>
  /\ events' = Tail(events)
  /\ received' = received \cup (IF Head(events).type = "done" THEN {Head(events).turn} ELSE {})
  /\ UNCHANGED <<Slot, Native, stage, lines, Cancels, wg, open, Closing, panicked>>
-----------------------------------------------------------------------------
Goroutine(t) == Launch(t) \/ Spawn(t) \/ SpawnFails(t) \/ Emit(t) \/ EmitError(t)
                  \/ Release(t) \/ SendDone(t) \/ Panic(t)

Next == \/ Accept
        \/ \E t \in Turns : Goroutine(t) \/ Line(t) \/ Exit(t) \/ CancelFires(t)
        \/ Cancel
        \/ Close \/ CloseCancels \/ Waited \/ CloseChannel
        \/ Receive

Spec == Init /\ [][Next]_vars

\* Goroutines run on, the pump drains, and the output of a process ends once its turn is
\* cancelled (proc.Start kills it).  An agent left alone may print, or be silent, for ever.
Fairness ==
  /\ \A t \in Turns : WF_vars(Goroutine(t)) /\ WF_vars(t \in cancelled /\ Exit(t))
  /\ WF_vars(CloseCancels) /\ WF_vars(Waited) /\ WF_vars(CloseChannel) /\ WF_vars(Receive)

FairSpec == Spec /\ Fairness
-----------------------------------------------------------------------------
(* Properties.                                                                 *)

\* Every variable stays in its range, and the WaitGroup counts the goroutines.
TypeOK ==
  /\ closed \in BOOLEAN /\ busy \in BOOLEAN /\ open \in BOOLEAN /\ panicked \in BOOLEAN
  /\ cancelTurn \in Turns \cup {0}
  /\ nativeID \in Turns \cup {0}
  /\ stage \in [Turns -> Stages]
  /\ resumes \in [Turns -> Turns \cup {0}]
  /\ reported \subseteq Turns
  /\ lines \in [Turns -> 0 .. MaxLines]
  /\ cancelled \subseteq Turns /\ firing \subseteq Turns /\ overtaken \subseteq Turns
  /\ wg = Cardinality({t \in Turns : stage[t] \notin {"new", "accepted", "over"}})
  /\ events \in Seq(Events) /\ Len(events) <= Capacity
  /\ closer \in {"none", "cancel", "wait", "close", "done"}
  /\ victim \in Turns \cup {0}
  /\ received \subseteq Turns

HoldsSlot(t) == stage[t] \in {"accepted", "start", "failed", "read", "emit", "release"}

\* One turn at a time, and it is the one that Cancel and Close reach: they cannot miss the
\* turn that holds the slot, nor find one that no longer does.
OneTurnAtATime ==
  /\ \A t \in Turns : HoldsSlot(t) <=> cancelTurn = t
  /\ busy <=> cancelTurn # 0

\* turn.go:98, "a client that reacts to task.done must be able to Send the next turn
\* immediately": if the slot is taken then by a later turn.
SlotFreeAtDone == \A t \in received : busy => cancelTurn > t

\* A turn resumes the native conversation of the newest turn before it that reported one,
\* however the turns before it ended.
ConversationContinues ==
  \A t \in Turns : stage[t] # "new" =>
    /\ resumes[t] \in {0} \cup {u \in reported : u < t}
    /\ \A u \in reported : u < t => u <= resumes[t]

\* Close waits: when it closes the channel every turn is over, but for one whose Send had
\* taken the slot and not yet counted itself when the wait returned; and no other turn can
\* be the one that meets the closed channel.
CloseWaits ==
  /\ closer = "done" => \A t \in Turns : stage[t] \in {"new", "over"} \/ t \in overtaken
  /\ panicked => overtaken # {}

\* turn.go:152, "Plain send is safe: the manager pump drains events until Close, and Close
\* waits for this goroutine before closing the channel".
PlainSendIsSafe == ~panicked

\* A cancelled turn comes to its task.done, and Close returns, however full the channel is.
CancelAndCloseEnd ==
  /\ \A t \in Turns : t \in cancelled ~> panicked \/ t \in received
  /\ closer = "cancel" ~> closer = "done" \/ panicked
=============================================================================
