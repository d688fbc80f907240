------------------------------ MODULE TailedLog ------------------------------
(***************************************************************************)
(* What a session promises its clients, with none of the machinery: one    *)
(* durable log that only ever grows at its end, and readers that tail it.   *)
(* A reader takes the stored events one by one in seq order.  Aside from     *)
(* those it is handed only events that are in no log (their write failed)   *)
(* and a belated end of the stream, and the only way to move a cursor       *)
(* otherwise is to attach anew.                                             *)
(*                                                                          *)
(* SessionLog implements this specification: its channels, replay batches,  *)
(* broadcasts, overflows and restarts are stuttering steps of this one.     *)
(***************************************************************************)
EXTENDS Integers

CONSTANTS Clients,   \* the readers
          Event,     \* records with at least a natural-number field seq
          EndOf(_)   \* whether an event is an end of the stream

VARIABLES log,       \* the set of stored events
          pos,       \* pos[c]: the seq c is at; it has asked for everything after
          seen       \* seen[c]: every event handed to c, over all attachments

vars == <<log, pos, seen>>

Init == /\ log = {}
        /\ pos = [c \in Clients |-> -1]
        /\ seen = [c \in Clients |-> {}]

\* The log grows, and only after everything that is already in it.
Append(e) == /\ \A x \in log : x.seq < e.seq
             /\ log' = log \cup {e}
             /\ UNCHANGED <<pos, seen>>

\* c is handed the first stored event after its cursor.
Read(c, e) == /\ e \in log
              /\ e.seq > pos[c]
              /\ \A x \in log : x.seq > pos[c] => x.seq >= e.seq
              /\ pos' = [pos EXCEPT ![c] = e.seq]
              /\ seen' = [seen EXCEPT ![c] = @ \cup {e}]
              /\ UNCHANGED log

\* c is handed an event that no log holds, or the end of the stream after the notice
\* that its write failed.
ReadAside(c, e) == /\ e \notin log \/ (EndOf(e) /\ e.seq < pos[c])
                   /\ pos' = [pos EXCEPT ![c] = IF e.seq > @ THEN e.seq ELSE @]
                   /\ seen' = [seen EXCEPT ![c] = @ \cup {e}]
                   /\ UNCHANGED log

\* c attaches somewhere else.
Seek(c) == /\ \E p \in {x.seq : x \in Event} \cup {-1} : pos' = [pos EXCEPT ![c] = p]
           /\ UNCHANGED <<log, seen>>

Next == \/ \E e \in Event : Append(e)
        \/ \E c \in Clients, e \in Event : Read(c, e) \/ ReadAside(c, e)
        \/ \E c \in Clients : Seek(c)

Spec == Init /\ [][Next]_vars
=============================================================================
